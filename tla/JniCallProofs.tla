--------------------------- MODULE JniCallProofs ----------------------------
(***************************************************************************)
(* The composition JniCall: a native method is known by its declaration    *)
(* and every call of it is routed with enough stack words.                 *)
(*                                                                         *)
(* First the frame of route_jni_func, for every argument count             *)
(* (RouteFunc); then how the symbol of an exported method is read, for     *)
(* every name and every list of argument types; last the invariant of the  *)
(* composition, JInv. A symbol is a code of the declaration's text: each   *)
(* letter becomes one or two, and the parser undoes one escape at a time   *)
(* by replacements over the whole text.  The lemmas say when such a        *)
(* replacement reads exactly one escape back, and for which names (Awkward *)
(* ones) it cannot.                                                        *)
(***************************************************************************)
EXTENDS JavaSigProofs

-----------------------------------------------------------------------------
(* The frame of route_jni_func.                                            *)

IInv == TypeOK /\ FrameInv

\* What the hooks count and what the callee takes are natural numbers.
LEMMA Counts ==
    ASSUME NEW c \in Call
    PROVE  /\ NativeArgc(c) \in Nat
           /\ CallArgc(c) \in Nat
           /\ c.hook = "watch" /\ c.stars <= c.ints => WatchArgc(c) \in Nat
           /\ StackWords(c) \in Nat
<1>1. /\ c.ints \in Nat /\ c.fps \in Nat
      /\ c.hook = "watch" => c.fixed \in Nat /\ c.stars \in Nat
  <2>1. c.ints \in 0..MaxInts /\ c.fps \in 0..MaxFps
    BY DEF Call
  <2>2. c.hook = "watch" => c.fixed \in 1..3 /\ c.stars \in 0..1
    BY DEF Call
  <2> QED
    BY <2>1, <2>2, ArgsAssumption
<1>2. ASSUME NEW n \in Nat, NEW r \in Nat
      PROVE  Excess(n, r) \in Nat
  BY DEF Excess
<1>3. Fixed(c.slot) \in Nat
  BY DEF Fixed
<1>4. NativeArgc(c) \in Nat
  <2>1. c.ints + c.fps + 2 \in Nat
    BY <1>1
  <2> QED
    BY <1>2, <2>1 DEF NativeArgc, REG_COUNT
<1>5. CallArgc(c) \in Nat
  <2>1. /\ c.ints + c.fps + Fixed(c.slot) \in Nat
        /\ Fixed(c.slot) + 1 \in Nat
    BY <1>1, <1>3
  <2> QED
    BY <1>2, <2>1 DEF CallArgc, REG_COUNT
<1>6. StackWords(c) \in Nat
  <2>1. /\ c.ints + 2 \in Nat
        /\ c.ints + Fixed(c.slot) \in Nat
    BY <1>1, <1>3
  <2>2. /\ Excess(c.ints + 2, 8) \in Nat
        /\ Excess(c.fps, 8) \in Nat
        /\ Excess(c.ints + Fixed(c.slot), 8) \in Nat
    BY <1>1, <1>2, <2>1
  <2>3. ASSUME c.hook = "watch"
        PROVE  Excess(c.ints + c.fixed, 8) \in Nat
    <3>1. c.ints + c.fixed \in Nat
      BY <1>1, <2>3
    <3> QED
      BY <1>2, <3>1
  <2> QED
    BY <2>2, <2>3 DEF StackWords, REG_COUNT
<1>7. ASSUME c.hook = "watch", c.stars <= c.ints
      PROVE  WatchArgc(c) \in Nat
  <2> DEFINE n == (Directives(c) - 1) + (c.fixed + 1)
  <2>1. n \in Nat
    BY <1>1, <1>7 DEF Directives
  <2>2. WatchArgc(c) = Excess(n, 8)
    BY DEF WatchArgc, REG_COUNT
  <2> HIDE DEF n
  <2> QED
    BY <1>2, <2>1, <2>2
<1> QED
  BY <1>4, <1>5, <1>6, <1>7

\* An even number of words, padding included, lies between x19 and sp.
LEMMA EvenFrame ==
    ASSUME NEW n \in Nat
    PROVE  (-n - (n % 2)) % 2 = 0
  OBVIOUS

LEMMA InitIInv == Init => IInv
  BY DEF Init, IInv, TypeOK, FrameInv

\* A call that enters the routine, or returns at once, starts in a good frame.
LEMMA EnterIInv ==
    ASSUME IInv, NEW c \in Call, NEW n \in Nat, Enter(c, n)
    PROVE  IInv'
<1>1. mem' = [a \in (-n - 1)..(-1) |-> Unset] /\ argc' = n /\ pc' = "align" /\ call' = c
      /\ sp' = 0 /\ x0' = x0 /\ x10' = x10
  BY DEF Enter
<1>2. TypeOK'
  BY <1>1 DEF IInv, TypeOK, Unset
<1>3. FrameInv'
  BY <1>1 DEF FrameInv
<1> QED
  BY <1>2, <1>3 DEF IInv

LEMMA ReturnIInv ==
    ASSUME IInv, NEW c \in Call, ReturnZero(c)
    PROVE  IInv'
  BY DEF IInv, ReturnZero, TypeOK, FrameInv

\* The steps of the routine itself.
Routine == route_align \/ route_push \/ route_call \/ route_ret

LEMMA RoutineIInv == IInv /\ [Routine]_vars => IInv'
<1> SUFFICES ASSUME IInv, [Routine]_vars
             PROVE  IInv'
  OBVIOUS
<1> USE DEF IInv
<1>1. CASE route_align
  <2>1. argc \in Nat /\ sp = 0 /\ mem \in [(-argc - 1)..(-1) -> Int]
        /\ \A a \in DOMAIN mem : mem[a] = Unset
    BY <1>1 DEF route_align, TypeOK, FrameInv
  <2>2. /\ x0' = argc - 1 /\ x10' = 0 /\ pc' = "loop" /\ argc' = argc /\ call' = call
    BY <1>1 DEF route_align
  <2>3. CASE argc % 2 = 0
    <3>1. mem' = mem /\ sp' = 0
      BY <1>1, <2>1, <2>3 DEF route_align, mod_for_asm
    <3> QED
      BY <1>1, <2>1, <2>2, <2>3, <3>1 DEF TypeOK, FrameInv, route_align
  <2>4. CASE argc % 2 # 0
    <3>1. mem' = [mem EXCEPT ![-1] = Padding] /\ sp' = -1
      BY <1>1, <2>1, <2>4 DEF route_align, mod_for_asm
    <3>2. argc % 2 = 1
      BY <2>1, <2>4
    <3>3. TypeOK'
      BY <1>1, <2>1, <2>2, <3>1 DEF TypeOK, route_align, Padding
    <3>4. \A a \in DOMAIN mem' : mem'[a] # Unset => a >= sp'
      BY <2>1, <3>1
    <3> QED
      BY <2>1, <2>2, <3>1, <3>2, <3>3, <3>4 DEF FrameInv
  <2> QED
    BY <2>3, <2>4
<1>2. CASE route_push
  <2>1. /\ argc \in Nat /\ x0 \in Int /\ x10 \in Int /\ sp \in Int
        /\ mem \in [(-argc - 1)..(-1) -> Int]
        /\ x0 \in 0..(argc - 1) /\ x10 = x0 + 1 - argc /\ sp = x10 - (argc % 2)
        /\ \A i \in (x0 + 1)..(argc - 1) : mem[i - argc] = i + 1
        /\ \A a \in DOMAIN mem : mem[a] # Unset => a >= sp
    BY <1>2 DEF route_push, TypeOK, FrameInv
  <2>2. /\ pc = "loop" /\ pc' = "loop" /\ argc' = argc /\ call' = call /\ seen' = seen
        /\ mem' = [mem EXCEPT ![x10 - 1] = x0 + 1]
        /\ x10' = x10 - 1 /\ sp' = sp - 1 /\ x0' = x0 - 1
    BY <1>2 DEF route_push
  <2>3. x10 - 1 = x0 - argc /\ x10 - 1 \in (-argc - 1)..(-1)
    BY <2>1
  <2>4. TypeOK'
    BY <2>1, <2>2, <2>3 DEF TypeOK
  <2>5. \A i \in (x0' + 1)..(argc' - 1) : mem'[i - argc'] = i + 1
    BY <2>1, <2>2, <2>3
  <2>6. argc % 2 \in {0, 1}
    BY <2>1
  <2>7. \A a \in DOMAIN mem' : mem'[a] # Unset => a >= sp'
    BY <2>1, <2>2, <2>3, <2>6
  <2> QED
    BY <2>1, <2>2, <2>4, <2>5, <2>7 DEF FrameInv
<1>3. CASE route_call
  BY <1>3 DEF route_call, TypeOK, FrameInv
<1>4. CASE route_ret
  BY <1>4 DEF route_ret, TypeOK, FrameInv
<1>5. CASE UNCHANGED vars
  BY <1>5 DEF vars, TypeOK, FrameInv
<1> QED
  BY <1>1, <1>2, <1>3, <1>4, <1>5 DEF Routine

LEMMA NextIInv == IInv /\ [Next]_vars => IInv'
<1>1. ASSUME IInv, NEW c \in Call, hook_native_func(c) \/ hook_call_methods(c) \/ hook_libc_func(c)
      PROVE  IInv'
  <2>1. CASE hook_native_func(c)
    BY <1>1, <2>1, EnterIInv, Counts DEF hook_native_func
  <2>2. CASE hook_call_methods(c)
    BY <1>1, <2>2, EnterIInv, ReturnIInv, Counts DEF hook_call_methods
  <2>3. CASE hook_libc_func(c)
    BY <1>1, <2>3, EnterIInv, Counts DEF hook_libc_func
  <2> QED
    BY <1>1, <2>1, <2>2, <2>3
<1> QED
  BY <1>1, RoutineIInv DEF Next, Routine

LEMMA IInvAlways == Spec => []IInv
  BY InitIInv, NextIInv, PTL DEF Spec

\* The registers and the frame of route_jni_func keep their types.
THEOREM TypeCorrect == Spec => []TypeOK
  BY IInvAlways, PTL DEF IInv

\* What the invariant says of the frame at the call.
LEMMA FrameAligned == IInv => StackAligned
<1> SUFFICES ASSUME IInv, pc = "called"
             PROVE  sp % 2 = 0
  BY DEF StackAligned
<1>1. argc \in Nat /\ sp = -argc - (argc % 2)
  BY DEF IInv, TypeOK, FrameInv
<1> QED
  BY <1>1, EvenFrame

LEMMA FrameAbove == IInv => PushedAboveSp
  BY DEF IInv, FrameInv, PushedAboveSp

LEMMA FrameEven == IInv => EvenCallIntact
<1> SUFFICES ASSUME IInv, pc = "called", argc % 2 = 0, StackWords(call) <= argc,
                    NEW i \in 0..(StackWords(call) - 1)
             PROVE  seen[i] = i + 1
  BY DEF EvenCallIntact
<1>1. StackWords(call) \in Nat
  BY Counts DEF IInv, TypeOK
<1>2. /\ argc \in Nat /\ sp = -argc
      /\ DOMAIN mem = (-argc - 1)..(-1)
      /\ \A j \in 0..(argc - 1) : mem[j - argc] = j + 1
      /\ seen[i] = IF sp + i \in DOMAIN mem THEN mem[sp + i] ELSE Unset
  BY DEF IInv, TypeOK, FrameInv
<1>3. sp + i = i - argc /\ sp + i \in DOMAIN mem /\ i \in 0..(argc - 1)
  BY <1>1, <1>2
<1> QED
  BY <1>2, <1>3

LEMMA FrameOdd == IInv => OddCallShifted
<1> SUFFICES ASSUME IInv, pc = "called", argc % 2 = 1, StackWords(call) <= argc,
                    NEW i \in 0..(StackWords(call) - 1)
             PROVE  seen[i] = IF i = 0 THEN Unset ELSE i
  BY DEF OddCallShifted
<1>1. StackWords(call) \in Nat
  BY Counts DEF IInv, TypeOK
<1>2. /\ argc \in Nat /\ x10 = -argc /\ sp = -argc - 1
      /\ DOMAIN mem = (-argc - 1)..(-1)
      /\ \A j \in 0..(argc - 1) : mem[j - argc] = j + 1
      /\ seen[i] = IF sp + i \in DOMAIN mem THEN mem[sp + i] ELSE Unset
  BY DEF IInv, TypeOK, FrameInv
<1>3. sp + i = (i - 1) - argc /\ sp + i \in DOMAIN mem /\ i \in 0..(argc - 1)
  BY <1>1, <1>2
<1>4. CASE i = 0
  BY <1>2, <1>3, <1>4 DEF IInv, FrameInv
<1>5. CASE i # 0
  <2> DEFINE j == i - 1
  <2>1. j \in 0..(argc - 1) /\ j + 1 = i /\ sp + i = j - argc
    BY <1>1, <1>2, <1>3, <1>5
  <2> HIDE DEF j
  <2>2. mem[sp + i] = i
    BY <1>2, <2>1
  <2> QED
    BY <1>2, <1>3, <1>5, <2>2
<1> QED
  BY <1>4, <1>5

LEMMA FrameRouted == IInv => CallRouted
  BY FrameAligned, FrameAbove, FrameEven, FrameOdd DEF CallRouted

\* Whatever the number of stack words, the original function is called with sp on
\* a 16-byte boundary.
THEOREM AlwaysAligned == Spec => []StackAligned
  BY FrameAligned, IInvAlways, PTL

\* No pushed word is left below sp when the original function runs.
THEOREM AlwaysPushedAboveSp == Spec => []PushedAboveSp
  BY FrameAbove, IInvAlways, PTL

\* With an even count that covers the callee's stack arguments, the callee reads
\* every one of them, for any number of arguments.
THEOREM EvenCallsIntact == Spec => []EvenCallIntact
  BY FrameEven, IInvAlways, PTL

\* With an odd count every word the callee reads is one place too low, for any
\* number of arguments.
THEOREM OddCallsShifted == Spec => []OddCallShifted
  BY FrameOdd, IInvAlways, PTL

\* What route_func hands to the callee, for every number of arguments: the four
\* results above together.
THEOREM CallsRouted == Spec => []CallRouted
  BY FrameRouted, IInvAlways, PTL

-----------------------------------------------------------------------------
\* The count of a call does not change until it has returned.
CountInv ==
    /\ pc = "dropped" => call.hook = "call"
    /\ pc \in {"align", "loop", "called"} =>
         /\ call.hook = "native" => argc = NativeArgc(call)
         /\ call.hook = "watch" => argc = WatchArgc(call)

\* Two kinds of registers never leave more words over than one kind does.
LEMMA ExcessSplit ==
    ASSUME NEW a \in Nat, NEW b \in Nat, NEW n \in Nat, n >= a + b
    PROVE  Excess(a, 8) + Excess(b, 8) <= Excess(n, 8)
  BY DEF Excess

LEMMA RoutineCountInv == CountInv /\ [Routine]_vars => CountInv'
<1> SUFFICES ASSUME CountInv, [Routine]_vars
             PROVE  CountInv'
  OBVIOUS
<1>1. CASE route_align \/ route_push \/ route_call
  BY <1>1 DEF route_align, route_push, route_call, CountInv
<1>2. CASE route_ret
  BY <1>2 DEF route_ret, CountInv
<1>3. CASE UNCHANGED vars
  BY <1>3 DEF vars, CountInv
<1> QED
  BY <1>1, <1>2, <1>3 DEF Routine

LEMMA CountInvAlways == Spec => []CountInv
<1>1. Init => CountInv
  BY DEF Init, CountInv
<1>2. CountInv /\ [Next]_vars => CountInv'
  <2> SUFFICES ASSUME CountInv, [Next]_vars
               PROVE  CountInv'
    OBVIOUS
  <2>1. ASSUME NEW c \in Call, hook_native_func(c)
        PROVE  CountInv'
    BY <2>1 DEF hook_native_func, Enter, CountInv
  <2>2. ASSUME NEW c \in Call, hook_call_methods(c)
        PROVE  CountInv'
    BY <2>2 DEF hook_call_methods, Enter, ReturnZero, CountInv
  <2>3. ASSUME NEW c \in Call, hook_libc_func(c)
        PROVE  CountInv'
    BY <2>3 DEF hook_libc_func, Enter, CountInv
  <2> QED
    BY <2>1, <2>2, <2>3, RoutineCountInv DEF Next, Routine
<1> QED
  BY <1>1, <1>2, PTL DEF Spec

LEMMA CountsSuffice == IInv /\ CountInv => CountCovers
<1> SUFFICES ASSUME IInv, CountInv, pc # "idle", call.hook # "call",
                    call.hook = "watch" => ~(call.stars > 0)
             PROVE  StackWords(call) <= argc
  BY DEF CountCovers
<1>1. call \in Call /\ pc \in {"align", "loop", "called"}
  BY DEF IInv, TypeOK, CountInv
<1>2. call.ints \in Nat /\ call.fps \in Nat
  BY <1>1, ArgsAssumption DEF Call
<1>3. CASE call.hook = "native"
  <2>1. StackWords(call) = Excess(call.ints + 2, 8) + Excess(call.fps, 8)
    BY <1>3 DEF StackWords, REG_COUNT
  <2>2. argc = Excess(call.ints + call.fps + 2, 8)
    BY <1>1, <1>3 DEF CountInv, NativeArgc, REG_COUNT
  <2>3. /\ call.ints + 2 \in Nat /\ call.ints + call.fps + 2 \in Nat
        /\ call.ints + call.fps + 2 >= (call.ints + 2) + call.fps
    BY <1>2
  <2> QED
    BY <1>2, <2>1, <2>2, <2>3, ExcessSplit
<1>4. CASE call.hook = "watch"
  <2>1. call.fixed \in 1..3 /\ call.stars \in 0..1
    BY <1>1, <1>4 DEF Call
  <2>2. call.stars = 0
    BY <1>4, <2>1
  <2>3. StackWords(call) = Excess(call.ints + call.fixed, 8) + Excess(call.fps, 8)
    BY <1>4 DEF StackWords, REG_COUNT
  <2> DEFINE n == (Directives(call) - 1) + (call.fixed + 1)
  <2>4. argc = Excess(n, 8)
    <3>1. argc = WatchArgc(call)
      BY <1>1, <1>4 DEF CountInv
    <3> QED
      BY <3>1 DEF WatchArgc, REG_COUNT
  <2>5. /\ call.ints + call.fixed \in Nat
        /\ n \in Nat
        /\ n >= (call.ints + call.fixed) + call.fps
    BY <1>2, <2>1, <2>2 DEF Directives
  <2> HIDE DEF n
  <2> QED
    BY <1>2, <2>3, <2>4, <2>5, ExcessSplit
<1> QED
  BY <1>1, <1>3, <1>4 DEF Call

\* hook_native_func, and hook_libc_func for formats without variable widths, never
\* push fewer words than the callee takes, for any mix of arguments.
THEOREM CountsCover == Spec => []CountCovers
  BY IInvAlways, CountInvAlways, CountsSuffice, PTL

-----------------------------------------------------------------------------
(* Where the letters of a text stand in its code.                          *)

\* Where the letters of Z begin in its coded form X.
IsCoded(X, N, T, Z, n, M) ==
    /\ X \in Text /\ N \in Nat /\ N = Len(X) /\ Z \in Text /\ n \in Nat /\ n = Len(Z)
    /\ T[0] = 0 /\ T[n] = N
    /\ \A k \in 0..n : T[k] \in 0..N
    /\ \A k \in 0..(n - 1) :
          /\ Z[k + 1] \in Letter /\ T[k + 1] = T[k] + Len(M[Z[k + 1]])
          /\ \A j \in 1..Len(M[Z[k + 1]]) : X[T[k] + j] = M[Z[k + 1]][j]
    /\ \A m \in 1..N : \E k \in 0..(n - 1) : \E j \in 1..Len(M[Z[k + 1]]) : m = T[k] + j

LEMMA CodedExists ==
    ASSUME NEW M \in [Letter -> Text], NEW Z \in Text, NEW X, X = Hom(M, Z), NEW n \in Nat, n = Len(Z)
    PROVE  \E T : /\ IsCoded(X, Len(X), T, Z, n, M)
                  /\ \A k \in 0..n : T[k] = Len(Heads([i \in DOMAIN Z |-> M[Z[i]]])[k])
  <1>1. PICK b : b = [i \in DOMAIN Z |-> M[Z[i]]]
    OBVIOUS
  <1>2. b \in Seq(Text) /\ n = Len(b) /\ X \in Text /\ X = FlattenSeq(b)
    BY <1>1, HomPieces, Zenon DEF Hom
  <1>3. DOMAIN Z = 1..n /\ \A k \in 1..n : Z[k] \in Letter
    BY TextIs
  <1>4. \A k \in 0..(n - 1) : b[k + 1] = M[Z[k + 1]] /\ Z[k + 1] \in Letter
    <2>1. \A k \in 0..(n - 1) : k + 1 \in 1..n
      OBVIOUS
    <2> QED
      BY <1>1, <1>3, <2>1, Zenon
  <1>5. /\ \A i \in 0..n : Len(Heads(b)[i]) \in 0..Len(X)
        /\ Len(Heads(b)[0]) = 0 /\ Len(Heads(b)[n]) = Len(X)
        /\ \A k \in 0..(n - 1) :
             /\ Len(Heads(b)[k + 1]) = Len(Heads(b)[k]) + Len(b[k + 1])
             /\ \A j \in 1..Len(b[k + 1]) : X[Len(Heads(b)[k]) + j] = b[k + 1][j]
        /\ \A m \in 1..Len(X) : \E k \in 0..(n - 1) : \E j \in 1..Len(b[k + 1]) :
              m = Len(Heads(b)[k]) + j
    <2>1. b \in Seq(Text) /\ n = Len(b)
      BY <1>2, Zenon
    <2>2. /\ \A i \in 0..n : Len(Heads(b)[i]) \in 0..Len(FlattenSeq(b))
          /\ Len(Heads(b)[0]) = 0 /\ Len(Heads(b)[n]) = Len(FlattenSeq(b))
          /\ \A k \in 0..(n - 1) :
               /\ Len(Heads(b)[k + 1]) = Len(Heads(b)[k]) + Len(b[k + 1])
               /\ \A j \in 1..Len(b[k + 1]) : FlattenSeq(b)[Len(Heads(b)[k]) + j] = b[k + 1][j]
          /\ \A m \in 1..Len(FlattenSeq(b)) : \E k \in 0..(n - 1) : \E j \in 1..Len(b[k + 1]) :
                m = Len(Heads(b)[k]) + j
      BY <2>1, FlattenAt
    <2> QED
      BY <1>2, <2>2, Zenon
  <1>6. PICK T : T = [k \in 0..n |-> Len(Heads(b)[k])]
    OBVIOUS
  <1>7. 0 \in 0..n /\ n \in 0..n /\ \A k \in 0..(n - 1) : k \in 0..n /\ k + 1 \in 0..n
    OBVIOUS
  <1>8. \A k \in 0..n : T[k] = Len(Heads(b)[k])
    BY <1>6
  <1>9. T[0] = 0 /\ T[n] = Len(X) /\ \A k \in 0..n : T[k] \in 0..Len(X)
    BY <1>5, <1>7, <1>8, Zenon
  <1>10. \A k \in 0..(n - 1) :
             /\ Z[k + 1] \in Letter /\ T[k + 1] = T[k] + Len(M[Z[k + 1]])
             /\ \A j \in 1..Len(M[Z[k + 1]]) : X[T[k] + j] = M[Z[k + 1]][j]
    <2>1. ASSUME NEW k \in 0..(n - 1)
          PROVE  /\ Z[k + 1] \in Letter /\ T[k + 1] = T[k] + Len(M[Z[k + 1]])
                 /\ \A j \in 1..Len(M[Z[k + 1]]) : X[T[k] + j] = M[Z[k + 1]][j]
      <3>1. T[k] = Len(Heads(b)[k]) /\ T[k + 1] = Len(Heads(b)[k + 1])
        BY <1>7, <1>8, Zenon
      <3>2. b[k + 1] = M[Z[k + 1]] /\ Z[k + 1] \in Letter
        BY <1>4, Zenon
      <3>3. /\ Len(Heads(b)[k + 1]) = Len(Heads(b)[k]) + Len(b[k + 1])
            /\ \A j \in 1..Len(b[k + 1]) : X[Len(Heads(b)[k]) + j] = b[k + 1][j]
        BY <1>5, Zenon
      <3> QED
        BY <3>1, <3>2, <3>3, Zenon
    <2> QED
      BY <2>1, Zenon
  <1>11. ASSUME NEW m \in 1..Len(X) PROVE \E k \in 0..(n - 1) : \E j \in 1..Len(M[Z[k + 1]]) : m = T[k] + j
    <2>1. PICK k \in 0..(n - 1) : \E j \in 1..Len(b[k + 1]) : m = Len(Heads(b)[k]) + j
      BY <1>5, Zenon
    <2>2. T[k] = Len(Heads(b)[k]) /\ b[k + 1] = M[Z[k + 1]]
      BY <1>4, <1>7, <1>8, Zenon
    <2> QED
      BY <2>1, <2>2, Zenon
  <1>12. Len(X) \in Nat
    BY <1>2, TextIs
  <1>13. IsCoded(X, Len(X), T, Z, n, M)
    BY <1>2, <1>9, <1>10, <1>11, <1>12, Zenon DEF IsCoded
  <1> QED
    BY <1>1, <1>8, <1>13, Zenon

\* A code of one letter each, or of two of which the first is u and the second is not.
IsCode(M, u, s) ==
    /\ M \in [Letter -> Text] /\ u \in Letter /\ s \in Letter /\ u # s
    /\ Len(M[s]) = 1 /\ M[s][1] = u
    /\ \A c \in Letter :
          \/ Len(M[c]) = 1 /\ (c # s => M[c][1] = c /\ c # u)
          \/ Len(M[c]) = 2 /\ c # s /\ M[c][1] = u /\ M[c][2] # u
IsTwo(w, u, c) == w \in Text /\ Len(w) = 2 /\ w[1] = u /\ w[2] = c

LEMMA HitTwo ==
    ASSUME NEW X \in Text, NEW N \in Nat, N = Len(X), NEW w, NEW u, NEW c, IsTwo(w, u, c), NEW k \in Nat \ {0}
    PROVE  Hit(X, w, k) <=> k + 1 <= N /\ X[k] = u /\ X[k + 1] = c
  <1>1. Hit(X, w, k) <=> k + 2 - 1 <= N /\ \A j \in 1..2 : X[k + j - 1] = w[j]
    BY HitIs, ZenonT(60) DEF IsTwo
  <1>2. w[1] = u /\ w[2] = c
    BY DEF IsTwo
  <1>3. k + 1 - 1 = k /\ k + 2 - 1 = k + 1
    OBVIOUS
  <1> QED
    BY <1>1, <1>2, <1>3

LEMMA CodeGrows ==
    ASSUME NEW M, NEW u, NEW s, IsCode(M, u, s), NEW X, NEW N, NEW T, NEW Z, NEW n \in Nat,
           IsCoded(X, N, T, Z, n, M), NEW i \in 0..n, NEW j \in 0..n, i < j
    PROVE  T[i] < T[j]
  <1>1. /\ \A k \in 0..n : T[k] \in 0..N
        /\ \A k \in 0..(n - 1) : Z[k + 1] \in Letter /\ T[k + 1] = T[k] + Len(M[Z[k + 1]])
        /\ N \in Nat
    BY Zenon DEF IsCoded
  <1>2. \A c \in Letter : Len(M[c]) = 1 \/ Len(M[c]) = 2
    BY Zenon DEF IsCode
  <1>3. \A k \in 0..(n - 1) : T[k] < T[k + 1] /\ T[k] \in Int /\ T[k + 1] \in Int
    <2>1. ASSUME NEW k \in 0..(n - 1) PROVE T[k] < T[k + 1] /\ T[k] \in Int /\ T[k + 1] \in Int
      <3>1. k \in 0..n /\ k + 1 \in 0..n
        OBVIOUS
      <3>2. T[k] \in 0..N /\ T[k + 1] \in 0..N
        BY <1>1, <3>1, Zenon
      <3>3. PICK a : a = Len(M[Z[k + 1]]) /\ (a = 1 \/ a = 2) /\ T[k + 1] = T[k] + a
        BY <1>1, <1>2, Zenon
      <3>4. N \in Nat
        BY <1>1, Zenon
      <3>5. PICK x \in 0..N, y \in 0..N : x = T[k] /\ y = T[k + 1]
        BY <3>2, Zenon
      <3>6. y = x + a /\ (a = 1 \/ a = 2)
        BY <3>3, <3>5, Zenon
      <3>7. x < y /\ x \in Int /\ y \in Int
        BY <3>4, <3>6
      <3> QED
        BY <3>5, <3>7, Zenon
    <2> QED
      BY <2>1, Zenon
  <1>4. PICK S : S = {k \in 0..n : k <= i \/ T[i] < T[k]}
    OBVIOUS
  <1>5. 0 \in S
    BY <1>4
  <1>6. \A k \in 0..(n - 1) : k \in S => k + 1 \in S
    BY <1>1, <1>3, <1>4
  <1>7. \A k \in 0..n : k \in S
    BY <1>5, <1>6, Induct
  <1> QED
    BY <1>4, <1>7

LEMMA CodeHit ==
    ASSUME NEW M, NEW u, NEW s, IsCode(M, u, s), NEW X, NEW N, NEW T, NEW Z, NEW n \in Nat,
           IsCoded(X, N, T, Z, n, M), NEW w, NEW c, IsTwo(w, u, c), NEW k \in 1..N, Hit(X, w, k)
    PROVE  \E i \in 0..(n - 1) :
              /\ k = T[i] + 1
              /\ \/ Len(M[Z[i + 1]]) = 2 /\ M[Z[i + 1]][2] = c
                 \/ Z[i + 1] = s /\ i + 1 < n /\ M[Z[i + 2]][1] = c
  <1>1. X \in Text /\ N \in Nat /\ N = Len(X) /\ T[n] = N
    BY Zenon DEF IsCoded
  <1>2. /\ \A h \in 0..n : T[h] \in 0..N
        /\ \A h \in 0..(n - 1) :
              /\ Z[h + 1] \in Letter /\ T[h + 1] = T[h] + Len(M[Z[h + 1]])
              /\ \A j \in 1..Len(M[Z[h + 1]]) : X[T[h] + j] = M[Z[h + 1]][j]
    BY Zenon DEF IsCoded
  <1>3. PICK i \in 0..(n - 1) : \E j \in 1..Len(M[Z[i + 1]]) : k = T[i] + j
    BY Zenon DEF IsCoded
  <1>4. PICK j \in 1..Len(M[Z[i + 1]]) : k = T[i] + j
    BY <1>3
  <1>5. k + 1 <= N /\ X[k] = u /\ X[k + 1] = c
    BY <1>1, HitTwo
  <1>6. PICK a : a = Z[i + 1]
    OBVIOUS
  <1>7. a \in Letter /\ T[i] \in 0..N /\ T[i + 1] = T[i] + Len(M[a])
        /\ \A h \in 1..Len(M[a]) : X[T[i] + h] = M[a][h]
    BY <1>2, <1>6
  <1>8. \/ Len(M[a]) = 1 /\ (a # s => M[a][1] = a /\ a # u)
        \/ Len(M[a]) = 2 /\ a # s /\ M[a][1] = u /\ M[a][2] # u
    BY <1>7, Zenon DEF IsCode
  <1>9. CASE Len(M[a]) = 2 /\ M[a][1] = u /\ M[a][2] # u
    <2>1. j = 1
      BY <1>4, <1>5, <1>6, <1>7, <1>9
    <2>2. X[T[i] + 2] = M[a][2]
      BY <1>7, <1>9
    <2>3. k = T[i] + 1 /\ k + 1 = T[i] + 2
      BY <1>4, <1>7, <2>1
    <2> QED
      BY <1>5, <1>6, <1>9, <2>2, <2>3, Zenon
  <1>10. CASE Len(M[a]) = 1 /\ (a # s => M[a][1] = a /\ a # u)
    <2>1. j = 1
      BY <1>4, <1>6, <1>10
    <2>2. k = T[i] + 1 /\ X[k] = M[a][1]
      BY <1>4, <1>7, <1>10, <2>1
    <2>3. a = s
      BY <1>5, <1>10, <2>2
    <2>4. T[i + 1] = k
      BY <1>7, <1>10, <2>2
    <2>5. i + 1 < n
      <3>1. i + 1 # n
        BY <1>1, <1>5, <2>4
      <3> QED
        BY <3>1
    <2>6. PICK h \in 0..(n - 1) : h = i + 1
      BY <2>5
    <2>7. PICK e : e = Z[h + 1]
      OBVIOUS
    <2>8. e \in Letter /\ \A g \in 1..Len(M[e]) : X[T[h] + g] = M[e][g]
      BY <1>2, <2>7
    <2>9. Len(M[e]) = 1 \/ Len(M[e]) = 2
      BY <2>8, Zenon DEF IsCode
    <2>10. X[T[h] + 1] = M[e][1]
      BY <2>8, <2>9
    <2>11. M[e][1] = c
      BY <1>5, <2>4, <2>6, <2>10
    <2>12. h + 1 = i + 2
      BY <2>6
    <2> QED
      BY <1>6, <2>2, <2>3, <2>5, <2>7, <2>11, <2>12, Zenon
  <1> QED
    BY <1>8, <1>9, <1>10, Zenon

-----------------------------------------------------------------------------
(* Mangling is a code.                                                     *)

LEMMA TwoIs ==
    ASSUME NEW a \in Letter, NEW b \in Letter
    PROVE  IsTwo(<<a, b>>, a, b)
  BY DEF IsTwo, Text

Mangling ==
    [c \in Letter |-> IF c = "_" THEN <<"_", "1">> ELSE IF c = ";" THEN <<"_", "2">>
                      ELSE IF c = "[" THEN <<"_", "3">> ELSE IF c = "$" THEN <<"_", "0">>
                      ELSE IF c = "/" THEN <<"_">> ELSE <<c>>]

\* The letters of mangled names, by name; and that they are different letters.
AreSigns(u, e, b, o, s, z0, z1, z2, z3) ==
    /\ u = "_" /\ e = ";" /\ b = "[" /\ o = "$" /\ s = "/"
    /\ z0 = "0" /\ z1 = "1" /\ z2 = "2" /\ z3 = "3"
Apart(u, e, b, o, s, z0, z1, z2, z3) ==
    /\ u \in Letter /\ e \in Letter /\ b \in Letter /\ o \in Letter /\ s \in Letter
    /\ z0 \in Letter /\ z1 \in Letter /\ z2 \in Letter /\ z3 \in Letter
    /\ u # e /\ u # b /\ u # o /\ u # s /\ e # b /\ e # o /\ e # s /\ b # o /\ b # s /\ o # s
    /\ u \notin {z0, z1, z2, z3} /\ s \notin {z0, z1, z2, z3} /\ e \notin {z0, z1, z2, z3}
    /\ b \notin {z0, z1, z2, z3} /\ o \notin {z0, z1, z2, z3}
    /\ z0 \notin {z1, z2, z3} /\ z1 # z2 /\ z1 # z3 /\ z2 # z3

LEMMA SignsApart ==
    ASSUME NEW u, NEW e, NEW b, NEW o, NEW s, NEW z0, NEW z1, NEW z2, NEW z3,
           AreSigns(u, e, b, o, s, z0, z1, z2, z3)
    PROVE  Apart(u, e, b, o, s, z0, z1, z2, z3)
  <1>1. /\ "_" \in Letter /\ ";" \in Letter /\ "[" \in Letter /\ "$" \in Letter /\ "/" \in Letter
        /\ "0" \in Letter /\ "1" \in Letter /\ "2" \in Letter /\ "3" \in Letter
    BY Literals, Zenon DEF Literal
  <1>2. /\ "_" # ";" /\ "_" # "[" /\ "_" # "$" /\ "_" # "/" /\ ";" # "[" /\ ";" # "$" /\ ";" # "/"
        /\ "[" # "$" /\ "[" # "/" /\ "$" # "/"
    BY Zenon
  <1>3. "_" \notin {"0", "1", "2", "3"} /\ "/" \notin {"0", "1", "2", "3"} /\ ";" \notin {"0", "1", "2", "3"}
        /\ "[" \notin {"0", "1", "2", "3"} /\ "$" \notin {"0", "1", "2", "3"}
    BY Zenon
  <1>4. "0" \notin {"1", "2", "3"} /\ "1" # "2" /\ "1" # "3" /\ "2" # "3"
    BY Zenon
  <1> QED
    BY <1>1, <1>2, <1>3, <1>4, Zenon DEF AreSigns, Apart

IsMangling(M, u, e, b, o, s, z0, z1, z2, z3) ==
    /\ M \in [Letter -> Text]
    /\ M[u] = <<u, z1>> /\ M[e] = <<u, z2>> /\ M[b] = <<u, z3>> /\ M[o] = <<u, z0>> /\ M[s] = <<u>>
    /\ \A c \in Letter : c \notin {u, e, b, o, s} => M[c] = <<c>>

LEMMA ManglingIs ==
    ASSUME NEW u, NEW e, NEW b, NEW o, NEW s, NEW z0, NEW z1, NEW z2, NEW z3,
           AreSigns(u, e, b, o, s, z0, z1, z2, z3)
    PROVE  IsMangling(Mangling, u, e, b, o, s, z0, z1, z2, z3)
  <1>1. Apart(u, e, b, o, s, z0, z1, z2, z3)
    BY SignsApart
  <1>2. PICK M : M = Mangling
    OBVIOUS
  <1>3. M = [c \in Letter |-> IF c = u THEN <<u, z1>> ELSE IF c = e THEN <<u, z2>>
                      ELSE IF c = b THEN <<u, z3>> ELSE IF c = o THEN <<u, z0>>
                      ELSE IF c = s THEN <<u>> ELSE <<c>>]
    BY <1>2, Zenon DEF Mangling, AreSigns
  <1>4. ASSUME NEW c \in Letter
        PROVE  M[c] = IF c = u THEN <<u, z1>> ELSE IF c = e THEN <<u, z2>>
                      ELSE IF c = b THEN <<u, z3>> ELSE IF c = o THEN <<u, z0>>
                      ELSE IF c = s THEN <<u>> ELSE <<c>>
    BY <1>3, Zenon
  <1>5. /\ M[u] = <<u, z1>> /\ M[e] = <<u, z2>> /\ M[b] = <<u, z3>> /\ M[o] = <<u, z0>> /\ M[s] = <<u>>
        /\ \A c \in Letter : c \notin {u, e, b, o, s} => M[c] = <<c>>
    <2>1. M[u] = <<u, z1>> /\ M[e] = <<u, z2>> /\ M[b] = <<u, z3>>
      BY <1>1, <1>4, Zenon DEF Apart
    <2>2. M[o] = <<u, z0>> /\ M[s] = <<u>>
      BY <1>1, <1>4, Zenon DEF Apart
    <2>3. ASSUME NEW c \in Letter, c \notin {u, e, b, o, s} PROVE M[c] = <<c>>
      BY <1>4, <2>3, Zenon
    <2> QED
      BY <2>1, <2>2, <2>3, Zenon
  <1>6. M \in [Letter -> Text]
    <2>1. <<u, z1>> \in Text /\ <<u, z2>> \in Text /\ <<u, z3>> \in Text /\ <<u, z0>> \in Text /\ <<u>> \in Text
      BY <1>1, TwoIs, Char DEF IsTwo, Apart
    <2>2. ASSUME NEW c \in Letter PROVE M[c] \in Text
      <3>1. CASE c \in {u, e, b, o, s}
        BY <1>5, <2>1, <3>1, Zenon
      <3>2. CASE c \notin {u, e, b, o, s}
        BY <1>5, <3>2, Char, Zenon
      <3> QED
        BY <3>1, <3>2, Zenon
    <2>3. PICK F : F = [c \in Letter |-> M[c]]
      OBVIOUS
    <2>4. M = [c \in Letter |-> M[c]]
      BY <1>3
    <2> QED
      BY <2>2, <2>4
  <1> QED
    BY <1>2, <1>5, <1>6, Zenon DEF IsMangling

LEMMA MangleIs ==
    ASSUME NEW t \in Text
    PROVE  Mangle(t) = Hom(Mangling, t)
  <1>1. DOMAIN t = 1..Len(t) /\ \A i \in 1..Len(t) : t[i] \in Letter
    BY TextIs
  <1>2. ASSUME NEW c \in Letter
        PROVE  (CASE c = "_" -> <<"_", "1">>
                  [] c = ";" -> <<"_", "2">>
                  [] c = "[" -> <<"_", "3">>
                  [] c = "$" -> <<"_", "0">>
                  [] c = "/" -> <<"_">>
                  [] OTHER -> <<c>>) = Mangling[c]
    <2>1. PICK u, e, b, o, s, z0, z1, z2, z3 : AreSigns(u, e, b, o, s, z0, z1, z2, z3)
      BY Zenon DEF AreSigns
    <2>2. IsMangling(Mangling, u, e, b, o, s, z0, z1, z2, z3) /\ Apart(u, e, b, o, s, z0, z1, z2, z3)
      BY <2>1, ManglingIs, SignsApart
    <2>3. /\ u # e /\ u # b /\ u # o /\ u # s /\ e # b /\ e # o /\ e # s /\ b # o /\ b # s /\ o # s
      BY <2>2, Zenon DEF Apart
    <2>4. PICK M : M = Mangling
      OBVIOUS
    <2>5. /\ M[u] = <<u, z1>> /\ M[e] = <<u, z2>> /\ M[b] = <<u, z3>> /\ M[o] = <<u, z0>> /\ M[s] = <<u>>
          /\ c \notin {u, e, b, o, s} => M[c] = <<c>>
      BY <2>2, <2>4, Zenon DEF IsMangling
    <2>6. (CASE c = u -> <<u, z1>>
                  [] c = e -> <<u, z2>>
                  [] c = b -> <<u, z3>>
                  [] c = o -> <<u, z0>>
                  [] c = s -> <<u>>
                  [] OTHER -> <<c>>) = M[c]
      <3>1. CASE c = u
        BY <2>3, <2>5, <3>1
      <3>2. CASE c = e
        BY <2>3, <2>5, <3>2
      <3>3. CASE c = b
        BY <2>3, <2>5, <3>3
      <3>4. CASE c = o
        BY <2>3, <2>5, <3>4
      <3>5. CASE c = s
        BY <2>3, <2>5, <3>5
      <3>6. CASE c \notin {u, e, b, o, s}
        BY <2>3, <2>5, <3>6
      <3> QED
        BY <3>1, <3>2, <3>3, <3>4, <3>5, <3>6, Zenon
    <2> QED
      BY <2>1, <2>4, <2>6, Zenon DEF AreSigns
  <1>3. ASSUME NEW i \in DOMAIN t
        PROVE  (CASE t[i] = "_" -> <<"_", "1">>
                  [] t[i] = ";" -> <<"_", "2">>
                  [] t[i] = "[" -> <<"_", "3">>
                  [] t[i] = "$" -> <<"_", "0">>
                  [] t[i] = "/" -> <<"_">>
                  [] OTHER -> <<t[i]>>) = Mangling[t[i]]
    BY <1>1, <1>2, Zenon
  <1>4. [i \in DOMAIN t |-> CASE t[i] = "_" -> <<"_", "1">>
                  [] t[i] = ";" -> <<"_", "2">>
                  [] t[i] = "[" -> <<"_", "3">>
                  [] t[i] = "$" -> <<"_", "0">>
                  [] t[i] = "/" -> <<"_">>
                  [] OTHER -> <<t[i]>>] = [i \in DOMAIN t |-> Mangling[t[i]]]
    BY <1>3, Zenon
  <1> QED
    BY <1>4, Zenon DEF Mangle, Hom

LEMMA ManglingCode ==
    ASSUME NEW u, NEW e, NEW b, NEW o, NEW s, NEW z0, NEW z1, NEW z2, NEW z3,
           Apart(u, e, b, o, s, z0, z1, z2, z3), NEW M, IsMangling(M, u, e, b, o, s, z0, z1, z2, z3)
    PROVE  /\ IsCode(M, u, s)
           /\ \A c \in Letter : M[c][1] = u <=> c \in {u, e, b, o, s}
           /\ \A c \in Letter : M[c][1] = z0 <=> c = z0
           /\ \A c \in Letter : Len(M[c]) = 2 => M[c][2] # u /\ (M[c][2] = z0 <=> c = o)
  <1>1. /\ u \in Letter /\ e \in Letter /\ b \in Letter /\ o \in Letter /\ s \in Letter
        /\ z0 \in Letter /\ z1 \in Letter /\ z2 \in Letter /\ z3 \in Letter
    BY DEF Apart
  <1>2. IsTwo(M[u], u, z1) /\ IsTwo(M[e], u, z2) /\ IsTwo(M[b], u, z3) /\ IsTwo(M[o], u, z0)
    BY <1>1, TwoIs, Zenon DEF IsMangling
  <1>3. M[s] \in Text /\ Len(M[s]) = 1 /\ M[s][1] = u
    BY <1>1, Char, Zenon DEF IsMangling
  <1>4. \A c \in Letter : c \notin {u, e, b, o, s} => Len(M[c]) = 1 /\ M[c][1] = c
    BY Char, Zenon DEF IsMangling
  <1>5. /\ Len(M[u]) = 2 /\ M[u][1] = u /\ M[u][2] = z1
        /\ Len(M[e]) = 2 /\ M[e][1] = u /\ M[e][2] = z2
        /\ Len(M[b]) = 2 /\ M[b][1] = u /\ M[b][2] = z3
        /\ Len(M[o]) = 2 /\ M[o][1] = u /\ M[o][2] = z0
    BY <1>2, Zenon DEF IsTwo
  <1>6. /\ u # e /\ u # b /\ u # o /\ u # s /\ e # b /\ e # o /\ e # s /\ b # o /\ b # s /\ o # s
        /\ u # z0 /\ u # z1 /\ u # z2 /\ u # z3 /\ z0 # z1 /\ z0 # z2 /\ z0 # z3
        /\ e # z0 /\ s # z0 /\ b # z0 /\ o # z0
    BY DEF Apart
  <1>7. M \in [Letter -> Text]
    BY DEF IsMangling
  <1>8. IsCode(M, u, s)
    <2>1. ASSUME NEW c \in Letter
          PROVE  \/ Len(M[c]) = 1 /\ (c # s => M[c][1] = c /\ c # u)
                 \/ Len(M[c]) = 2 /\ c # s /\ M[c][1] = u /\ M[c][2] # u
      BY <1>3, <1>4, <1>5, <1>6
    <2> QED
      BY <1>1, <1>3, <1>6, <1>7, <2>1, Zenon DEF IsCode
  <1>9. ASSUME NEW c \in Letter
        PROVE  /\ M[c][1] = u <=> c \in {u, e, b, o, s}
               /\ M[c][1] = z0 <=> c = z0
               /\ Len(M[c]) = 2 => M[c][2] # u /\ (M[c][2] = z0 <=> c = o)
    <2>1. CASE c \in {u, e, b, o, s}
      BY <1>3, <1>5, <1>6, <2>1
    <2>2. CASE c \notin {u, e, b, o, s}
      BY <1>4, <1>6, <2>2
    <2> QED
      BY <2>1, <2>2, Zenon
  <1> QED
    BY <1>8, <1>9, Zenon

-----------------------------------------------------------------------------
(* What a mangled type is made of.                                         *)

Begin == Letter \ (Digit \cup Mark)

\* The slash in front of an identifier.
LEMMA SlashId ==
    ASSUME NEW A, NEW id, IdentFacts(id), id[1] \in A, NEW w, IsOne(w, "/"), NEW z, IsCat(z, w, id)
    PROVE  z \in Slashed(A) /\ id \in Slashed(A)
  <1>1. id \in Text /\ id \in Without({"/"})
    <2>1. id \in Without(Mark) /\ {"/"} \subseteq Mark
      BY DEF IdentFacts, Mark, Separator
    <2>2. id \in Without({"/"})
      BY <2>1, WithoutLess
    <2> QED
      BY <2>2, WithoutIs
  <1>2. PICK l \in Nat : l = Len(id) /\ l # 0
    BY DEF IdentFacts
  <1>3. PICK c : c = "/" /\ IsOne(w, c)
    OBVIOUS
  <1>4. HasLen(w, 1) /\ HasLen(id, l) /\ w[1] = c
    BY <1>1, <1>2, <1>3, OneHas, HasLenIs, Char DEF IsOne
  <1>5. CatFacts(z, w, 1, id, l)
    BY <1>4, CatIs
  <1>6. z \in Text /\ Len(z) = 1 + l /\ (\A i \in 1..1 : z[i] = w[i]) /\ (\A i \in 1..l : z[1 + i] = id[i])
    BY <1>5, Zenon DEF CatFacts
  <1>7. \A i \in 1..l : id[i] # c
    BY <1>1, <1>2, <1>3, WithoutIs
  <1>8. ASSUME NEW i \in 1..Len(z), z[i] = c PROVE i < Len(z) /\ z[i + 1] \in A
    <2>1. i \in 1..(1 + l)
      BY <1>6, <1>8
    <2>2. i = 1
      <3>1. CASE i # 1
        <4>1. PICK j \in 1..l : i = 1 + j
          <5>1. i - 1 \in 1..l /\ i = 1 + (i - 1)
            BY <2>1, <3>1
          <5> QED
            BY <5>1
        <4>2. z[i] = id[j]
          BY <1>6, <4>1
        <4> QED
          BY <1>7, <1>8, <4>2
      <3> QED
        BY <3>1
    <2>3. 1 \in 1..l /\ 1 < 1 + l
      BY <1>2
    <2>4. z[1 + 1] = id[1]
      BY <1>6, <2>3, Zenon
    <2> QED
      BY <1>6, <2>2, <2>3, <2>4
  <1>9. z \in Slashed(A)
    BY <1>3, <1>6, <1>8, Zenon DEF Slashed
  <1> QED
    BY <1>1, <1>9, SlashedWithout

LEMMA PathSlashed ==
    ASSUME NEW A, NEW p, NEW n, IsPath(p, n), \A k \in 0..(n - 1) : p[k + 1][1] \in A,
           NEW w, IsOne(w, "/")
    PROVE  Joined(p, w) \in Slashed(A)
  <1>1. p \in Seq(Text) /\ n \in Nat /\ n = Len(p) /\ \A k \in 0..(n - 1) : IdentFacts(p[k + 1])
    BY DEF IsPath
  <1>2. w \in Text
    BY Char DEF IsOne
  <1>3. ASSUME NEW k \in 0..(n - 1) PROVE p[k + 1] \in Slashed(A) /\ w \o p[k + 1] \in Slashed(A)
    <2>1. PICK id, z : id = p[k + 1] /\ IsCat(z, w, id)
      BY DEF IsCat
    <2>2. IdentFacts(id) /\ id[1] \in A
      BY <1>1, <2>1
    <2>3. z \in Slashed(A) /\ id \in Slashed(A)
      BY <2>1, <2>2, SlashId
    <2> QED
      BY <2>1, <2>3, Zenon DEF IsCat
  <1>4. PICK T : T = Slashed(A) /\ IsKind(T)
    BY SlashedKind
  <1>5. \A k \in 0..(n - 1) : p[k + 1] \in T /\ w \o p[k + 1] \in T
    BY <1>3, <1>4, Zenon
  <1>6. Joined(p, w) \in T
    BY <1>1, <1>2, <1>4, <1>5, JoinedKind
  <1> QED
    BY <1>4, <1>6, Zenon

LEMMA IdentBegin ==
    ASSUME NEW id, IdentFacts(id)
    PROVE  id[1] \in Begin
  <1>1. id \in Without(Mark) /\ Len(id) \in Nat \ {0} /\ id[1] \in Letter /\ id[1] \notin Digit
    BY DEF IdentFacts
  <1>2. id[1] \notin Mark
    BY <1>1, WithoutIs
  <1> QED
    BY <1>1, <1>2 DEF Begin

\* The pieces of a mangled type, and when a kind of text has them all.
Holds(T) ==
    /\ IsKind(T) /\ <<"L">> \in T /\ <<";">> \in T
    /\ \A m \in Nat : Dims(m) \in T
    /\ \A c : is_java_base_args_sig(c) => <<c>> \in T

LEMMA TypeSigHolds ==
    ASSUME NEW T, Holds(T), NEW t, IsType(t), t.word = "class" => Joined(t.path, <<"/">>) \in T
    PROVE  TypeSig(t) \in T
  <1>1. CASE t.word = "class"
    <2>1. PICK J, a, b, D : J = Joined(t.path, <<"/">>) /\ a = <<"L">> /\ b = <<";">> /\ D = Dims(t.dim)
      OBVIOUS
    <2>2. TypeSig(t) = D \o ((a \o J) \o b) /\ t.dim \in Nat
      BY <1>1, <2>1, ClassSig, Zenon
    <2>3. J \in T /\ a \in T /\ b \in T /\ D \in T /\ IsKind(T)
      BY <1>1, <2>1, <2>2, Zenon DEF Holds
    <2>4. a \o J \in T
      BY <2>3, KindCat
    <2>5. (a \o J) \o b \in T
      BY <2>3, <2>4, KindCat
    <2>6. D \o ((a \o J) \o b) \in T
      BY <2>3, <2>5, KindCat
    <2> QED
      BY <2>2, <2>6, Zenon
  <1>2. CASE t.word # "class"
    <2>1. PICK a, D : a = <<BaseSig(t.word)>> /\ D = Dims(t.dim)
      OBVIOUS
    <2>2. TypeSig(t) = D \o a
      BY <1>2, <2>1, BasicSig, Zenon
    <2>3. is_java_base_args_sig(BaseSig(t.word)) /\ t.dim \in Nat
      <3>1. t.word \in Keyword /\ t.dim \in Nat
        BY <1>2, Zenon DEF IsType
      <3> QED
        BY <3>1, BaseSigIs
    <2>4. a \in T /\ D \in T /\ IsKind(T)
      BY <2>1, <2>3, Zenon DEF Holds
    <2>5. D \o a \in T
      BY <2>4, KindCat
    <2> QED
      BY <2>2, <2>5, Zenon
  <1> QED
    BY <1>1, <1>2, Zenon

LEMMA SlashedHolds ==
    ASSUME NEW A
    PROVE  Holds(Slashed(A))
  <1>1. "/" # "L" /\ "/" # ";" /\ "/" # "[" /\ \A c : is_java_base_args_sig(c) => c # "/"
    BY Zenon DEF is_java_base_args_sig
  <1>2. ASSUME NEW c \in Letter, c # "/" PROVE <<c>> \in Slashed(A)
    <2>1. <<c>> \in Without({"/"})
      BY <1>2, WithoutOne
    <2> QED
      BY <2>1, SlashedWithout
  <1>3. ASSUME NEW m \in Nat PROVE Dims(m) \in Slashed(A)
    <2>1. "[" \notin {"/"}
      BY Zenon
    <2>2. Dims(m) \in Without({"/"})
      BY <2>1, DimsKind
    <2> QED
      BY <2>2, SlashedWithout
  <1> QED
    BY <1>1, <1>2, <1>3, Letters2, BaseLetters, SlashedKind, Zenon DEF Holds

LEMMA DollarHolds == Holds(Without({"$"}))
  <1>1. "L" \notin {"$"} /\ ";" \notin {"$"} /\ "[" \notin {"$"} /\ \A c : is_java_base_args_sig(c) => c \notin {"$"}
    BY Zenon DEF is_java_base_args_sig
  <1>2. PICK A : A = {"$"}
    OBVIOUS
  <1>3. "L" \notin A /\ ";" \notin A /\ "[" \notin A /\ \A c : is_java_base_args_sig(c) => c \notin A
    BY <1>1, <1>2, Zenon
  <1>4. IsKind(Without(A)) /\ <<"L">> \in Without(A) /\ <<";">> \in Without(A)
    BY <1>3, Letters2, WithoutKind, WithoutOne
  <1>5. \A m \in Nat : Dims(m) \in Without(A)
    BY <1>3, DimsKind
  <1>6. \A c : is_java_base_args_sig(c) => <<c>> \in Without(A)
    BY <1>3, BaseLetters, WithoutOne
  <1> QED
    BY <1>2, <1>4, <1>5, <1>6, Zenon DEF Holds

LEMMA SigsAre ==
    ASSUME NEW d \in Decl
    PROVE  /\ Sigs(d) \in Seq(Text) /\ Len(Sigs(d)) = Len(d.args) /\ Len(d.args) \in Nat
           /\ ArgSigs(d) = FlattenSeq(Sigs(d)) /\ DOMAIN Sigs(d) = 1..Len(d.args)
           /\ \A k \in 0..(Len(d.args) - 1) : /\ Sigs(d)[k + 1] = TypeSig(d.args[k + 1])
                                              /\ IsType(d.args[k + 1])
  <1>1. PICK n \in Nat : n = Len(d.args)
    BY DeclIs
  <1>2. DOMAIN d.args = 1..n /\ \A i \in 1..n : IsType(d.args[i])
    BY <1>1, DeclIs, Zenon
  <1>3. PICK p : p = Sigs(d)
    OBVIOUS
  <1>4. \A i \in 1..n : TypeSig(d.args[i]) \in Text
    BY <1>2, TypeSigWord
  <1>5. p = [i \in 1..n |-> TypeSig(d.args[i])]
    BY <1>2, <1>3, Zenon DEF Sigs
  <1>6. \A i \in 1..n : p[i] = TypeSig(d.args[i]) /\ p[i] \in Text
    BY <1>4, <1>5
  <1>7. p = [i \in 1..n |-> p[i]]
    BY <1>5
  <1>8. p \in Seq(Text) /\ Len(p) = n /\ DOMAIN p = 1..n
    BY <1>6, <1>7
  <1>9. ASSUME NEW k \in 0..(n - 1) PROVE p[k + 1] = TypeSig(d.args[k + 1]) /\ IsType(d.args[k + 1])
    <2>1. k + 1 \in 1..n
      OBVIOUS
    <2> QED
      BY <1>2, <1>6, <2>1, Zenon
  <1>10. ArgSigs(d) = FlattenSeq(p)
    BY <1>3, Zenon DEF ArgSigs, Sigs
  <1> QED
    BY <1>1, <1>3, <1>8, <1>9, <1>10, Zenon

LEMMA ArgSigsHold ==
    ASSUME NEW T, Holds(T), NEW d \in Decl,
           \A k \in 0..(Len(d.args) - 1) :
               d.args[k + 1].word = "class" => Joined(d.args[k + 1].path, <<"/">>) \in T
    PROVE  ArgSigs(d) \in T
  <1>1. PICK n \in Nat : n = Len(d.args)
    BY DeclIs
  <1>2. PICK p : p = Sigs(d) /\ p \in Seq(Text) /\ n = Len(p) /\ ArgSigs(d) = FlattenSeq(p)
    BY <1>1, SigsAre, Zenon
  <1>3. ASSUME NEW k \in 0..(n - 1) PROVE p[k + 1] \in T
    <2>1. PICK t : t = d.args[k + 1]
      OBVIOUS
    <2>2. IsType(t) /\ p[k + 1] = TypeSig(t) /\ (t.word = "class" => Joined(t.path, <<"/">>) \in T)
      BY <1>1, <1>2, <2>1, SigsAre, Zenon
    <2>3. TypeSig(t) \in T
      BY <2>2, TypeSigHolds
    <2> QED
      BY <2>2, <2>3, Zenon
  <1>4. IsKind(T)
    BY DEF Holds
  <1>5. FlattenSeq(p) \in T
    <2>1. p \in Seq(Text) /\ n = Len(p)
      BY <1>2, Zenon
    <2> QED
      BY <1>3, <1>4, <2>1, KindFlatten
  <1> QED
    BY <1>2, <1>5, Zenon

-----------------------------------------------------------------------------
(* The mangled name and the mangled types of a declaration.                *)

LEMMA FlattenSome ==
    ASSUME NEW p \in Seq(Text), NEW n \in Nat \ {0}, n = Len(p), p[0 + 1] # <<>>
    PROVE  FlattenSeq(p) # <<>>
  <1>1. /\ FlattenSeq(p) \in Text
        /\ \A i \in 0..n : Len(Heads(p)[i]) \in 0..Len(FlattenSeq(p))
        /\ Len(Heads(p)[0]) = 0
        /\ \A k \in 0..(n - 1) : Len(Heads(p)[k + 1]) = Len(Heads(p)[k]) + Len(p[k + 1])
    BY FlattenAt
  <1>2. 0 \in 0..(n - 1) /\ 1 \in 0..n /\ 1 \in 1..n
    OBVIOUS
  <1>3. p[0 + 1] \in Text
    BY <1>2, InSeq
  <1>4. Len(p[0 + 1]) \in Nat \ {0}
    BY <1>3, TextIs
  <1>5. Len(Heads(p)[0 + 1]) = Len(Heads(p)[0]) + Len(p[0 + 1])
    BY <1>1, <1>2
  <1>6. Len(Heads(p)[1]) \in 0..Len(FlattenSeq(p)) /\ Len(FlattenSeq(p)) \in Nat
    BY <1>1, <1>2, TextIs
  <1>7. Len(FlattenSeq(p)) # 0
    BY <1>1, <1>4, <1>5, <1>6
  <1> QED
    BY <1>7, Empty

LEMMA PathSome ==
    ASSUME NEW p, NEW n, IsPath(p, n), NEW w \in Text
    PROVE  Joined(p, w) \in Text /\ Joined(p, w) # <<>>
  <1>1. /\ p \in Seq(Text) /\ n \in Nat \ {0} /\ n = Len(p) /\ n \in Nat
        /\ \A k \in 0..(n - 1) : IdentFacts(p[k + 1])
    BY DEF IsPath
  <1>2. PICK q : /\ Joined(p, w) = FlattenSeq(q) /\ q \in Seq(Text) /\ n = Len(q)
                 /\ \A k \in 0..(n - 1) : q[k + 1] = IF k = 0 THEN p[k + 1] ELSE w \o p[k + 1]
    BY <1>1, JoinedIs
  <1>3. q \in Seq(Text) /\ n = Len(q) /\ Joined(p, w) = FlattenSeq(q)
    BY <1>2, Zenon
  <1>4. q[0 + 1] = p[0 + 1] /\ IdentFacts(p[0 + 1])
    <2>1. 0 \in 0..(n - 1)
      BY <1>1
    <2> QED
      BY <1>1, <1>2, <2>1
  <1>5. q[0 + 1] # <<>>
    BY <1>4, Zenon DEF IdentFacts
  <1>6. FlattenSeq(q) # <<>> /\ FlattenSeq(q) \in Text
    BY <1>1, <1>3, <1>5, FlattenSome, FlattenAt
  <1> QED
    BY <1>3, <1>6, Zenon

LEMMA BeginPath ==
    ASSUME NEW p, NEW n, IsPath(p, n), NEW w, IsOne(w, "/")
    PROVE  Joined(p, w) \in Slashed(Begin)
  <1>1. \A k \in 0..(n - 1) : IdentFacts(p[k + 1])
    BY Zenon DEF IsPath
  <1>2. ASSUME NEW k \in 0..(n - 1) PROVE p[k + 1][1] \in Begin
    BY <1>1, IdentBegin
  <1> QED
    BY <1>2, PathSlashed

FullPath(d) == Joined(MethodPath(d), <<"/">>)

LEMMA NameIs ==
    ASSUME NEW d \in Decl
    PROVE  /\ \E n : IsPath(MethodPath(d), n)
           /\ FullPath(d) \in Text /\ FullPath(d) # <<>> /\ FullPath(d) \in Slashed(Begin)
           /\ FullPath(d) \in Without(Mark \ {"/"})
  <1>1. PICK n : IsPath(d.class, n)
    BY DeclIs
  <1>2. IsPath(MethodPath(d), n + 1)
    BY <1>1, DeclIs, PathAppend DEF MethodPath
  <1>3. PICK w : w = <<"/">> /\ IsOne(w, "/") /\ w \in Text
    BY Points, Char DEF IsOne
  <1>4. PICK p : p = MethodPath(d)
    OBVIOUS
  <1>5. Joined(p, w) \in Text /\ Joined(p, w) # <<>> /\ Joined(p, w) \in Slashed(Begin)
    BY <1>2, <1>3, <1>4, PathSome, BeginPath
  <1>6. Joined(p, <<"/">>) \in Without(Mark \ {"/"})
    <2>1. Mark \ {"/"} \subseteq Mark /\ "/" \notin Mark \ {"/"}
      BY Zenon
    <2> QED
      BY <1>2, <1>4, <2>1, Points, PathWithout
  <1> QED
    BY <1>2, <1>3, <1>4, <1>5, <1>6, Zenon DEF FullPath

LEMMA ClassPath ==
    ASSUME NEW t, IsType(t), t.word = "class"
    PROVE  \E n : IsPath(t.path, n)
  BY ClassSig

LEMMA TypeSigSome ==
    ASSUME NEW t, IsType(t)
    PROVE  TypeSig(t) # <<>>
  <1>1. PICK D, x : IsCat(TypeSig(t), D, x) /\ D \in Text /\ x \in Text /\ Len(x) \in Nat \ {0}
    <2>1. t.dim \in Nat
      BY Zenon DEF IsType
    <2>2. Dims(t.dim) \in Text
      BY <2>1, DimsAre
    <2>3. CASE t.word = "class"
      <3>1. PICK a, J, y : a = <<"L">> \o Joined(t.path, <<"/">>) /\ y = <<";">> /\ J = Joined(t.path, <<"/">>)
        OBVIOUS
      <3>2. TypeSig(t) = Dims(t.dim) \o (a \o y)
        BY <2>3, <3>1, ClassSig, Zenon
      <3>3. PICK n : IsPath(t.path, n)
        BY <2>3, ClassPath
      <3>4. "/" \in Letter /\ <<"/">> \in Text
        BY Points, Char
      <3>5. J \in Text
        BY <3>1, <3>3, <3>4, PathSome
      <3>6. <<"L">> \in Text /\ y \in Text /\ Len(y) = 1
        BY <3>1, Letters2, Char
      <3>7. a \in Text
        BY <3>1, <3>5, <3>6, Cat, Zenon
      <3>8. a \o y \in Text /\ Len(a \o y) = Len(a) + Len(y)
        BY <3>6, <3>7, Cat
      <3>9. Len(a) \in Nat
        BY <3>7, TextIs
      <3>10. Len(a \o y) \in Nat \ {0}
        BY <3>6, <3>8, <3>9
      <3> QED
        BY <2>2, <3>2, <3>8, <3>10, Zenon DEF IsCat
    <2>4. CASE t.word # "class"
      <3>1. TypeSig(t) = Dims(t.dim) \o <<BaseSig(t.word)>>
        BY <2>4, BasicSig, Zenon
      <3>2. BaseSig(t.word) \in Letter
        <4>1. t.word \in Keyword
          BY <2>4, Zenon DEF IsType
        <4> QED
          BY <4>1, BaseSigIs, BaseLetters
      <3>3. <<BaseSig(t.word)>> \in Text /\ Len(<<BaseSig(t.word)>>) = 1
        BY <3>2, Char
      <3>4. 1 \in Nat \ {0}
        OBVIOUS
      <3> QED
        BY <2>2, <3>1, <3>3, <3>4, Zenon DEF IsCat
    <2> QED
      BY <2>3, <2>4, Zenon
  <1>2. HasLen(D, Len(D)) /\ HasLen(x, Len(x)) /\ Len(D) \in Nat
    BY <1>1, HasLenIs, TextIs
  <1>3. HasLen(TypeSig(t), Len(D) + Len(x))
    BY <1>1, <1>2, CatHas
  <1>4. Len(TypeSig(t)) # 0
    BY <1>1, <1>2, <1>3 DEF HasLen
  <1> QED
    BY <1>4, Empty

LEMMA ArgsBegin ==
    ASSUME NEW d \in Decl
    PROVE  /\ ArgSigs(d) \in Slashed(Begin) /\ ArgSigs(d) \in Text
           /\ ArgSigs(d) = <<>> => d.args = <<>>
  <1>1. PICK n \in Nat : n = Len(d.args)
    BY DeclIs
  <1>2. PICK T : T = Slashed(Begin) /\ Holds(T)
    BY SlashedHolds
  <1>3. IsOne(<<"/">>, "/")
    BY Points DEF IsOne
  <1>4. ASSUME NEW k \in 0..(n - 1), d.args[k + 1].word = "class"
        PROVE  Joined(d.args[k + 1].path, <<"/">>) \in T
    <2>1. IsType(d.args[k + 1])
      BY <1>1, SigsAre, Zenon
    <2>2. PICK m : IsPath(d.args[k + 1].path, m)
      BY <1>4, <2>1, ClassPath
    <2>3. Joined(d.args[k + 1].path, <<"/">>) \in Slashed(Begin)
      BY <1>3, <2>2, BeginPath
    <2> QED
      BY <1>2, <2>3, Zenon
  <1>5. ArgSigs(d) \in T
    BY <1>1, <1>2, <1>4, ArgSigsHold
  <1>6. ArgSigs(d) \in Slashed(Begin) /\ ArgSigs(d) \in Text
    BY <1>2, <1>5, SlashedKind, KindText, Zenon
  <1>7. ASSUME ArgSigs(d) = <<>> PROVE d.args = <<>>
    <2>1. PICK p : p = Sigs(d) /\ p \in Seq(Text) /\ n = Len(p) /\ ArgSigs(d) = FlattenSeq(p)
      BY <1>1, SigsAre, Zenon
    <2>2. CASE n # 0
      <3>1. n \in Nat \ {0} /\ 0 \in 0..(n - 1)
        BY <2>2
      <3>2. p[0 + 1] = TypeSig(d.args[0 + 1]) /\ IsType(d.args[0 + 1])
        BY <1>1, <2>1, <3>1, SigsAre, Zenon
      <3>3. p[0 + 1] # <<>>
        BY <3>2, TypeSigSome, Zenon
      <3>4. p \in Seq(Text) /\ n = Len(p)
        BY <2>1, Zenon
      <3>5. FlattenSeq(p) # <<>>
        BY <3>1, <3>3, <3>4, FlattenSome
      <3> QED
        BY <1>7, <2>1, <3>5, Zenon
    <2>3. CASE n = 0
      <3>1. Len(d.args) = 0
        BY <1>1, <2>3
      <3>2. d.args \in Seq([word : Keyword \cup {"class"}, dim : Nat, path : Seq(Seq(STRING))])
        BY DeclAssumption
      <3> QED
        BY <3>1, <3>2
    <2> QED
      BY <2>2, <2>3
  <1> QED
    BY <1>6, <1>7

AreOdd(u, o) == u = "_" /\ o = "$"
IsPlain(p, n, u, o) == \A k \in 0..(n - 1) : p[k + 1][1] \in Letter \ {u} /\ p[k + 1] \in Without({o})

LEMMA PlainPath ==
    ASSUME NEW p, NEW n, IsPath(p, n), ~ Awkward(p), NEW u, NEW o, AreOdd(u, o)
    PROVE  \A k \in 0..(n - 1) : p[k + 1][1] \in Letter \ {u} /\ p[k + 1] \in Without({o})
  <1>1. /\ p \in Seq(Text) /\ n \in Nat \ {0} /\ n = Len(p)
        /\ \A k \in 0..(n - 1) : IdentFacts(p[k + 1])
    BY DEF IsPath
  <1>2. DOMAIN p = 1..n
    BY <1>1
  <1>3. ASSUME NEW k \in 0..(n - 1)
        PROVE  p[k + 1][1] \in Letter \ {u} /\ p[k + 1] \in Without({o})
    <2>1. k + 1 \in 1..n
      <3>1. n \in Nat
        BY <1>1
      <3> QED
        BY <3>1
    <2>2. p[k + 1][1] # u /\ o \notin ToSet(p[k + 1])
      BY <1>2, <2>1, Zenon DEF Awkward, AreOdd
    <2>3. IdentFacts(p[k + 1])
      BY <1>1
    <2>4. p[k + 1][1] \in Letter /\ p[k + 1] \in Text
      BY <2>3 DEF IdentFacts
    <2>5. PICK x : x = p[k + 1]
      OBVIOUS
    <2>6. x \in Text /\ DOMAIN x = 1..Len(x)
      BY <2>4, <2>5, TextIs
    <2>7. \A i \in 1..Len(x) : x[i] # o
      BY <2>2, <2>5, <2>6, Zenon DEF ToSet
    <2>8. x \in Without({o})
      BY <2>6, <2>7 DEF Without
    <2> QED
      BY <2>2, <2>4, <2>5, <2>8, Zenon
  <1> QED
    BY <1>3, Zenon

LEMMA PlainJoined ==
    ASSUME NEW p, NEW n, IsPath(p, n), NEW u, NEW o, o # "/", IsPlain(p, n, u, o)
    PROVE  Joined(p, <<"/">>) \in Slashed(Letter \ {u}) /\ Joined(p, <<"/">>) \in Without({o})
  <1>1. PICK w : w = <<"/">> /\ IsOne(w, "/")
    BY Points DEF IsOne
  <1>2. \A k \in 0..(n - 1) : p[k + 1][1] \in Letter \ {u}
    BY Zenon DEF IsPlain
  <1>3. Joined(p, w) \in Slashed(Letter \ {u})
    BY <1>1, <1>2, PathSlashed
  <1>4. "/" \in Letter /\ "/" \notin {o}
    BY Points, Zenon
  <1>5. PICK T : T = Without({o}) /\ IsKind(T)
    BY WithoutKind
  <1>6. <<"/">> \in Without({o})
    BY <1>4, WithoutOne
  <1>7. w \in T /\ p \in Seq(Text) /\ n \in Nat /\ n = Len(p)
    <2>1. n \in Nat
      BY DEF IsPath
    <2> QED
      BY <1>1, <1>5, <1>6, <2>1, Zenon DEF IsPath
  <1>8. \A k \in 0..(n - 1) : p[k + 1] \in T
    BY <1>5, Zenon DEF IsPlain
  <1>9. Joined(p, w) \in T
    BY <1>5, <1>7, <1>8, JoinedKindSep
  <1> QED
    BY <1>1, <1>3, <1>5, <1>9, Zenon

\* Names that are not awkward.
LEMMA PlainName ==
    ASSUME NEW d \in Decl, ~ Awkward(d.class), ~ Awkward(<<d.name>>), NEW u, NEW o, AreOdd(u, o)
    PROVE  FullPath(d) \in Slashed(Letter \ {u}) /\ FullPath(d) \in Without({o})
  <1>1. PICK n : IsPath(d.class, n) /\ IsPath(MethodPath(d), n + 1) /\ n \in Nat
    <2>1. PICK n : IsPath(d.class, n)
      BY DeclIs
    <2>2. IsPath(MethodPath(d), n + 1)
      BY <2>1, DeclIs, PathAppend DEF MethodPath
    <2> QED
      BY <2>1, <2>2 DEF IsPath
  <1>2. PICK p, x, q : p = d.class /\ x = d.name /\ q = MethodPath(d)
    OBVIOUS
  <1>3. p \in Seq(Text) /\ n = Len(p) /\ x \in Text
    <2>1. p \in Seq(Text) /\ n = Len(p)
      BY <1>1, <1>2, Zenon DEF IsPath
    <2>2. x \in Text
      BY <1>2, DeclIs, IdentIs, Zenon DEF IdentFacts
    <2> QED
      BY <2>1, <2>2
  <1>4. q = Append(p, x)
    BY <1>2, Zenon DEF MethodPath
  <1>5. /\ \A k \in 0..(n - 1) : q[k + 1] = p[k + 1]
        /\ q[n + 1] = x
    BY <1>1, <1>3, <1>4
  <1>6. \A k \in 0..(n - 1) : p[k + 1][1] \in Letter \ {u} /\ p[k + 1] \in Without({o})
    BY <1>1, <1>2, PlainPath
  <1>7. x[1] \in Letter \ {u} /\ x \in Without({o})
    <2>1. IdentFacts(x)
      BY <1>2, DeclIs, IdentIs
    <2>2. PICK r : r = <<x>>
      OBVIOUS
    <2>3. r \in Seq(Text) /\ Len(r) = 1 /\ r[0 + 1] = x
      BY <1>3, <2>2
    <2>4. IsPath(r, 1)
      <3>1. \A k \in 0..(1 - 1) : IdentFacts(r[k + 1])
        <4>1. \A k \in 0..(1 - 1) : k = 0
          OBVIOUS
        <4> QED
          BY <2>1, <2>3, <4>1, Zenon
      <3>2. 1 \in Nat \ {0}
        OBVIOUS
      <3> QED
        BY <2>3, <3>1, <3>2, Zenon DEF IsPath
    <2>5. ~ Awkward(r)
      BY <1>2, <2>2, Zenon
    <2>6. \A k \in 0..(1 - 1) : r[k + 1][1] \in Letter \ {u} /\ r[k + 1] \in Without({o})
      BY <2>4, <2>5, PlainPath
    <2>7. 0 \in 0..(1 - 1)
      OBVIOUS
    <2> QED
      BY <2>3, <2>6, <2>7, Zenon
  <1>8. ASSUME NEW k \in 0..((n + 1) - 1)
        PROVE  q[k + 1][1] \in Letter \ {u} /\ q[k + 1] \in Without({o})
    <2>1. CASE k = n
      <3>1. q[k + 1] = x
        BY <1>5, <2>1, Zenon
      <3> QED
        BY <1>7, <3>1, Zenon
    <2>2. CASE k # n
      <3>1. k \in 0..(n - 1)
        BY <1>1, <2>2
      <3> QED
        BY <1>5, <1>6, <3>1, Zenon
    <2> QED
      BY <2>1, <2>2
  <1>9. o # "/"
    BY Zenon DEF AreOdd
  <1>10. Joined(q, <<"/">>) \in Slashed(Letter \ {u}) /\ Joined(q, <<"/">>) \in Without({o})
    <2>1. IsPath(q, n + 1)
      BY <1>1, <1>2, Zenon
    <2>2. IsPlain(q, n + 1, u, o)
      BY <1>8, Zenon DEF IsPlain
    <2> QED
      BY <2>1, <2>2, <1>9, PlainJoined
  <1> QED
    BY <1>2, <1>10, Zenon DEF FullPath

LEMMA PlainArgs ==
    ASSUME NEW d \in Decl, \A i \in DOMAIN d.args : ~ Awkward(d.args[i].path), NEW u, NEW o, AreOdd(u, o)
    PROVE  ArgSigs(d) \in Slashed(Letter \ {u}) /\ ArgSigs(d) \in Without({o})
  <1>1. PICK n \in Nat : n = Len(d.args) /\ DOMAIN d.args = 1..n
    BY DeclIs
  <1>2. ASSUME NEW k \in 0..(n - 1), d.args[k + 1].word = "class"
        PROVE  /\ Joined(d.args[k + 1].path, <<"/">>) \in Slashed(Letter \ {u})
               /\ Joined(d.args[k + 1].path, <<"/">>) \in Without({o})
    <2>1. k + 1 \in 1..n
      OBVIOUS
    <2>2. IsType(d.args[k + 1])
      BY <1>1, SigsAre, Zenon
    <2>3. PICK p, m : p = d.args[k + 1].path /\ IsPath(p, m)
      BY <1>2, <2>2, ClassPath
    <2>4. ~ Awkward(p)
      BY <1>1, <2>1, <2>3, Zenon
    <2>5. \A h \in 0..(m - 1) : p[h + 1][1] \in Letter \ {u} /\ p[h + 1] \in Without({o})
      BY <2>3, <2>4, PlainPath
    <2>6. o # "/"
      BY Zenon DEF AreOdd
    <2>7. Joined(p, <<"/">>) \in Slashed(Letter \ {u}) /\ Joined(p, <<"/">>) \in Without({o})
      <3>1. IsPlain(p, m, u, o)
        BY <2>5, Zenon DEF IsPlain
      <3> QED
        BY <2>3, <2>6, <3>1, PlainJoined
    <2> QED
      BY <2>3, <2>7, Zenon
  <1>3. ArgSigs(d) \in Slashed(Letter \ {u})
    <2>1. PICK T : T = Slashed(Letter \ {u}) /\ Holds(T)
      BY SlashedHolds
    <2>2. \A k \in 0..(n - 1) : d.args[k + 1].word = "class" => Joined(d.args[k + 1].path, <<"/">>) \in T
      BY <1>2, <2>1, Zenon
    <2>3. ArgSigs(d) \in T
      BY <1>1, <2>1, <2>2, ArgSigsHold
    <2> QED
      BY <2>1, <2>3, Zenon
  <1>4. ArgSigs(d) \in Without({o})
    <2>1. PICK T : T = Without({o}) /\ Holds(T)
      BY DollarHolds, Zenon DEF AreOdd
    <2>2. \A k \in 0..(n - 1) : d.args[k + 1].word = "class" => Joined(d.args[k + 1].path, <<"/">>) \in T
      BY <1>2, <2>1, Zenon
    <2>3. ArgSigs(d) \in T
      BY <1>1, <2>1, <2>2, ArgSigsHold
    <2> QED
      BY <2>1, <2>3, Zenon
  <1> QED
    BY <1>3, <1>4

-----------------------------------------------------------------------------
(* One escape of a code is read back.                                      *)

\* The letters of Z are coded by M; one two-letter code of them is to be read back, as g does.
IsFolded(Z, n, M, g, old, new, s, c) ==
    /\ g \in [Letter -> Text] /\ new \in Text
    /\ \A k \in 0..(n - 1) : \/ M[Z[k + 1]] = old /\ g[Z[k + 1]] = new
                             \/ Len(M[Z[k + 1]]) = 1 /\ g[Z[k + 1]] = M[Z[k + 1]]
    /\ \A k \in 0..(n - 1) : Z[k + 1] = s /\ k + 1 < n => M[Z[k + 2]][1] # c

LEMMA CodeReplace ==
    ASSUME NEW M, NEW u, NEW s, IsCode(M, u, s), NEW Z \in Text, NEW n \in Nat, n = Len(Z),
           NEW old, NEW c, IsTwo(old, u, c), NEW g, NEW new, IsFolded(Z, n, M, g, old, new, s, c)
    PROVE  replace_all(Hom(M, Z), old, new) = Hom(g, Z)
  <1>1. M \in [Letter -> Text]
    BY DEF IsCode
  <1>2. PICK b, e, x : /\ b = [i \in DOMAIN Z |-> M[Z[i]]] /\ e = [i \in DOMAIN Z |-> g[Z[i]]]
                       /\ x = Hom(M, Z)
    OBVIOUS
  <1>3. g \in [Letter -> Text] /\ new \in Text
        /\ (\A k \in 0..(n - 1) : \/ M[Z[k + 1]] = old /\ g[Z[k + 1]] = new
                                  \/ Len(M[Z[k + 1]]) = 1 /\ g[Z[k + 1]] = M[Z[k + 1]])
        /\ (\A k \in 0..(n - 1) : Z[k + 1] = s /\ k + 1 < n => M[Z[k + 2]][1] # c)
    BY Zenon DEF IsFolded
  <1>4. b \in Seq(Text) /\ Len(b) = n /\ x = FlattenSeq(b)
    BY <1>1, <1>2, HomPieces, Zenon DEF Hom
  <1>5. e \in Seq(Text) /\ Len(e) = n /\ Hom(g, Z) = FlattenSeq(e)
    BY <1>2, <1>3, HomPieces, Zenon DEF Hom
  <1>6. PICK T : /\ IsCoded(x, Len(x), T, Z, n, M)
                 /\ \A k \in 0..n : T[k] = Len(Heads([i \in DOMAIN Z |-> M[Z[i]]])[k])
    BY <1>1, <1>2, CodedExists
  <1>7. \A k \in 0..n : T[k] = Len(Heads(b)[k])
    BY <1>2, <1>6, Zenon
  <1>8. IsCoded(x, Len(x), T, Z, n, M)
    BY <1>6, Zenon
  <1>9. DOMAIN Z = 1..n
    BY TextIs
  <1>10. ASSUME NEW k \in 0..(n - 1)
         PROVE  \/ b[k + 1] = old /\ e[k + 1] = new
                \/ /\ Len(b[k + 1]) = 1 /\ e[k + 1] = b[k + 1]
                   /\ ~ Hit(x, old, Len(Heads(b)[k]) + 1)
    <2>1. k + 1 \in 1..n /\ k \in 0..n /\ k + 1 \in 0..n /\ k < k + 1
      OBVIOUS
    <2>2. b[k + 1] = M[Z[k + 1]] /\ e[k + 1] = g[Z[k + 1]]
      BY <1>2, <1>9, <2>1, Zenon
    <2>3. CASE M[Z[k + 1]] = old /\ g[Z[k + 1]] = new
      BY <2>2, <2>3, Zenon
    <2>4. CASE Len(M[Z[k + 1]]) = 1 /\ g[Z[k + 1]] = M[Z[k + 1]]
      <3>1. ASSUME Hit(x, old, T[k] + 1) PROVE FALSE
        <4>1. /\ Len(x) \in Nat /\ T[k] \in 0..Len(x) /\ T[k + 1] \in 0..Len(x)
          BY <1>8, <2>1, Zenon DEF IsCoded
        <4>2. T[k] < T[k + 1]
          BY <1>8, <2>1, CodeGrows
        <4>3. PICK h \in 1..Len(x) : h = T[k] + 1
          BY <4>1, <4>2
        <4>4. Hit(x, old, h)
          BY <3>1, <4>3
        <4>5. PICK i \in 0..(n - 1) :
                 /\ h = T[i] + 1
                 /\ \/ Len(M[Z[i + 1]]) = 2 /\ M[Z[i + 1]][2] = c
                    \/ Z[i + 1] = s /\ i + 1 < n /\ M[Z[i + 2]][1] = c
          BY <1>8, <4>4, CodeHit, SMTT(60)
        <4>6. i \in 0..n
          OBVIOUS
        <4>7. T[i] \in 0..Len(x)
          BY <1>8, <4>6, Zenon DEF IsCoded
        <4>8. T[i] = T[k]
          BY <4>1, <4>3, <4>5, <4>7
        <4>9. i = k
          <5>1. CASE i < k
            <6>1. T[i] < T[k]
              BY <1>8, <2>1, <4>6, <5>1, CodeGrows
            <6> QED
              BY <4>1, <4>7, <4>8, <6>1
          <5>2. CASE k < i
            <6>1. T[k] < T[i]
              BY <1>8, <2>1, <4>6, <5>2, CodeGrows
            <6> QED
              BY <4>1, <4>7, <4>8, <6>1
          <5> QED
            BY <5>1, <5>2
        <4>10. Len(M[Z[k + 1]]) # 2
          BY <2>4
        <4> QED
          BY <1>3, <4>5, <4>9, <4>10, Zenon
      <3>2. T[k] = Len(Heads(b)[k])
        BY <1>7, <2>1, Zenon
      <3> QED
        BY <2>2, <2>4, <3>1, <3>2, Zenon
    <2> QED
      BY <1>3, <2>3, <2>4, Zenon
  <1>11. old \in Text /\ Len(old) # 0
    BY DEF IsTwo
  <1>12. IsBlocks(b, e, n, x, old, new)
    BY <1>3, <1>4, <1>5, <1>10, <1>11, Zenon DEF IsBlocks
  <1>13. replace_all(x, old, new) = FlattenSeq(e)
    BY <1>12, ReplaceBlocks
  <1> QED
    BY <1>2, <1>5, <1>13, Zenon

\* A code with one escaped letter x, beside u itself: x is written <<u, c>>, and s is written u.
Fold(u, s, x, c) ==
    [a \in Letter |-> IF a = u \/ a = x THEN <<u, c>> ELSE IF a = s THEN <<u>> ELSE <<a>>]
FoldSigns(u, s, x, c) ==
    u \in Letter /\ s \in Letter /\ x \in Letter /\ c \in Letter /\ u # s /\ u # x /\ u # c /\ s # x /\ c # s

LEMMA FoldIs ==
    ASSUME NEW u, NEW s, NEW x, NEW c, FoldSigns(u, s, x, c), NEW M, M = Fold(u, s, x, c)
    PROVE  /\ IsCode(M, u, s) /\ M \in [Letter -> Text]
           /\ IsTwo(M[x], u, c) /\ M[x] = <<u, c>> /\ M[u] = <<u, c>> /\ M[s] = <<u>>
           /\ \A a \in Letter : a \notin {u, x, s} => M[a] = <<a>>
  <1>1. u \in Letter /\ s \in Letter /\ x \in Letter /\ c \in Letter /\ u # s /\ u # x /\ u # c /\ s # x /\ c # s
    BY DEF FoldSigns
  <1>2. M[x] = <<u, c>> /\ M[u] = <<u, c>> /\ M[s] = <<u>>
        /\ \A a \in Letter : a \notin {u, x, s} => M[a] = <<a>>
    BY <1>1 DEF Fold
  <1>3. IsTwo(<<u, c>>, u, c)
    BY <1>1, TwoIs
  <1>4. <<u>> \in Text /\ Len(<<u>>) = 1 /\ <<u>>[1] = u
    BY <1>1, Char
  <1>5. IsTwo(M[x], u, c) /\ IsTwo(M[u], u, c) /\ M[s] \in Text /\ Len(M[s]) = 1 /\ M[s][1] = u
    BY <1>2, <1>3, <1>4, Zenon
  <1>6. \A a \in Letter : a \notin {u, x, s} => M[a] \in Text /\ Len(M[a]) = 1 /\ M[a][1] = a
    BY <1>2, Char, Zenon
  <1>7. M[x] \in Text /\ Len(M[x]) = 2 /\ M[x][1] = u /\ M[x][2] = c
        /\ M[u] \in Text /\ Len(M[u]) = 2 /\ M[u][1] = u /\ M[u][2] = c
    BY <1>5, Zenon DEF IsTwo
  <1>8. \A a \in Letter : M[a] \in Text
    BY <1>5, <1>6, <1>7, Zenon
  <1>9. M = [a \in Letter |-> M[a]]
    BY DEF Fold
  <1>10. M \in [Letter -> Text]
    BY <1>8, <1>9
  <1>11. ASSUME NEW a \in Letter
         PROVE  \/ Len(M[a]) = 1 /\ (a # s => M[a][1] = a /\ a # u)
                \/ Len(M[a]) = 2 /\ a # s /\ M[a][1] = u /\ M[a][2] # u
    BY <1>1, <1>5, <1>6, <1>7
  <1>12. IsCode(M, u, s)
    BY <1>1, <1>5, <1>10, <1>11, Zenon DEF IsCode
  <1> QED
    BY <1>2, <1>5, <1>10, <1>12, Zenon

\* What follows the letter s.
Follows(Z, n, s, c) == \A k \in 0..(n - 1) : Z[k + 1] = s => k + 1 < n /\ Z[k + 2] # c

LEMMA Unescape ==
    ASSUME NEW u, NEW s, NEW x, NEW c, FoldSigns(u, s, x, c), NEW Z \in Without({u}),
           NEW n \in Nat, n = Len(Z), Follows(Z, n, s, c),
           NEW old, old = <<u, c>>, NEW new, new = <<x>>, NEW g, IsSubst(g, s, <<u>>)
    PROVE  replace_all(Hom(Fold(u, s, x, c), Z), old, new) = Hom(g, Z)
  <1>1. PICK M : M = Fold(u, s, x, c)
    OBVIOUS
  <1>2. u \in Letter /\ s \in Letter /\ x \in Letter /\ c \in Letter /\ u # s /\ u # x /\ u # c /\ s # x /\ c # s
    BY DEF FoldSigns
  <1>3. /\ IsCode(M, u, s) /\ M \in [Letter -> Text]
        /\ M[x] = <<u, c>> /\ M[u] = <<u, c>> /\ M[s] = <<u>>
        /\ \A a \in Letter : a \notin {u, x, s} => M[a] = <<a>>
    BY <1>1, FoldIs
  <1>4. Z \in Text /\ \A k \in 0..(n - 1) : Z[k + 1] # u /\ Z[k + 1] \in Letter
    <2>1. Z \in Text /\ \A i \in 1..n : Z[i] \notin {u} /\ Z[i] \in Letter
      BY WithoutIs, TextIs
    <2>2. \A k \in 0..(n - 1) : k + 1 \in 1..n
      OBVIOUS
    <2> QED
      BY <2>1, <2>2
  <1>5. IsTwo(old, u, c)
    BY <1>2, TwoIs
  <1>6. g \in [Letter -> Text] /\ g[s] = <<u>> /\ \A a \in Letter : a # s => g[a] = <<a>>
    BY DEF IsSubst
  <1>7. new \in Text
    BY <1>2, Char
  <1>8. ASSUME NEW k \in 0..(n - 1)
        PROVE  \/ M[Z[k + 1]] = old /\ g[Z[k + 1]] = new
               \/ Len(M[Z[k + 1]]) = 1 /\ g[Z[k + 1]] = M[Z[k + 1]]
    <2>1. PICK a \in Letter : a = Z[k + 1] /\ a # u
      BY <1>4
    <2>2. CASE a = x
      <3>1. M[a] = old /\ g[a] = new
        BY <1>2, <1>3, <1>6, <2>2, Zenon
      <3> QED
        BY <2>1, <3>1, Zenon
    <2>3. CASE a = s
      <3>1. M[a] = <<u>> /\ g[a] = <<u>>
        BY <1>3, <1>6, <2>3, Zenon
      <3>2. Len(<<u>>) = 1
        BY <1>2, Char
      <3> QED
        BY <2>1, <3>1, <3>2, Zenon
    <2>4. CASE a # x /\ a # s
      <3>1. M[a] = <<a>> /\ g[a] = <<a>>
        BY <1>3, <1>6, <2>1, <2>4, Zenon
      <3>2. Len(<<a>>) = 1
        BY Char
      <3> QED
        BY <2>1, <3>1, <3>2, Zenon
    <2> QED
      BY <2>2, <2>3, <2>4, Zenon
  <1>9. ASSUME NEW k \in 0..(n - 1), Z[k + 1] = s, k + 1 < n PROVE M[Z[k + 2]][1] # c
    <2>1. Z[k + 2] # c
      BY <1>9, Zenon DEF Follows
    <2>2. PICK h \in 0..(n - 1) : h = k + 1 /\ h + 1 = k + 2
      BY <1>9
    <2>3. PICK a \in Letter : a = Z[k + 2] /\ a # u /\ a # c
      BY <1>4, <2>1, <2>2
    <2>4. IsTwo(<<u, c>>, u, c) /\ <<u>>[1] = u /\ <<a>>[1] = a
      BY <1>2, TwoIs, Char
    <2>5. M[a][1] = u \/ M[a][1] = a
      BY <1>3, <2>3, <2>4, Zenon DEF IsTwo
    <2> QED
      BY <1>2, <2>3, <2>5
  <1>10. IsFolded(Z, n, M, g, old, new, s, c)
    BY <1>6, <1>7, <1>8, <1>9, Zenon DEF IsFolded
  <1>11. replace_all(Hom(M, Z), old, new) = Hom(g, Z)
    BY <1>3, <1>4, <1>5, <1>10, CodeReplace
  <1> QED
    BY <1>1, <1>11, Zenon

-----------------------------------------------------------------------------
(* The separators of a mangled name.                                       *)

\* The code M of a name, its separators replaced: the code of Fold.
IsSpelling(M, N, u, p, s, z) ==
    /\ M \in [Letter -> Text] /\ FoldSigns(p, s, u, z) /\ u # z
    /\ M[u] = <<u, z>> /\ M[s] = <<u>> /\ N \in Without({p})
    /\ \A k \in 0..(Len(N) - 1) : N[k + 1] \notin {u, s} => M[N[k + 1]] = <<N[k + 1]>>

LEMMA Respell ==
    ASSUME NEW M, NEW N, NEW u, NEW p, NEW s, NEW z, IsSpelling(M, N, u, p, s, z),
           NEW h, IsSubst(h, u, <<p>>)
    PROVE  Hom(h, Hom(M, N)) = Hom(Fold(p, s, u, z), N)
  <1>0. /\ M \in [Letter -> Text] /\ FoldSigns(p, s, u, z) /\ u # z
        /\ M[u] = <<u, z>> /\ M[s] = <<u>> /\ N \in Without({p})
        /\ \A k \in 0..(Len(N) - 1) : N[k + 1] \notin {u, s} => M[N[k + 1]] = <<N[k + 1]>>
    BY Zenon DEF IsSpelling
  <1>1. PICK f : f = Fold(p, s, u, z)
    OBVIOUS
  <1>2. p \in Letter /\ s \in Letter /\ u \in Letter /\ z \in Letter /\ p # s /\ p # u /\ p # z /\ s # u /\ u # z
    BY <1>0 DEF FoldSigns
  <1>3. /\ f \in [Letter -> Text] /\ f[u] = <<p, z>> /\ f[s] = <<p>>
        /\ \A a \in Letter : a \notin {p, u, s} => f[a] = <<a>>
    BY <1>0, <1>1, FoldIs
  <1>4. h \in [Letter -> Text] /\ h[u] = <<p>> /\ \A a \in Letter : a # u => h[a] = <<a>>
    BY DEF IsSubst
  <1>5. Hom(h, <<u, z>>) = <<p, z>>
    <2>1. <<u, z>> = <<u>> \o <<z>> /\ <<p, z>> = <<p>> \o <<z>>
      BY <1>2, TwoChars
    <2>2. <<u>> \in Text /\ <<z>> \in Text
      BY <1>2, Char
    <2>3. Hom(h, <<u>> \o <<z>>) = Hom(h, <<u>>) \o Hom(h, <<z>>)
      BY <1>4, <2>2, HomConcat
    <2>4. Hom(h, <<u>>) = <<p>> /\ Hom(h, <<z>>) = <<z>>
      BY <1>2, <1>4, HomOne
    <2> QED
      BY <2>1, <2>3, <2>4, Zenon
  <1>6. N \in Text /\ \A i \in 1..Len(N) : N[i] \in Letter /\ N[i] # p
    BY <1>0, WithoutIs, TextIs
  <1>7. ASSUME NEW i \in 1..Len(N) PROVE f[N[i]] = Hom(h, M[N[i]])
    <2>1. PICK a \in Letter : a = N[i] /\ a # p
      BY <1>6
    <2>2. a \notin {u, s} => M[a] = <<a>>
      <3>1. Len(N) \in Nat
        BY <1>6, TextIs
      <3>2. PICK k \in 0..(Len(N) - 1) : k + 1 = i
        <4>1. i - 1 \in 0..(Len(N) - 1) /\ (i - 1) + 1 = i
          BY <3>1
        <4> QED
          BY <4>1
      <3> QED
        BY <1>0, <2>1, <3>2, Zenon
    <2>3. CASE a = u
      BY <1>0, <1>3, <1>5, <2>1, <2>3, Zenon
    <2>4. CASE a = s
      <3>1. Hom(h, <<u>>) = <<p>>
        BY <1>2, <1>4, HomOne
      <3> QED
        BY <1>0, <1>3, <2>1, <2>4, <3>1, Zenon
    <2>5. CASE a # u /\ a # s
      <3>1. f[a] = <<a>> /\ M[a] = <<a>>
        <4>1. a \notin {p, u, s} /\ a \notin {u, s}
          BY <2>1, <2>5, Zenon
        <4> QED
          BY <1>3, <2>2, <4>1, Zenon
      <3>2. Hom(h, <<a>>) = h[a]
        BY <1>4, HomOne
      <3>3. h[a] = <<a>>
        BY <1>4, <2>5, Zenon
      <3> QED
        BY <2>1, <3>1, <3>2, <3>3, Zenon
    <2> QED
      BY <2>3, <2>4, <2>5, Zenon
  <1>8. Hom(h, Hom(M, N)) = Hom(f, N)
    <2>1. f \in [Letter -> Text] /\ h \in [Letter -> Text] /\ N \in Text
      BY <1>0, <1>3, <1>4, <1>6, Zenon
    <2>2. \A i \in 1..Len(N) : f[N[i]] = Hom(h, M[N[i]])
      BY <1>7, Zenon
    <2> QED
      BY <1>0, <2>1, <2>2, HomHom
  <1> QED
    BY <1>1, <1>8, Zenon

\* What follows a slash in a name: no digit.
LEMMA SlashedFollows ==
    ASSUME NEW A, NEW s \in Slashed(A), NEW v, v = "/", NEW c, c \notin A
    PROVE  Follows(s, Len(s), v, c) /\ s \in Text
  <1>1. /\ s \in Text
        /\ \A i \in 1..Len(s) : s[i] = v => i < Len(s) /\ s[i + 1] \in A
    BY DEF Slashed
  <1>2. Len(s) \in Nat
    BY <1>1, TextIs
  <1>3. ASSUME NEW k \in 0..(Len(s) - 1), s[k + 1] = v
        PROVE  k + 1 < Len(s) /\ s[k + 2] # c
    <2>1. PICK i \in 1..Len(s) : i = k + 1 /\ i + 1 = k + 2
      BY <1>2
    <2>2. i < Len(s) /\ s[i + 1] \in A
      BY <1>1, <1>3, <2>1, Zenon
    <2> QED
      BY <2>1, <2>2, Zenon
  <1> QED
    BY <1>1, <1>3, Zenon DEF Follows

\* The letters of a symbol and of the name it is made of.
AreNames(u, p, s, z) == u = "_" /\ p = "." /\ s = "/" /\ z = "1"

LEMMA NamesApart ==
    ASSUME NEW u, NEW p, NEW s, NEW z, AreNames(u, p, s, z)
    PROVE  /\ FoldSigns(p, s, u, z) /\ u # z
           /\ s = "/" /\ s \in Mark /\ p \in Mark /\ p \in Mark \ {s} /\ z \notin Begin
           /\ ";" \in Mark \ {"/"} /\ "[" \in Mark \ {"/"}
  <1>1. u \in Letter /\ p \in Letter /\ s \in Letter /\ z \in Letter
    BY Literals, Zenon DEF AreNames, Literal
  <1>2. /\ "_" # "." /\ "_" # "/" /\ "_" # "1" /\ "." # "/" /\ "." # "1" /\ "/" # "1"
        /\ ";" # "/" /\ "[" # "/"
    BY Zenon
  <1>3. p # s /\ p # u /\ p # z /\ s # u /\ z # s /\ u # z
    BY <1>2, Zenon DEF AreNames
  <1>4. /\ s = "/" /\ s \in Mark /\ p \in Mark /\ z \in Digit
        /\ ";" \in Mark /\ "[" \in Mark
    BY Zenon DEF AreNames, Mark, Separator, Digit
  <1> QED
    BY <1>1, <1>2, <1>3, <1>4, Zenon DEF FoldSigns, Begin

-----------------------------------------------------------------------------
(* The name in a symbol is read back.                                      *)

\* A name in which the parser refuses nothing.
Spelt(N) == N \in Text /\ N \in Slashed(Begin) /\ N \in Without(Mark \ {"/"}) /\ N \in Without({"$"})

\* The mangled name of a method without "$" is read back.
LEMMA NameUnmangled ==
    ASSUME NEW u, NEW p, NEW s, NEW z, AreNames(u, p, s, z),
           NEW N, Spelt(N),
           NEW g, IsSubst(g, s, <<p>>)
    PROVE  replace_all(replace_all(Hom(Mangling, N), <<u>>, <<p>>), <<p, z>>, <<u>>) = Hom(g, N)
  <1>0. N \in Text /\ N \in Slashed(Begin) /\ N \in Without(Mark \ {"/"}) /\ N \in Without({"$"})
    BY Zenon DEF Spelt
  <1>1. PICK M : M = Mangling
    OBVIOUS
  <1>2. FoldSigns(p, s, u, z) /\ u # z /\ p \in Mark \ {s} /\ s = "/" /\ z \notin Begin
    BY NamesApart, Zenon
  <1>3. PICK e, b, o, z0, z2, z3 : AreSigns(u, e, b, o, s, z0, z, z2, z3)
    <2>1. AreSigns(u, ";", "[", "$", s, "0", z, "2", "3")
      BY Zenon DEF AreSigns, AreNames
    <2> QED
      BY <2>1, Zenon
  <1>4. IsMangling(M, u, e, b, o, s, z0, z, z2, z3)
    BY <1>1, <1>3, ManglingIs, Zenon
  <1>5. /\ M \in [Letter -> Text] /\ M[u] = <<u, z>> /\ M[s] = <<u>>
        /\ \A c \in Letter : c \notin {u, e, b, o, s} => M[c] = <<c>>
    BY <1>4, Zenon DEF IsMangling
  <1>6. ASSUME NEW k \in 0..(Len(N) - 1), N[k + 1] \notin {u, s} PROVE M[N[k + 1]] = <<N[k + 1]>>
    <2>1. N[k + 1] \notin Mark \ {"/"} /\ N[k + 1] \notin {"$"}
      BY <1>0, WithoutIs
    <2>2. N[k + 1] \in Letter
      <3>1. k + 1 \in 1..Len(N)
        BY <1>0, TextIs
      <3> QED
        BY <1>0, <3>1, TextIs
    <2>3. e = ";" /\ b = "[" /\ o = "$"
      BY <1>3, Zenon DEF AreSigns
    <2>4. e \in Mark \ {"/"} /\ b \in Mark \ {"/"}
      BY <2>3, NamesApart, Zenon
    <2>5. N[k + 1] \notin {u, e, b, o, s}
      BY <1>6, <2>1, <2>3, <2>4, Zenon
    <2> QED
      BY <1>5, <2>2, <2>5, Zenon
  <1>7. N \in Without({p})
    <2>1. {p} \subseteq Mark \ {"/"}
      BY <1>2, Zenon
    <2> QED
      BY <1>0, <2>1, WithoutLess
  <1>8. u \in Letter /\ p \in Letter /\ z \in Letter
    BY <1>2 DEF FoldSigns
  <1>9. PICK h : IsSubst(h, u, <<p>>)
    <2>1. <<p>> \in Text
      BY <1>8, Char
    <2> QED
      BY <1>8, <2>1, SubstIs
  <1>10. PICK v, w : v = <<u>> /\ w = <<p>>
    OBVIOUS
  <1>11. IsOne(v, u) /\ w \in Text /\ IsSubst(h, u, w)
    <2>1. <<p>> \in Text
      BY <1>8, Char
    <2> QED
      BY <1>8, <1>9, <1>10, <2>1, Zenon DEF IsOne
  <1>12. Hom(M, N) \in Text
    BY <1>0, <1>5, HomPieces
  <1>13. replace_all(Hom(M, N), v, w) = Hom(h, Hom(M, N))
    BY <1>8, <1>11, <1>12, ReplaceIsHom
  <1>14. Hom(h, Hom(M, N)) = Hom(Fold(p, s, u, z), N)
    <2>1. IsSpelling(M, N, u, p, s, z)
      BY <1>2, <1>5, <1>6, <1>7, Zenon DEF IsSpelling
    <2> QED
      BY <1>9, <2>1, Respell
  <1>15. Follows(N, Len(N), s, z)
    BY <1>0, <1>2, SlashedFollows, Zenon
  <1>16. PICK old, new : old = <<p, z>> /\ new = <<u>>
    OBVIOUS
  <1>17. PICK n \in Nat : n = Len(N)
    BY <1>0, TextIs
  <1>18. replace_all(Hom(Fold(p, s, u, z), N), old, new) = Hom(g, N)
    <2>1. FoldSigns(p, s, u, z)
      BY <1>2, Zenon
    <2>2. Follows(N, n, s, z)
      BY <1>15, <1>17, Zenon
    <2> QED
      BY <1>7, <1>16, <1>17, <2>1, <2>2, Unescape
  <1> QED
    BY <1>1, <1>10, <1>13, <1>14, <1>16, <1>18, Zenon

LEMMA NameRead ==
    ASSUME NEW d \in Decl, FullPath(d) \in Without({"$"})
    PROVE  replace_all(replace_all(Hom(Mangling, FullPath(d)), <<"_">>, <<".">>), <<".", "1">>, <<"_">>)
               = Joined(MethodPath(d), <<".">>)
  <1>1. PICK u, p, s, z : AreNames(u, p, s, z)
    <2>1. AreNames("_", ".", "/", "1")
      BY Zenon DEF AreNames
    <2> QED
      BY <2>1, Zenon
  <1>2. FoldSigns(p, s, u, z) /\ s \in Mark
    BY <1>1, NamesApart, Zenon
  <1>3. u \in Letter /\ p \in Letter /\ s \in Letter
    BY <1>2 DEF FoldSigns
  <1>4. PICK v, w : v = <<s>> /\ w = <<p>>
    OBVIOUS
  <1>5. IsOne(v, s) /\ IsOne(w, p) /\ w \in Text
    <2>1. <<p>> \in Text
      BY <1>3, Char
    <2> QED
      BY <1>3, <1>4, <2>1, Zenon DEF IsOne
  <1>6. PICK g : IsSubst(g, s, w)
    BY <1>3, <1>5, SubstIs
  <1>7. PICK N : N = FullPath(d)
    OBVIOUS
  <1>8. N \in Text /\ N \in Slashed(Begin) /\ N \in Without(Mark \ {"/"}) /\ N \in Without({"$"})
    BY <1>7, NameIs, Zenon
  <1>9. PICK n : IsPath(MethodPath(d), n)
    BY NameIs
  <1>10. v = <<"/">> /\ w = <<".">>
    BY <1>1, <1>4, Zenon DEF AreNames
  <1>11. N = Joined(MethodPath(d), v)
    BY <1>7, <1>10, Zenon DEF FullPath
  <1>12. replace_all(N, v, w) = Joined(MethodPath(d), w)
    BY <1>2, <1>3, <1>5, <1>9, <1>11, PathReplaced
  <1>13. replace_all(N, v, w) = Hom(g, N)
    BY <1>3, <1>5, <1>6, <1>8, ReplaceIsHom
  <1>14. IsSubst(g, s, <<p>>)
    BY <1>4, <1>6, Zenon
  <1>15. replace_all(replace_all(Hom(Mangling, N), <<u>>, <<p>>), <<p, z>>, <<u>>) = Hom(g, N)
    <2>1. Spelt(N)
      BY <1>8, Zenon DEF Spelt
    <2> QED
      BY <1>1, <1>14, <2>1, NameUnmangled
  <1>16. /\ <<u>> = <<"_">> /\ <<p>> = <<".">> /\ <<p, z>> = <<".", "1">>
    BY <1>1, Zenon DEF AreNames
  <1>17. Hom(g, N) = Joined(MethodPath(d), <<".">>)
    BY <1>10, <1>12, <1>13, Zenon
  <1> QED
    BY <1>7, <1>15, <1>16, <1>17, Zenon

-----------------------------------------------------------------------------
(* What follows a slash in a code.                                         *)

\* A code all of whose words are of a kind.
LEMMA HomKind ==
    ASSUME NEW T, IsKind(T), NEW h \in [Letter -> Text], NEW s \in Text,
           \A k \in 0..(Len(s) - 1) : h[s[k + 1]] \in T
    PROVE  Hom(h, s) \in T
  <1>1. PICK p : p = [i \in DOMAIN s |-> h[s[i]]]
    OBVIOUS
  <1>2. PICK n \in Nat : n = Len(s)
    BY TextIs
  <1>3. p \in Seq(Text) /\ Len(p) = n /\ Hom(h, s) = FlattenSeq(p)
    BY <1>1, <1>2, HomPieces, Zenon DEF Hom
  <1>4. \A k \in 0..(n - 1) : p[k + 1] \in T
    <2>1. ASSUME NEW k \in 0..(n - 1) PROVE p[k + 1] \in T
      <3>1. k + 1 \in DOMAIN s
        BY <1>2, TextIs
      <3>2. p[k + 1] = h[s[k + 1]]
        BY <1>1, <3>1, Zenon
      <3> QED
        BY <1>2, <3>2, Zenon
    <2> QED
      BY <2>1
  <1>5. FlattenSeq(p) \in T
    BY <1>2, <1>3, <1>4, KindFlatten
  <1> QED
    BY <1>3, <1>5, Zenon

\* A code in which a slash is always followed by a letter of B, when in the name
\* it codes a slash is followed by one of A.
Shields(e, s, A, B) ==
    /\ e \in [Letter -> Text] /\ s \in Letter /\ e[s] = <<s>>
    /\ \A c \in A \cap Letter : Len(e[c]) # 0 /\ e[c][1] \in B
    /\ \A c \in Letter \ {s} : \A j \in 1..Len(e[c]) :
          e[c][j] = s => j + 1 <= Len(e[c]) /\ e[c][j + 1] \in B

SlashedBy(X, N, s, B) == \A i \in 1..N : X[i] = s => i + 1 <= N /\ X[i + 1] \in B

LEMMA CodedSlashed ==
    ASSUME NEW e, NEW s, NEW A, NEW B, Shields(e, s, A, B), NEW Z \in Text, NEW n \in Nat, n = Len(Z),
           SlashedBy(Z, n, s, A), NEW X, NEW N, NEW T, IsCoded(X, N, T, Z, n, e)
    PROVE  SlashedBy(X, N, s, B)
  <1>1. ASSUME NEW i \in 1..N, X[i] = s PROVE i + 1 <= N /\ X[i + 1] \in B
    <2>0. N \in Nat
      BY DEF IsCoded
    <2>1. PICK k \in 0..(n - 1) : \E j \in 1..Len(e[Z[k + 1]]) : i = T[k] + j
      BY DEF IsCoded
    <2>2. PICK j \in 1..Len(e[Z[k + 1]]) : i = T[k] + j
      BY <2>1
    <2>3. /\ Z[k + 1] \in Letter /\ T[k + 1] = T[k] + Len(e[Z[k + 1]])
          /\ X[T[k] + j] = e[Z[k + 1]][j]
          /\ \A l \in 1..Len(e[Z[k + 1]]) : X[T[k] + l] = e[Z[k + 1]][l]
      BY DEF IsCoded
    <2>4. k \in 0..n /\ k + 1 \in 0..n /\ k + 1 \in 1..n
      OBVIOUS
    <2>5. T[k] \in 0..N /\ T[k + 1] \in 0..N
      BY <2>4 DEF IsCoded
    <2>6. PICK c \in Letter : c = Z[k + 1]
      BY <2>3
    <2>7. e[c] \in Text
      BY <2>6 DEF Shields
    <2>8. PICK L \in Nat : L = Len(e[c])
      BY <2>7, TextIs
    <2>9. j \in 1..L /\ e[c][j] = s /\ T[k + 1] = T[k] + L
      BY <1>1, <2>2, <2>3, <2>6, <2>8
    <2>10. CASE c = s
      <3>1. L = 1
        <4>1. e[s] = <<s>> /\ s \in Letter
          BY DEF Shields
        <4>2. Len(<<s>>) = 1
          BY <4>1, Char
        <4> QED
          BY <2>8, <2>10, <4>1, <4>2, Zenon
      <3>2. k + 2 <= n /\ Z[k + 2] \in A
        <4>1. PICK m \in 1..n : m = k + 1 /\ m + 1 = k + 2
          BY <2>4
        <4>2. m + 1 <= n /\ Z[m + 1] \in A
          BY <2>6, <2>10, <4>1, Zenon DEF SlashedBy
        <4> QED
          BY <4>1, <4>2
      <3>3. PICK h \in 0..(n - 1) : h = k + 1 /\ h + 1 = k + 2
        BY <3>2
      <3>4. /\ Z[h + 1] \in Letter /\ T[h + 1] = T[h] + Len(e[Z[h + 1]])
            /\ \A l \in 1..Len(e[Z[h + 1]]) : X[T[h] + l] = e[Z[h + 1]][l]
        BY DEF IsCoded
      <3>5. PICK a \in A \cap Letter : a = Z[h + 1]
        BY <3>2, <3>3, <3>4
      <3>6. e[a] \in Text /\ Len(e[a]) # 0 /\ e[a][1] \in B
        BY DEF Shields
      <3>7. Len(e[a]) \in Nat
        BY <3>6, TextIs
      <3>8. h + 1 \in 0..n
        OBVIOUS
      <3>9. T[h + 1] \in 0..N
        BY <3>8 DEF IsCoded
      <3>10. 1 \in 1..Len(e[a])
        BY <3>6, <3>7
      <3>11. X[T[h] + 1] = e[a][1] /\ T[h + 1] = T[h] + Len(e[a])
        BY <3>4, <3>5, <3>10
      <3>12. j = 1 /\ T[h] = T[k] + 1
        BY <2>9, <3>1, <3>3
      <3>13. i + 1 = T[h] + 1 /\ i + 1 <= N
        BY <2>0, <2>2, <2>5, <3>6, <3>7, <3>9, <3>11, <3>12, SMTT(60)
      <3> QED
        BY <3>6, <3>11, <3>13, Zenon
    <2>11. CASE c # s
      <3>1. j + 1 <= L /\ e[c][j + 1] \in B
        <4>1. j \in 1..Len(e[c]) /\ c \in Letter \ {s}
          BY <2>8, <2>9, <2>11, Zenon
        <4> QED
          BY <2>8, <2>9, <4>1 DEF Shields
      <3>2. PICK l \in 1..L : l = j + 1 /\ T[k] + l = i + 1
        <4>1. j \in Int /\ T[k] \in Int
          BY <2>0, <2>5, <2>9
        <4>2. j + 1 \in 1..L /\ T[k] + (j + 1) = i + 1
          <5>1. j \in 1..L /\ j + 1 <= L /\ i = T[k] + j /\ j \in Int /\ T[k] \in Int
            BY <2>2, <2>9, <3>1, <4>1, Zenon
          <5> QED
            BY <5>1
        <4> QED
          BY <4>2
      <3>3. X[T[k] + l] = e[c][l]
        BY <2>3, <2>6, <2>8, Zenon
      <3>4. i + 1 <= N
        BY <2>0, <2>5, <2>9, <3>2
      <3> QED
        BY <3>1, <3>2, <3>3, <3>4, Zenon
    <2> QED
      BY <2>10, <2>11
  <1> QED
    BY <1>1, Zenon DEF SlashedBy

LEMMA ShieldSlashed ==
    ASSUME NEW e, NEW s, NEW A, NEW B, Shields(e, s, A, B), s = "/", NEW Z \in Slashed(A)
    PROVE  Hom(e, Z) \in Slashed(B)
  <1>1. Z \in Text /\ \A i \in 1..Len(Z) : Z[i] = s => i < Len(Z) /\ Z[i + 1] \in A
    BY DEF Slashed
  <1>2. PICK n \in Nat : n = Len(Z)
    BY <1>1, TextIs
  <1>3. SlashedBy(Z, n, s, A)
    <2>1. ASSUME NEW i \in 1..n, Z[i] = s PROVE i + 1 <= n /\ Z[i + 1] \in A
      BY <1>1, <1>2, <2>1
    <2> QED
      BY <2>1, Zenon DEF SlashedBy
  <1>4. e \in [Letter -> Text]
    BY DEF Shields
  <1>5. PICK X : X = Hom(e, Z)
    OBVIOUS
  <1>6. PICK T : IsCoded(X, Len(X), T, Z, n, e)
    BY <1>1, <1>2, <1>4, <1>5, CodedExists
  <1>7. SlashedBy(X, Len(X), s, B)
    BY <1>1, <1>2, <1>3, <1>6, CodedSlashed
  <1>8. X \in Text /\ Len(X) \in Nat
    <2>1. X \in Text
      BY <1>1, <1>4, <1>5, HomPieces
    <2> QED
      BY <2>1, TextIs
  <1>9. ASSUME NEW i \in 1..Len(X), X[i] = s PROVE i < Len(X) /\ X[i + 1] \in B
    <2>1. i + 1 <= Len(X) /\ X[i + 1] \in B
      BY <1>7, <1>9, Zenon DEF SlashedBy
    <2> QED
      BY <1>8, <2>1
  <1>10. X \in Slashed(B)
    BY <1>8, <1>9, Zenon DEF Slashed
  <1> QED
    BY <1>5, <1>10, Zenon

-----------------------------------------------------------------------------
(* One replacement takes one escape from the argument types.               *)

\* One replacement of the parser takes one escape from what codes the argument types.
IsLayer(m, e, f, g, u, s, x, z, Z) ==
    /\ m \in [Letter -> Text] /\ e \in [Letter -> Text] /\ f \in [Letter -> Text]
    /\ IsSubst(g, s, <<u>>) /\ FoldSigns(u, s, x, z) /\ Z \in Text
    /\ \A i \in 1..Len(Z) : m[Z[i]] = Hom(Fold(u, s, x, z), e[Z[i]])
    /\ \A i \in 1..Len(Z) : f[Z[i]] = Hom(g, e[Z[i]])
    /\ Hom(e, Z) \in Without({u}) /\ Follows(Hom(e, Z), Len(Hom(e, Z)), s, z)

LEMMA Layer ==
    ASSUME NEW m, NEW e, NEW f, NEW g, NEW u, NEW s, NEW x, NEW z, NEW Z,
           IsLayer(m, e, f, g, u, s, x, z, Z)
    PROVE  replace_all(Hom(m, Z), <<u, z>>, <<x>>) = Hom(f, Z)
  <1>1. /\ m \in [Letter -> Text] /\ e \in [Letter -> Text] /\ f \in [Letter -> Text]
        /\ IsSubst(g, s, <<u>>) /\ FoldSigns(u, s, x, z) /\ Z \in Text
        /\ Hom(e, Z) \in Without({u}) /\ Follows(Hom(e, Z), Len(Hom(e, Z)), s, z)
    BY Zenon DEF IsLayer
  <1>2. PICK F : F = Fold(u, s, x, z)
    OBVIOUS
  <1>3. F \in [Letter -> Text]
    BY <1>1, <1>2, FoldIs
  <1>4. g \in [Letter -> Text]
    BY <1>1 DEF IsSubst
  <1>5. \A i \in 1..Len(Z) : m[Z[i]] = Hom(F, e[Z[i]])
    BY <1>2, Zenon DEF IsLayer
  <1>6. \A i \in 1..Len(Z) : f[Z[i]] = Hom(g, e[Z[i]])
    BY Zenon DEF IsLayer
  <1>7. Hom(F, Hom(e, Z)) = Hom(m, Z)
    <2>1. m \in [Letter -> Text] /\ e \in [Letter -> Text] /\ Z \in Text
      BY <1>1, Zenon
    <2> QED
      BY <1>3, <1>5, <2>1, HomHom
  <1>8. Hom(g, Hom(e, Z)) = Hom(f, Z)
    <2>1. f \in [Letter -> Text] /\ e \in [Letter -> Text] /\ Z \in Text
      BY <1>1, Zenon
    <2> QED
      BY <1>4, <1>6, <2>1, HomHom
  <1>9. PICK Y \in Without({u}) : Y = Hom(e, Z)
    BY <1>1, Zenon
  <1>10. PICK n \in Nat : n = Len(Y)
    BY <1>9, WithoutIs, TextIs
  <1>11. PICK old, new : old = <<u, z>> /\ new = <<x>>
    OBVIOUS
  <1>12. replace_all(Hom(Fold(u, s, x, z), Y), old, new) = Hom(g, Y)
    <2>1. FoldSigns(u, s, x, z) /\ IsSubst(g, s, <<u>>) /\ Follows(Y, n, s, z)
      BY <1>1, <1>9, <1>10, Zenon
    <2> QED
      BY <1>9, <1>10, <1>11, <2>1, Unescape
  <1> QED
    BY <1>2, <1>7, <1>8, <1>9, <1>11, <1>12, Zenon

\* The escapes that a layer leaves to the next, written with the slash they come from.
IsShield(e, u, b, s, z1, z3) ==
    /\ e \in [Letter -> Text] /\ e[u] = <<s, z1>> /\ e[b] = <<s, z3>>
    /\ \A c \in Letter \ {u, b} : e[c] = <<c>>
IsOut(f, u, b, s, z1, z3) ==
    /\ f \in [Letter -> Text] /\ f[u] = <<u, z1>> /\ f[b] = <<u, z3>> /\ f[s] = <<u>>
    /\ \A c \in Letter \ {u, b, s} : f[c] = <<c>>
IsIn(m, u, b, s, x, o, z1, z3, z) ==
    /\ m \in [Letter -> Text] /\ m[u] = <<u, z1>> /\ m[b] = <<u, z3>> /\ m[s] = <<u>> /\ m[x] = <<u, z>>
    /\ \A c \in Letter \ {u, b, s, x, o} : m[c] = <<c>>
LayerSigns(u, b, s, x, z1, z3, z) ==
    /\ FoldSigns(u, s, x, z) /\ b \in Letter /\ z1 \in Letter /\ z3 \in Letter
    /\ b # s /\ b # x /\ z1 # s /\ z3 # s /\ z1 # u /\ z3 # u /\ z1 # x /\ z3 # x

LEMMA HomPair ==
    ASSUME NEW h \in [Letter -> Text], NEW s \in Letter, NEW u \in Letter, NEW y \in Letter,
           h[s] = <<u>>, h[y] = <<y>>
    PROVE  Hom(h, <<s, y>>) = <<u, y>>
  <1>1. <<s, y>> = <<s>> \o <<y>> /\ <<u, y>> = <<u>> \o <<y>>
    BY TwoChars
  <1>2. <<s>> \in Text /\ <<y>> \in Text
    BY Char
  <1>3. Hom(h, <<s>> \o <<y>>) = Hom(h, <<s>>) \o Hom(h, <<y>>)
    BY <1>2, HomConcat
  <1>4. Hom(h, <<s>>) = <<u>> /\ Hom(h, <<y>>) = <<y>>
    BY HomOne
  <1> QED
    BY <1>1, <1>3, <1>4, Zenon

LEMMA ShieldOut ==
    ASSUME NEW u, NEW b, NEW s, NEW x, NEW z1, NEW z3, NEW z, LayerSigns(u, b, s, x, z1, z3, z),
           NEW e, IsShield(e, u, b, s, z1, z3), NEW f, IsOut(f, u, b, s, z1, z3),
           NEW g, IsSubst(g, s, <<u>>), NEW c \in Letter
    PROVE  f[c] = Hom(g, e[c])
  <1>1. u \in Letter /\ s \in Letter /\ b \in Letter /\ z1 \in Letter /\ z3 \in Letter
        /\ u # s /\ b # s /\ z1 # s /\ z3 # s
    BY Zenon DEF LayerSigns, FoldSigns
  <1>2. g \in [Letter -> Text] /\ g[s] = <<u>> /\ \A a \in Letter : a # s => g[a] = <<a>>
    BY DEF IsSubst
  <1>3. Hom(g, <<s, z1>>) = <<u, z1>> /\ Hom(g, <<s, z3>>) = <<u, z3>>
    <2>1. g[z1] = <<z1>> /\ g[z3] = <<z3>>
      BY <1>1, <1>2, Zenon
    <2> QED
      BY <1>1, <1>2, <2>1, HomPair
  <1>4. CASE c = u \/ c = b
    BY <1>3, <1>4, Zenon DEF IsShield, IsOut
  <1>5. CASE c \notin {u, b}
    <2>1. e[c] = <<c>>
      BY <1>5, Zenon DEF IsShield
    <2>2. Hom(g, <<c>>) = g[c]
      BY <1>2, HomOne
    <2>3. CASE c = s
      BY <1>2, <2>1, <2>2, <2>3, Zenon DEF IsOut
    <2>4. CASE c # s
      <3>1. f[c] = <<c>> /\ g[c] = <<c>>
        BY <1>2, <1>5, <2>4, Zenon DEF IsOut
      <3> QED
        BY <2>1, <2>2, <3>1, Zenon
    <2> QED
      BY <2>3, <2>4, Zenon
  <1> QED
    BY <1>4, <1>5, Zenon

LEMMA ShieldIn ==
    ASSUME NEW u, NEW b, NEW s, NEW x, NEW z1, NEW z3, NEW z, LayerSigns(u, b, s, x, z1, z3, z),
           NEW e, IsShield(e, u, b, s, z1, z3), NEW o, NEW m, IsIn(m, u, b, s, x, o, z1, z3, z),
           NEW c \in Letter \ {o}
    PROVE  m[c] = Hom(Fold(u, s, x, z), e[c])
  <1>1. u \in Letter /\ s \in Letter /\ b \in Letter /\ z1 \in Letter /\ z3 \in Letter
        /\ u # s /\ b # s /\ z1 # s /\ z3 # s /\ z1 # u /\ z3 # u /\ z1 # x /\ z3 # x
        /\ b # x /\ x \in Letter /\ u # x
    BY Zenon DEF LayerSigns, FoldSigns
  <1>2. PICK F : F = Fold(u, s, x, z)
    OBVIOUS
  <1>3. /\ F \in [Letter -> Text]
        /\ F[x] = <<u, z>> /\ F[u] = <<u, z>> /\ F[s] = <<u>>
        /\ \A a \in Letter : a \notin {u, x, s} => F[a] = <<a>>
    <2>1. FoldSigns(u, s, x, z)
      BY Zenon DEF LayerSigns
    <2> QED
      BY <1>2, <2>1, FoldIs
  <1>4. Hom(F, <<s, z1>>) = <<u, z1>> /\ Hom(F, <<s, z3>>) = <<u, z3>>
    <2>1. z1 \notin {u, x, s} /\ z3 \notin {u, x, s}
      BY <1>1, Zenon
    <2>2. F[z1] = <<z1>> /\ F[z3] = <<z3>>
      BY <1>1, <1>3, <2>1, Zenon
    <2> QED
      BY <1>1, <1>3, <2>2, HomPair
  <1>5. CASE c = u \/ c = b
    BY <1>2, <1>4, <1>5, Zenon DEF IsShield, IsIn
  <1>6. CASE c \notin {u, b}
    <2>1. e[c] = <<c>>
      BY <1>6, Zenon DEF IsShield
    <2>2. Hom(F, <<c>>) = F[c]
      BY <1>3, HomOne
    <2>3. CASE c = s \/ c = x
      BY <1>2, <1>3, <2>1, <2>2, <2>3, Zenon DEF IsIn
    <2>4. CASE c \notin {s, x}
      <3>1. c \in Letter \ {u, b, s, x, o} /\ c \notin {u, x, s}
        BY <1>6, <2>4, Zenon
      <3>2. m[c] = <<c>> /\ F[c] = <<c>>
        BY <1>3, <3>1, Zenon DEF IsIn
      <3> QED
        BY <1>2, <2>1, <2>2, <3>2, Zenon
    <2> QED
      BY <2>3, <2>4, Zenon
  <1> QED
    BY <1>5, <1>6, Zenon

-----------------------------------------------------------------------------
(* One layer over the argument types.                                      *)

LEMMA PairWithout ==
    ASSUME NEW A, NEW s \in Letter, NEW y \in Letter, s \notin A, y \notin A
    PROVE  <<s, y>> \in Without(A)
  <1>1. <<s, y>> = <<s>> \o <<y>>
    BY TwoChars
  <1>2. <<s>> \in Without(A) /\ <<y>> \in Without(A) /\ IsKind(Without(A))
    BY WithoutOne, WithoutKind
  <1>3. <<s>> \o <<y>> \in Without(A)
    BY <1>2, KindCat
  <1> QED
    BY <1>1, <1>3, Zenon

LEMMA ShieldKeeps ==
    ASSUME NEW u, NEW b, NEW s, NEW x, NEW z1, NEW z3, NEW z, LayerSigns(u, b, s, x, z1, z3, z),
           NEW e, IsShield(e, u, b, s, z1, z3), NEW A, NEW B, B = A \cup {s, z1, z3}
    PROVE  Shields(e, s, A, B) /\ \A c \in Letter : e[c] \in Without({u})
  <1>1. u \in Letter /\ s \in Letter /\ b \in Letter /\ z1 \in Letter /\ z3 \in Letter
        /\ u # s /\ b # s /\ z1 # s /\ z3 # s /\ z1 # u /\ z3 # u
    BY Zenon DEF LayerSigns, FoldSigns
  <1>2. /\ e \in [Letter -> Text] /\ e[u] = <<s, z1>> /\ e[b] = <<s, z3>>
        /\ \A c \in Letter \ {u, b} : e[c] = <<c>>
    BY Zenon DEF IsShield
  <1>3. IsTwo(<<s, z1>>, s, z1) /\ IsTwo(<<s, z3>>, s, z3)
    BY <1>1, TwoIs
  <1>4. ASSUME NEW c \in Letter PROVE e[c] \in Without({u})
    <2>1. s \notin {u} /\ z1 \notin {u} /\ z3 \notin {u}
      BY <1>1, Zenon
    <2>2. <<s, z1>> \in Without({u}) /\ <<s, z3>> \in Without({u})
      BY <1>1, <2>1, PairWithout
    <2>3. CASE c \in {u, b}
      BY <1>2, <2>2, <2>3, Zenon
    <2>4. CASE c \notin {u, b}
      <3>1. c \notin {u}
        BY <2>4, Zenon
      <3>2. <<c>> \in Without({u})
        BY <3>1, WithoutOne
      <3> QED
        BY <1>2, <2>4, <3>2, Zenon
    <2> QED
      BY <2>3, <2>4, Zenon
  <1>5. ASSUME NEW c \in Letter
        PROVE  \/ e[c] = <<c>> /\ Len(e[c]) = 1 /\ e[c][1] = c
               \/ \E y \in {z1, z3} : Len(e[c]) = 2 /\ e[c][1] = s /\ e[c][2] = y /\ c \in {u, b}
    <2>1. CASE c \in {u, b}
      BY <1>2, <1>3, <2>1, Zenon DEF IsTwo
    <2>2. CASE c \notin {u, b}
      <3>1. Len(<<c>>) = 1 /\ <<c>>[1] = c
        BY Char
      <3> QED
        BY <1>2, <2>2, <3>1, Zenon
    <2> QED
      BY <2>1, <2>2, Zenon
  <1>6. ASSUME NEW c \in A \cap Letter PROVE Len(e[c]) # 0 /\ e[c][1] \in B
    BY <1>5
  <1>7. ASSUME NEW c \in Letter \ {s}, NEW j \in 1..Len(e[c]), e[c][j] = s
        PROVE  j + 1 <= Len(e[c]) /\ e[c][j + 1] \in B
    <2>1. CASE Len(e[c]) = 1 /\ e[c][1] = c
      <3>1. j = 1
        BY <2>1
      <3> QED
        BY <1>7, <2>1, <3>1
    <2>2. CASE \E y \in {z1, z3} : Len(e[c]) = 2 /\ e[c][1] = s /\ e[c][2] = y
      <3>1. PICK y \in {z1, z3} : Len(e[c]) = 2 /\ e[c][1] = s /\ e[c][2] = y
        BY <2>2
      <3>2. y \in B /\ y # s
        BY <1>1
      <3>3. j \in 1..2 /\ j # 2
        BY <1>7, <3>1, <3>2
      <3>4. j = 1 /\ j + 1 = 2
        BY <3>3
      <3> QED
        BY <3>1, <3>2, <3>4
    <2> QED
      BY <1>5, <2>1, <2>2, Zenon
  <1>8. e[s] = <<s>>
    BY <1>1, <1>2, Zenon
  <1> QED
    BY <1>1, <1>2, <1>4, <1>6, <1>7, <1>8, Zenon DEF Shields

\* One layer over the argument types.
LEMMA LayerIs ==
    ASSUME NEW u, NEW b, NEW s, NEW x, NEW o, NEW z1, NEW z3, NEW z,
           LayerSigns(u, b, s, x, z1, z3, z), s = "/", z \notin Begin \cup {s, z1, z3},
           NEW e, IsShield(e, u, b, s, z1, z3), NEW m, IsIn(m, u, b, s, x, o, z1, z3, z),
           NEW f, IsOut(f, u, b, s, z1, z3),
           NEW Z \in Slashed(Begin), Z \in Without({o})
    PROVE  replace_all(Hom(m, Z), <<u, z>>, <<x>>) = Hom(f, Z)
  <1>1. FoldSigns(u, s, x, z) /\ u \in Letter /\ s \in Letter
    BY Zenon DEF LayerSigns, FoldSigns
  <1>2. <<u>> \in Text
    BY <1>1, Char
  <1>3. PICK g : IsSubst(g, s, <<u>>)
    BY <1>1, <1>2, SubstIs
  <1>4. Z \in Text /\ \A i \in 1..Len(Z) : Z[i] \in Letter /\ Z[i] \notin {o}
    BY WithoutIs, TextIs
  <1>5. ASSUME NEW i \in 1..Len(Z) PROVE m[Z[i]] = Hom(Fold(u, s, x, z), e[Z[i]])
    <2>1. Z[i] \in Letter \ {o}
      BY <1>4, Zenon
    <2> QED
      BY <2>1, ShieldIn
  <1>6. ASSUME NEW i \in 1..Len(Z) PROVE f[Z[i]] = Hom(g, e[Z[i]])
    <2>1. Z[i] \in Letter
      BY <1>4, Zenon
    <2> QED
      BY <1>3, <2>1, ShieldOut
  <1>7. PICK B : B = Begin \cup {s, z1, z3}
    OBVIOUS
  <1>8. Shields(e, s, Begin, B) /\ \A c \in Letter : e[c] \in Without({u})
    BY <1>7, ShieldKeeps
  <1>9. Hom(e, Z) \in Slashed(B)
    BY <1>8, ShieldSlashed, Zenon
  <1>10. z \notin B
    BY <1>7, Zenon
  <1>11. Follows(Hom(e, Z), Len(Hom(e, Z)), s, z)
    BY <1>9, <1>10, SlashedFollows, Zenon
  <1>12. e \in [Letter -> Text]
    BY Zenon DEF IsShield
  <1>13. Hom(e, Z) \in Without({u})
    <2>1. IsKind(Without({u}))
      BY WithoutKind
    <2>2. ASSUME NEW k \in 0..(Len(Z) - 1) PROVE e[Z[k + 1]] \in Without({u})
      <3>1. Len(Z) \in Nat
        BY <1>4, TextIs
      <3>2. k + 1 \in 1..Len(Z)
        BY <3>1
      <3>3. Z[k + 1] \in Letter
        BY <1>4, <3>2, Zenon
      <3> QED
        BY <1>8, <3>3, Zenon
    <2> QED
      BY <1>4, <1>12, <2>1, <2>2, HomKind
  <1>14. IsLayer(m, e, f, g, u, s, x, z, Z)
    <2>1. m \in [Letter -> Text] /\ f \in [Letter -> Text]
      BY Zenon DEF IsIn, IsOut
    <2> QED
      BY <1>1, <1>3, <1>4, <1>5, <1>6, <1>11, <1>12, <1>13, <2>1, Zenon DEF IsLayer
  <1> QED
    BY <1>14, Layer

-----------------------------------------------------------------------------
(* Both layers over the argument types.                                    *)

LEMMA ShieldExists ==
    ASSUME NEW u \in Letter, NEW b \in Letter, NEW s \in Letter, NEW z1 \in Letter, NEW z3 \in Letter,
           u = b => z1 = z3
    PROVE  \E e : IsShield(e, u, b, s, z1, z3)
  <1>1. PICK e : e = [c \in Letter |-> IF c = u THEN <<s, z1>> ELSE IF c = b THEN <<s, z3>> ELSE <<c>>]
    OBVIOUS
  <1>2. ASSUME NEW c \in Letter
        PROVE  (IF c = u THEN <<s, z1>> ELSE IF c = b THEN <<s, z3>> ELSE <<c>>) \in Text
    <2>1. <<s, z1>> \in Text /\ <<s, z3>> \in Text
      BY TwoIs, Zenon DEF IsTwo
    <2>2. <<c>> \in Text
      BY Char
    <2> QED
      BY <2>1, <2>2, Zenon
  <1>3. e \in [Letter -> Text]
    BY <1>1, <1>2, Zenon
  <1>4. \A c \in Letter : e[c] = IF c = u THEN <<s, z1>> ELSE IF c = b THEN <<s, z3>> ELSE <<c>>
    BY <1>1, Zenon
  <1>5. e[u] = <<s, z1>> /\ e[b] = <<s, z3>>
    BY <1>4, Zenon
  <1>6. \A c \in Letter \ {u, b} : e[c] = <<c>>
    BY <1>4, Zenon
  <1> QED
    BY <1>3, <1>5, <1>6, Zenon DEF IsShield

LEMMA OutExists ==
    ASSUME NEW u \in Letter, NEW b \in Letter, NEW s \in Letter, NEW z1 \in Letter, NEW z3 \in Letter,
           u = b => z1 = z3, u # s, b # s
    PROVE  \E f : IsOut(f, u, b, s, z1, z3)
  <1>1. PICK f : f = [c \in Letter |-> IF c = u THEN <<u, z1>> ELSE IF c = b THEN <<u, z3>>
                                       ELSE IF c = s THEN <<u>> ELSE <<c>>]
    OBVIOUS
  <1>2. ASSUME NEW c \in Letter
        PROVE  (IF c = u THEN <<u, z1>> ELSE IF c = b THEN <<u, z3>>
                ELSE IF c = s THEN <<u>> ELSE <<c>>) \in Text
    <2>1. <<u, z1>> \in Text /\ <<u, z3>> \in Text
      BY TwoIs, Zenon DEF IsTwo
    <2>2. <<c>> \in Text /\ <<u>> \in Text
      BY Char
    <2> QED
      BY <2>1, <2>2, Zenon
  <1>3. f \in [Letter -> Text]
    BY <1>1, <1>2, Zenon
  <1>4. \A c \in Letter : f[c] = IF c = u THEN <<u, z1>> ELSE IF c = b THEN <<u, z3>>
                                 ELSE IF c = s THEN <<u>> ELSE <<c>>
    BY <1>1, Zenon
  <1>5. f[u] = <<u, z1>> /\ f[b] = <<u, z3>> /\ f[s] = <<u>>
    BY <1>4, Zenon
  <1>6. \A c \in Letter \ {u, b, s} : f[c] = <<c>>
    BY <1>4, Zenon
  <1> QED
    BY <1>3, <1>5, <1>6, Zenon DEF IsOut

\* What the parser makes of mangled argument types: only slashes and underscores differ.
LEMMA TypesUnmangled ==
    ASSUME NEW u, NEW e, NEW b, NEW o, NEW s, NEW z0, NEW z1, NEW z2, NEW z3,
           AreSigns(u, e, b, o, s, z0, z1, z2, z3), NEW Z \in Slashed(Begin), Z \in Without({o})
    PROVE  \E k : /\ IsOut(k, u, u, s, z1, z1)
                  /\ replace_all(replace_all(Hom(Mangling, Z), <<u, z2>>, <<e>>), <<u, z3>>, <<b>>)
                         = Hom(k, Z)
  <1>1. Apart(u, e, b, o, s, z0, z1, z2, z3)
    BY SignsApart
  <1>2. /\ u \in Letter /\ e \in Letter /\ b \in Letter /\ o \in Letter /\ s \in Letter
        /\ z0 \in Letter /\ z1 \in Letter /\ z2 \in Letter /\ z3 \in Letter
        /\ u # e /\ u # b /\ u # s /\ e # b /\ e # s /\ b # s
        /\ u # z1 /\ u # z2 /\ u # z3 /\ s # z1 /\ s # z2 /\ s # z3 /\ e # z1 /\ e # z3 /\ e # z2
        /\ b # z1 /\ b # z3 /\ z1 # z2 /\ z1 # z3 /\ z2 # z3
    BY <1>1, Zenon DEF Apart
  <1>3. LayerSigns(u, b, s, e, z1, z3, z2) /\ LayerSigns(u, u, s, b, z1, z1, z3)
    BY <1>2, Zenon DEF LayerSigns, FoldSigns
  <1>4. z2 \notin Begin /\ z3 \notin Begin
    BY Zenon DEF AreSigns, Begin, Digit
  <1>5. z2 \notin Begin \cup {s, z1, z3} /\ z3 \notin Begin \cup {s, z1, z1}
    BY <1>2, <1>4, Zenon
  <1>6. PICK e1 : IsShield(e1, u, b, s, z1, z3)
    BY <1>2, ShieldExists
  <1>7. PICK e2 : IsShield(e2, u, u, s, z1, z1)
    BY <1>2, ShieldExists
  <1>8. PICK f : IsOut(f, u, b, s, z1, z3)
    BY <1>2, OutExists
  <1>9. PICK k : IsOut(k, u, u, s, z1, z1)
    BY <1>2, OutExists
  <1>10. PICK M : M = Mangling
    OBVIOUS
  <1>11. IsMangling(M, u, e, b, o, s, z0, z1, z2, z3)
    BY <1>10, ManglingIs, Zenon
  <1>12. IsIn(M, u, b, s, e, o, z1, z3, z2)
    BY <1>11, Zenon DEF IsMangling, IsIn
  <1>13. IsIn(f, u, u, s, b, o, z1, z1, z3)
    BY <1>8, Zenon DEF IsOut, IsIn
  <1>14. s = "/"
    BY Zenon DEF AreSigns
  <1>15. replace_all(Hom(M, Z), <<u, z2>>, <<e>>) = Hom(f, Z)
    BY <1>3, <1>5, <1>6, <1>8, <1>12, <1>14, LayerIs
  <1>16. replace_all(Hom(f, Z), <<u, z3>>, <<b>>) = Hom(k, Z)
    BY <1>3, <1>5, <1>7, <1>9, <1>13, <1>14, LayerIs
  <1> QED
    BY <1>9, <1>10, <1>15, <1>16, Zenon

-----------------------------------------------------------------------------
(* What the argument types have become.                                    *)

\* What a code leaves as it is.
Leaves(k, c1, c2, c3) ==
    /\ k \in [Letter -> Text] /\ c1 \in Letter /\ c2 \in Letter /\ c3 \in Letter
    /\ k[c1] = <<c1>> /\ k[c2] = <<c2>> /\ k[c3] = <<c3>>
    /\ \A c : is_java_base_args_sig(c) => k[c] = <<c>>
    /\ \A c \in Letter : c # c3 => k[c] \in Without({c3})
AreTypes(c1, c2, c3) == c1 = "[" /\ c2 = "L" /\ c3 = ";"

LEMMA OutLeaves ==
    ASSUME NEW u, NEW e, NEW b, NEW o, NEW s, NEW z0, NEW z1, NEW z2, NEW z3,
           AreSigns(u, e, b, o, s, z0, z1, z2, z3), NEW k, IsOut(k, u, u, s, z1, z1),
           NEW c1, NEW c2, NEW c3, AreTypes(c1, c2, c3)
    PROVE  Leaves(k, c1, c2, c3)
  <1>1. Apart(u, e, b, o, s, z0, z1, z2, z3)
    BY SignsApart
  <1>2. u \in Letter /\ s \in Letter /\ z1 \in Letter /\ u # e /\ z1 # e
    BY <1>1, Zenon DEF Apart
  <1>3. c3 = e /\ c1 \in Letter /\ c2 \in Letter /\ c3 \in Letter
    <2>1. c1 \in Letter /\ c2 \in Letter /\ c3 \in Letter
      BY Brackets, Zenon DEF AreTypes
    <2> QED
      BY <2>1, Zenon DEF AreTypes, AreSigns
  <1>4. /\ k \in [Letter -> Text] /\ k[u] = <<u, z1>> /\ k[s] = <<u>>
        /\ \A c \in Letter \ {u, s} : k[c] = <<c>>
    BY Zenon DEF IsOut
  <1>5. c1 \notin {u, s} /\ c2 \notin {u, s} /\ c3 \notin {u, s}
    BY Zenon DEF AreSigns, AreTypes
  <1>6. ASSUME NEW c, is_java_base_args_sig(c) PROVE c \in Letter \ {u, s}
    <2>1. c \in Letter
      BY <1>6, BaseLetters
    <2>2. c \in {"V", "Z", "B", "C", "S", "I", "J", "F", "D"}
      BY <1>6, Zenon DEF is_java_base_args_sig
    <2>3. c # "_" /\ c # "/"
      BY <2>2, Zenon
    <2>4. u = "_" /\ s = "/"
      BY Zenon DEF AreSigns
    <2> QED
      BY <2>1, <2>3, <2>4, Zenon
  <1>7. ASSUME NEW c \in Letter, c # c3 PROVE k[c] \in Without({c3})
    <2>1. u \notin {c3} /\ z1 \notin {c3} /\ c \notin {c3}
      BY <1>2, <1>3, <1>7, Zenon
    <2>2. <<u, z1>> \in Without({c3}) /\ <<u>> \in Without({c3}) /\ <<c>> \in Without({c3})
      BY <1>2, <2>1, PairWithout, WithoutOne
    <2> QED
      BY <1>4, <2>2, Zenon
  <1> QED
    BY <1>3, <1>4, <1>5, <1>6, <1>7, Zenon DEF Leaves

LEMMA DimsLeft ==
    ASSUME NEW k, NEW c1, NEW c2, NEW c3, Leaves(k, c1, c2, c3), AreTypes(c1, c2, c3), NEW d \in Nat
    PROVE  Hom(k, Dims(d)) = Dims(d)
  <1>1. Dims(d) \in Text /\ Len(Dims(d)) = d
    BY DimsAre, Zenon
  <1>2. \A i \in 1..Len(Dims(d)) : Dims(d)[i] = c1
    BY <1>1, DimsAre, Zenon DEF AreTypes
  <1>3. k \in [Letter -> Text] /\ k[c1] = <<c1>>
    BY Zenon DEF Leaves
  <1>4. \A i \in 1..Len(Dims(d)) : k[Dims(d)[i]] = <<Dims(d)[i]>>
    BY <1>2, <1>3, Zenon
  <1> QED
    BY <1>1, <1>3, <1>4, HomId

IsObject(w, d, c2, J, c3) == w = Dims(d) \o ((<<c2>> \o J) \o <<c3>>)

\* The type of an object as the parser hands it on.
LEMMA ClassOut ==
    ASSUME NEW k, NEW c1, NEW c2, NEW c3, Leaves(k, c1, c2, c3), AreTypes(c1, c2, c3),
           NEW J \in Without({c3}), NEW d \in Nat, NEW w, IsObject(w, d, c2, J, c3)
    PROVE  \E v : IsSigWord(Hom(k, w), v) /\ v \in Text /\ Last(v) = c3
  <1>1. k \in [Letter -> Text] /\ c2 \in Letter /\ c3 \in Letter /\ k[c2] = <<c2>> /\ k[c3] = <<c3>>
    BY Zenon DEF Leaves
  <1>2. J \in Text /\ \A i \in 1..Len(J) : J[i] \in Letter /\ J[i] \notin {c3}
    BY WithoutIs, TextIs
  <1>3. PICK B : B = Hom(k, J)
    OBVIOUS
  <1>4. B \in Without({c3})
    <2>1. IsKind(Without({c3}))
      BY WithoutKind
    <2>2. ASSUME NEW i \in 0..(Len(J) - 1) PROVE k[J[i + 1]] \in Without({c3})
      <3>1. Len(J) \in Nat
        BY <1>2, TextIs
      <3>2. i + 1 \in 1..Len(J)
        BY <3>1
      <3>3. J[i + 1] \in Letter /\ J[i + 1] # c3
        BY <1>2, <3>2, Zenon
      <3> QED
        BY <3>3, Zenon DEF Leaves
    <2> QED
      BY <1>1, <1>2, <1>3, <2>1, <2>2, HomKind
  <1>5. B \in Text /\ \A i \in 1..Len(B) : B[i] \notin {c3}
    BY <1>4, WithoutIs
  <1>6. <<c2>> \in Text /\ <<c3>> \in Text /\ Dims(d) \in Text
    BY <1>1, Char, DimsAre
  <1>7. <<c2>> \o J \in Text
    BY <1>2, <1>6, Cat
  <1>8. (<<c2>> \o J) \o <<c3>> \in Text
    BY <1>6, <1>7, Cat
  <1>9. PICK v : v = (<<c2>> \o B) \o <<c3>>
    OBVIOUS
  <1>10. Hom(k, <<c2>> \o J) = Hom(k, <<c2>>) \o Hom(k, J)
    BY <1>1, <1>2, <1>6, HomConcat
  <1>11. Hom(k, (<<c2>> \o J) \o <<c3>>) = Hom(k, <<c2>> \o J) \o Hom(k, <<c3>>)
    BY <1>1, <1>6, <1>7, HomConcat
  <1>12. Hom(k, w) = Hom(k, Dims(d)) \o Hom(k, (<<c2>> \o J) \o <<c3>>)
    <2>1. Hom(k, Dims(d) \o ((<<c2>> \o J) \o <<c3>>)) = Hom(k, Dims(d)) \o Hom(k, (<<c2>> \o J) \o <<c3>>)
      BY <1>1, <1>6, <1>8, HomConcat
    <2> QED
      BY <2>1, Zenon DEF IsObject
  <1>13. Hom(k, <<c2>>) = <<c2>> /\ Hom(k, <<c3>>) = <<c3>>
    BY <1>1, HomOne
  <1>14. Hom(k, Dims(d)) = Dims(d)
    BY DimsLeft
  <1>15. Hom(k, w) = Dims(d) \o v
    BY <1>3, <1>9, <1>10, <1>11, <1>12, <1>13, <1>14, Zenon
  <1>16. IsClassWord(Hom(k, w), v, d, B)
    <2>1. \A j \in 1..Len(B) : B[j] # ";"
      BY <1>5, Zenon DEF AreTypes
    <2>2. v = (<<"L">> \o B) \o <<";">>
      BY <1>9, Zenon DEF AreTypes
    <2> QED
      BY <1>5, <1>15, <2>1, <2>2, Zenon DEF IsClassWord
  <1>17. <<c2>> \o B \in Text
    BY <1>5, <1>6, Cat
  <1>18. v \in Text /\ Len(v) = Len(<<c2>> \o B) + 1 /\ v[Len(<<c2>> \o B) + 1] = c3
    BY <1>1, <1>9, <1>17, CatChar
  <1>19. Last(v) = c3
    <2>1. v[Len(v)] = c3
      BY <1>18, Zenon
    <2> QED
      BY <2>1, Zenon DEF Last
  <1> QED
    BY <1>16, <1>18, <1>19, Zenon DEF IsSigWord

KindRead(v, t) == IF t.word = "class" THEN Last(v) = ";" ELSE v = TypeSig(t)

LEMMA TypeOut ==
    ASSUME NEW k, NEW c1, NEW c2, NEW c3, Leaves(k, c1, c2, c3), AreTypes(c1, c2, c3),
           NEW t, IsType(t)
    PROVE  \E v : IsSigWord(Hom(k, TypeSig(t)), v) /\ v \in Text /\ KindRead(v, t)
  <1>1. k \in [Letter -> Text] /\ c3 \in Letter
    BY Zenon DEF Leaves
  <1>2. CASE t.word = "class"
    <2>1. /\ TypeSig(t) = Dims(t.dim) \o SigTaken(t)
          /\ SigTaken(t) = (<<"L">> \o Joined(t.path, <<"/">>)) \o <<";">>
          /\ t.dim \in Nat
      BY <1>2, ClassSig, Zenon
    <2>2. PICK n : IsPath(t.path, n)
      BY <1>2, ClassSig, Zenon
    <2>3. {c3} \subseteq Mark /\ "/" \in Letter /\ "/" \notin {c3}
      BY Brackets, Zenon DEF AreTypes, Mark, Separator
    <2>4. Joined(t.path, <<"/">>) \in Without({c3})
      BY <2>2, <2>3, PathWithout
    <2>5. PICK J \in Without({c3}) : J = Joined(t.path, <<"/">>)
      BY <2>4
    <2>6. PICK w : w = TypeSig(t)
      OBVIOUS
    <2>7. w = Dims(t.dim) \o ((<<c2>> \o J) \o <<c3>>)
      BY <2>1, <2>5, <2>6, Zenon DEF AreTypes
    <2>8. PICK v : IsSigWord(Hom(k, w), v) /\ v \in Text /\ Last(v) = c3
      <3>1. PICK d \in Nat : d = t.dim
        BY <2>1, Zenon
      <3>2. IsObject(w, d, c2, J, c3)
        BY <2>7, <3>1, Zenon DEF IsObject
      <3> QED
        BY <3>2, ClassOut
    <2>9. KindRead(v, t)
      BY <1>2, <2>8, Zenon DEF KindRead, AreTypes
    <2> QED
      BY <2>6, <2>8, <2>9, Zenon
  <1>3. CASE t.word # "class"
    <2>1. /\ IsBaseWord(TypeSig(t), t.dim, BaseSig(t.word))
          /\ TypeSig(t) = Dims(t.dim) \o <<BaseSig(t.word)>>
      BY <1>3, BasicSig, Zenon
    <2>2. PICK c : c = BaseSig(t.word)
      OBVIOUS
    <2>3. is_java_base_args_sig(c) /\ t.dim \in Nat
      BY <2>1, <2>2, Zenon DEF IsBaseWord
    <2>4. c \in Letter /\ k[c] = <<c>>
      <3>1. k[c] = <<c>>
        BY <2>3, Zenon DEF Leaves
      <3> QED
        BY <2>3, <3>1, BaseLetters
    <2>5. Dims(t.dim) \in Text /\ <<c>> \in Text
      BY <2>3, <2>4, DimsAre, Char
    <2>6. Hom(k, Dims(t.dim) \o <<c>>) = Hom(k, Dims(t.dim)) \o Hom(k, <<c>>)
      BY <1>1, <2>5, HomConcat
    <2>7. Hom(k, <<c>>) = <<c>>
      BY <1>1, <2>4, HomOne
    <2>8. Hom(k, Dims(t.dim)) = Dims(t.dim)
      BY <2>3, DimsLeft
    <2>9. Hom(k, TypeSig(t)) = TypeSig(t)
      BY <2>1, <2>2, <2>6, <2>7, <2>8, Zenon
    <2>10. Dims(t.dim) \o <<c>> \in Text
      BY <2>5, Cat
    <2> QED
      BY <1>3, <2>1, <2>2, <2>9, <2>10, Zenon DEF IsSigWord, KindRead
  <1> QED
    BY <1>2, <1>3, Zenon

-----------------------------------------------------------------------------
(* The argument types in a symbol are read back.                           *)

\* A type and what is read of it.
IsReadAs(k, t, v) == IsSigWord(Hom(k, TypeSig(t)), v) /\ v \in Text /\ KindRead(v, t)
TypesReadAs(q, d) ==
    /\ q \in Seq(Text) /\ Len(q) = Len(d.args) /\ DOMAIN q = DOMAIN d.args
    /\ \A i \in DOMAIN d.args : KindRead(q[i], d.args[i])

LEMMA WordsRead ==
    ASSUME NEW k, NEW c1, NEW c2, NEW c3, Leaves(k, c1, c2, c3), AreTypes(c1, c2, c3), NEW d \in Decl
    PROVE  \E q : /\ split_args_sig(Hom(k, ArgSigs(d))) = [ok |-> "yes", args |-> q]
                  /\ TypesReadAs(q, d)
  <1>1. k \in [Letter -> Text]
    BY Zenon DEF Leaves
  <1>2. PICK n \in Nat : n = Len(d.args)
    BY SigsAre
  <1>3. /\ Sigs(d) \in Seq(Text) /\ Len(Sigs(d)) = n /\ ArgSigs(d) = FlattenSeq(Sigs(d))
        /\ DOMAIN d.args = 1..n
        /\ \A i \in 1..n : IsType(d.args[i]) /\ Sigs(d)[i] = TypeSig(d.args[i])
    <2>1. DOMAIN d.args = 1..n /\ \A i \in 1..n : IsType(d.args[i])
      BY <1>2, DeclIs, Zenon
    <2>2. \A i \in 1..n : Sigs(d)[i] = TypeSig(d.args[i])
      BY <2>1, Zenon DEF Sigs
    <2> QED
      BY <1>2, <2>1, <2>2, SigsAre, Zenon
  <1>4. PICK q : q = [i \in 1..n |-> CHOOSE v : IsReadAs(k, d.args[i], v)]
    OBVIOUS
  <1>5. ASSUME NEW i \in 1..n PROVE IsReadAs(k, d.args[i], q[i])
    <2>1. \E v : IsReadAs(k, d.args[i], v)
      <3>1. PICK t : t = d.args[i]
        OBVIOUS
      <3>2. IsType(t)
        BY <1>3, <3>1, Zenon
      <3>3. \E v : IsSigWord(Hom(k, TypeSig(t)), v) /\ v \in Text /\ KindRead(v, t)
        BY <3>2, TypeOut
      <3> QED
        BY <3>1, <3>3, Zenon DEF IsReadAs
    <2>2. q[i] = CHOOSE v : IsReadAs(k, d.args[i], v)
      BY <1>4, Zenon
    <2> QED
      BY <2>1, <2>2, Zenon
  <1>6. q \in Seq(Text) /\ Len(q) = n /\ DOMAIN q = 1..n
    <2>1. \A i \in 1..n : q[i] \in Text
      BY <1>5, Zenon DEF IsReadAs
    <2>2. DOMAIN q = 1..n
      BY <1>4, Zenon
    <2>3. \A i \in 1..n : (CHOOSE v : IsReadAs(k, d.args[i], v)) \in Text
      BY <1>4, <2>1, Zenon
    <2>4. q \in [1..n -> Text]
      BY <1>4, <2>3, Zenon
    <2> QED
      BY <2>2, <2>4
  <1>7. PICK p : p = [i \in 1..n |-> Hom(k, Sigs(d)[i])]
    OBVIOUS
  <1>8. p \in Seq(Text) /\ Len(p) = n /\ \A i \in 1..n : p[i] = Hom(k, Sigs(d)[i])
    <2>1. ASSUME NEW i \in 1..n PROVE Hom(k, Sigs(d)[i]) \in Text
      <3>1. Sigs(d)[i] \in Text
        BY <1>3, InSeq
      <3> QED
        BY <1>1, <3>1, HomPieces
    <2>2. p \in [1..n -> Text]
      BY <1>7, <2>1, Zenon
    <2>3. \A i \in 1..n : p[i] = Hom(k, Sigs(d)[i])
      BY <1>7, Zenon
    <2>4. p \in Seq(Text) /\ Len(p) = n
      <3>1. DOMAIN p = 1..n
        BY <1>7, Zenon
      <3> QED
        BY <2>2, <3>1
    <2> QED
      BY <2>3, <2>4
  <1>9. AllWords(p, q, n)
    <2>1. ASSUME NEW j \in 0..(n - 1) PROVE IsSigWord(p[j + 1], q[j + 1])
      <3>1. PICK i \in 1..n : i = j + 1
        OBVIOUS
      <3>2. p[i] = Hom(k, TypeSig(d.args[i]))
        BY <1>3, <1>8, Zenon
      <3>3. IsSigWord(p[i], q[i])
        BY <1>5, <3>2, Zenon DEF IsReadAs
      <3> QED
        BY <3>1, <3>3, Zenon
    <2> QED
      BY <1>6, <1>8, <2>1, Zenon DEF AllWords
  <1>10. Hom(k, ArgSigs(d)) = FlattenSeq(p)
    <2>1. PICK r \in Seq(Text) : r = Sigs(d)
      BY <1>3
    <2>2. p \in Seq(Text) /\ Len(p) = Len(r) /\ \A i \in 1..Len(r) : p[i] = Hom(k, r[i])
      BY <1>3, <1>8, <2>1, Zenon
    <2>3. Hom(k, FlattenSeq(r)) = FlattenSeq(p)
      BY <1>1, <2>2, HomFlatten
    <2> QED
      BY <1>3, <2>1, <2>3, Zenon
  <1>11. split_args_sig(FlattenSeq(p)) = [ok |-> "yes", args |-> q]
    BY <1>9, SplitWords
  <1>12. TypesReadAs(q, d)
    <2>1. \A i \in 1..n : KindRead(q[i], d.args[i])
      BY <1>5, Zenon DEF IsReadAs
    <2> QED
      BY <1>2, <1>3, <1>6, <2>1, Zenon DEF TypesReadAs
  <1> QED
    BY <1>10, <1>11, <1>12, Zenon

LEMMA TypesRead ==
    ASSUME NEW d \in Decl, ArgSigs(d) \in Without({"$"})
    PROVE  \E q : /\ split_args_sig(replace_all(replace_all(Hom(Mangling, ArgSigs(d)), <<"_", "2">>, <<";">>),
                                                <<"_", "3">>, <<"[">>)) = [ok |-> "yes", args |-> q]
                  /\ TypesReadAs(q, d)
  <1>1. PICK u, e, b, o, s, z0, z1, z2, z3 : AreSigns(u, e, b, o, s, z0, z1, z2, z3)
    <2>1. AreSigns("_", ";", "[", "$", "/", "0", "1", "2", "3")
      BY Zenon DEF AreSigns
    <2> QED
      BY <2>1, Zenon
  <1>2. PICK Z : Z = ArgSigs(d)
    OBVIOUS
  <1>3. Z \in Slashed(Begin) /\ Z \in Without({o})
    <2>1. o = "$"
      BY <1>1, Zenon DEF AreSigns
    <2> QED
      BY <1>2, <2>1, ArgsBegin, Zenon
  <1>4. PICK k : /\ IsOut(k, u, u, s, z1, z1)
                 /\ replace_all(replace_all(Hom(Mangling, Z), <<u, z2>>, <<e>>), <<u, z3>>, <<b>>)
                         = Hom(k, Z)
    BY <1>1, <1>3, TypesUnmangled
  <1>5. PICK c1, c2, c3 : AreTypes(c1, c2, c3)
    <2>1. AreTypes("[", "L", ";")
      BY Zenon DEF AreTypes
    <2> QED
      BY <2>1, Zenon
  <1>6. Leaves(k, c1, c2, c3)
    BY <1>1, <1>4, <1>5, OutLeaves
  <1>7. PICK q : split_args_sig(Hom(k, ArgSigs(d))) = [ok |-> "yes", args |-> q] /\ TypesReadAs(q, d)
    BY <1>5, <1>6, WordsRead
  <1>8. /\ <<u, z2>> = <<"_", "2">> /\ <<e>> = <<";">> /\ <<u, z3>> = <<"_", "3">> /\ <<b>> = <<"[">>
    BY <1>1, Zenon DEF AreSigns
  <1> QED
    BY <1>2, <1>4, <1>7, <1>8, Zenon

-----------------------------------------------------------------------------
(* The letters that mangling is about.                                     *)

\* The letters that mangling is about.
Score == "_"
Semi == ";"
Open == "["
Dollar == "$"
Slash == "/"
Zero == "0"
One == "1"
Escaped == {Score, Semi, Open, Dollar, Slash}

LEMMA Marks ==
    /\ Score \in Letter /\ Slash \in Letter /\ Zero \in Letter /\ One \in Letter /\ Dollar \in Letter
    /\ IsCode(Mangling, Score, Slash)
    /\ \A c \in Letter : Mangling[c][1] = Score <=> c \in Escaped
    /\ \A c \in Letter : Mangling[c][1] = Zero <=> c = Zero
    /\ \A c \in Letter : Len(Mangling[c]) = 2 => Mangling[c][2] # Score /\ (Mangling[c][2] = Zero <=> c = Dollar)
    /\ IsTwo(Mangling[Dollar], Score, Zero) /\ IsTwo(Mangling[Score], Score, One)
    /\ \A c \in Letter : Len(Mangling[c]) \in {1, 2}
    /\ Score # Slash /\ Slash # Dollar /\ Score # Dollar /\ Zero \notin {Slash, Score, Dollar}
    /\ Mangling[Slash] = <<Score>> /\ Mangling \in [Letter -> Text]
  <1>1. PICK z2, z3 : AreSigns(Score, Semi, Open, Dollar, Slash, Zero, One, z2, z3)
    <2>1. AreSigns(Score, Semi, Open, Dollar, Slash, Zero, One, "2", "3")
      BY Zenon DEF AreSigns, Score, Semi, Open, Dollar, Slash, Zero, One
    <2> QED
      BY <2>1, Zenon
  <1>2. Apart(Score, Semi, Open, Dollar, Slash, Zero, One, z2, z3)
    BY <1>1, SignsApart
  <1>3. IsMangling(Mangling, Score, Semi, Open, Dollar, Slash, Zero, One, z2, z3)
    BY <1>1, ManglingIs
  <1>4. /\ IsCode(Mangling, Score, Slash)
        /\ \A c \in Letter : Mangling[c][1] = Score <=> c \in {Score, Semi, Open, Dollar, Slash}
        /\ \A c \in Letter : Mangling[c][1] = Zero <=> c = Zero
        /\ \A c \in Letter : Len(Mangling[c]) = 2 => Mangling[c][2] # Score /\ (Mangling[c][2] = Zero <=> c = Dollar)
    BY <1>2, <1>3, ManglingCode
  <1>5. /\ Score \in Letter /\ Slash \in Letter /\ Zero \in Letter /\ One \in Letter /\ Dollar \in Letter
        /\ Score # Slash /\ Slash # Dollar /\ Score # Dollar /\ Zero \notin {Slash, Score, Dollar}
    BY <1>2, Zenon DEF Apart
  <1>6. /\ Mangling[Dollar] = <<Score, Zero>> /\ Mangling[Score] = <<Score, One>>
        /\ Mangling[Slash] = <<Score>> /\ Mangling \in [Letter -> Text]
    BY <1>3, Zenon DEF IsMangling
  <1>7. IsTwo(<<Score, Zero>>, Score, Zero) /\ IsTwo(<<Score, One>>, Score, One)
    BY <1>5, TwoIs
  <1>8. \A c \in Letter : Len(Mangling[c]) \in {1, 2}
    BY <1>4, Zenon DEF IsCode
  <1> QED
    BY <1>4, <1>5, <1>6, <1>7, <1>8, Zenon DEF Escaped

\* A symbol: the code of the name Z, the block of its letter k + 1 at T[k].
IsSymbol(X, L, T, Z, n) == IsCoded(X, L, T, Z, n, Mangling)
Doubled == <<Score, Score>>
Refused == <<Score, Zero>>

LEMMA Patterns ==
    /\ IsTwo(Doubled, Score, Score) /\ IsTwo(Refused, Score, Zero)
    /\ Doubled = <<"_", "_">> /\ Refused = <<"_", "0">>
  <1>1. IsTwo(<<Score, Score>>, Score, Score) /\ IsTwo(<<Score, Zero>>, Score, Zero)
    BY Marks, TwoIs
  <1> QED
    BY <1>1, Zenon DEF Doubled, Refused, Score, Zero

LEMMA SymbolExists ==
    ASSUME NEW Z \in Text
    PROVE  \E L, T, n : IsSymbol(Hom(Mangling, Z), L, T, Z, n)
  <1>1. PICK X : X = Hom(Mangling, Z)
    OBVIOUS
  <1>2. PICK n \in Nat : n = Len(Z)
    BY TextIs
  <1>3. PICK T : IsCoded(X, Len(X), T, Z, n, Mangling)
    BY <1>1, <1>2, Marks, CodedExists
  <1> QED
    BY <1>1, <1>3, Zenon DEF IsSymbol

LEMMA SymbolIs ==
    ASSUME NEW X, NEW L, NEW T, NEW Z, NEW n, IsSymbol(X, L, T, Z, n)
    PROVE  /\ X \in Text /\ L \in Nat /\ L = Len(X) /\ Z \in Text /\ n \in Nat /\ n = Len(Z)
           /\ T[0] = 0 /\ T[n] = L /\ \A k \in 0..n : T[k] \in 0..L
           /\ \A k \in 0..(n - 1) :
                 /\ Z[k + 1] \in Letter /\ T[k + 1] = T[k] + Len(Mangling[Z[k + 1]])
                 /\ \A j \in 1..Len(Mangling[Z[k + 1]]) : X[T[k] + j] = Mangling[Z[k + 1]][j]
                 /\ T[k + 1] \in 0..L /\ T[k] \in 0..L
                 /\ Len(Mangling[Z[k + 1]]) \in {1, 2}
  <1>1. IsCoded(X, L, T, Z, n, Mangling)
    BY DEF IsSymbol
  <1>2. /\ X \in Text /\ L \in Nat /\ L = Len(X) /\ Z \in Text /\ n \in Nat /\ n = Len(Z)
        /\ T[0] = 0 /\ T[n] = L /\ \A k \in 0..n : T[k] \in 0..L
        /\ \A k \in 0..(n - 1) :
                 /\ Z[k + 1] \in Letter /\ T[k + 1] = T[k] + Len(Mangling[Z[k + 1]])
                 /\ \A j \in 1..Len(Mangling[Z[k + 1]]) : X[T[k] + j] = Mangling[Z[k + 1]][j]
    BY <1>1, Zenon DEF IsCoded
  <1>3. ASSUME NEW k \in 0..(n - 1) PROVE k \in 0..n /\ k + 1 \in 0..n
    BY <1>2
  <1>4. \A c \in Letter : Len(Mangling[c]) \in {1, 2}
    BY Marks, Zenon
  <1> QED
    BY <1>2, <1>3, <1>4, Zenon

\* Where two names begin alike, their blocks lie alike.
LEMMA CodedPrefix ==
    ASSUME NEW X, NEW L, NEW T, NEW Z, NEW n, IsSymbol(X, L, T, Z, n),
           NEW Y, NEW a, NEW S, NEW N, NEW m, IsSymbol(Y, a, S, N, m), m <= n,
           \A k \in 0..(m - 1) : Z[k + 1] = N[k + 1]
    PROVE  T[m] = a
  <1>1. n \in Nat /\ m \in Nat /\ T[0] = 0 /\ S[0] = 0 /\ S[m] = a
    BY SymbolIs
  <1>2. \A k \in 0..(n - 1) : T[k + 1] = T[k] + Len(Mangling[Z[k + 1]])
    BY SymbolIs
  <1>3. \A k \in 0..(m - 1) : S[k + 1] = S[k] + Len(Mangling[N[k + 1]])
    BY SymbolIs
  <1>4. PICK V : V = {k \in 0..m : T[k] = S[k]}
    OBVIOUS
  <1>5. 0 \in V
    BY <1>1, <1>4
  <1>6. ASSUME NEW k \in 0..(m - 1), k \in V PROVE k + 1 \in V
    <2>1. k \in 0..(n - 1) /\ k + 1 \in 0..m
      BY <1>1
    <2>2. T[k] = S[k]
      BY <1>4, <1>6
    <2>3. T[k + 1] = S[k + 1]
      BY <1>2, <1>3, <2>1, <2>2, Zenon
    <2> QED
      BY <1>4, <2>1, <2>3
  <1>7. \A k \in 0..m : k \in V
    BY <1>1, <1>5, <1>6, Induct
  <1>8. m \in V
    BY <1>1, <1>7
  <1> QED
    BY <1>1, <1>4, <1>8

\* The letter "$" makes the parser refuse the symbol.
LEMMA DollarHit ==
    ASSUME NEW X, NEW L, NEW T, NEW Z, NEW n, IsSymbol(X, L, T, Z, n),
           NEW i \in 0..(n - 1), Z[i + 1] = Dollar
    PROVE  Find(X, Refused) # 0
  <1>1. IsTwo(Mangling[Dollar], Score, Zero)
    BY Marks
  <1>2. Len(Mangling[Dollar]) = 2 /\ Mangling[Dollar][1] = Score /\ Mangling[Dollar][2] = Zero
    BY <1>1 DEF IsTwo
  <1>3. X \in Text /\ L \in Nat /\ L = Len(X)
    BY SymbolIs
  <1>4. /\ T[i + 1] = T[i] + Len(Mangling[Z[i + 1]])
        /\ \A j \in 1..Len(Mangling[Z[i + 1]]) : X[T[i] + j] = Mangling[Z[i + 1]][j]
        /\ T[i + 1] \in 0..L /\ T[i] \in 0..L
    BY SymbolIs
  <1>5. X[T[i] + 1] = Score /\ X[T[i] + 2] = Zero /\ T[i + 1] = T[i] + 2
    <2>1. 1 \in 1..2 /\ 2 \in 1..2
      OBVIOUS
    <2> QED
      BY <1>2, <1>4, <2>1, Zenon
  <1>6. PICK k \in Nat \ {0} : k = T[i] + 1 /\ k + 1 = T[i] + 2 /\ k + 1 <= L
    BY <1>3, <1>4, <1>5
  <1>7. IsTwo(Refused, Score, Zero)
    BY Patterns
  <1>8. Hit(X, Refused, k)
    BY <1>3, <1>5, <1>6, <1>7, HitTwo
  <1>9. k \in 1..L
    BY <1>3, <1>6
  <1>10. CASE FindFrom(X, Refused, 1) = 0 /\ \A j \in 1..L : ~ Hit(X, Refused, j)
    BY <1>8, <1>9, <1>10
  <1>11. CASE FindFrom(X, Refused, 1) \in 1..L
    BY <1>3, <1>11 DEF Find
  <1> QED
    BY <1>3, <1>10, <1>11, FindIs

-----------------------------------------------------------------------------
(* What an occurrence of two letters in a symbol stands for.               *)

LEMMA SymbolGrows ==
    ASSUME NEW X, NEW L, NEW T, NEW Z, NEW n, IsSymbol(X, L, T, Z, n),
           NEW i \in 0..n, NEW j \in 0..n, i < j
    PROVE  T[i] < T[j]
  <1>1. IsCode(Mangling, Score, Slash)
    BY Marks
  <1>2. IsCoded(X, L, T, Z, n, Mangling)
    BY DEF IsSymbol
  <1>3. PICK m \in Nat : m = n
    BY SymbolIs
  <1>4. i \in 0..m /\ j \in 0..m /\ IsCoded(X, L, T, Z, m, Mangling)
    BY <1>2, <1>3
  <1> QED
    BY <1>1, <1>4, CodeGrows

LEMMA HitFrom ==
    ASSUME NEW X, NEW L, NEW T, NEW Z, NEW n, IsSymbol(X, L, T, Z, n),
           NEW w, NEW c, IsTwo(w, Score, c), NEW k \in 1..L, Hit(X, w, k)
    PROVE  \E i \in 0..(n - 1) :
              /\ k = T[i] + 1
              /\ \/ Len(Mangling[Z[i + 1]]) = 2 /\ Mangling[Z[i + 1]][2] = c
                 \/ Z[i + 1] = Slash /\ i + 1 < n /\ Mangling[Z[i + 2]][1] = c
  <1>1. IsCode(Mangling, Score, Slash)
    BY Marks
  <1>2. IsCoded(X, L, T, Z, n, Mangling)
    BY DEF IsSymbol
  <1>3. n \in Nat
    BY SymbolIs
  <1> QED
    BY <1>1, <1>2, <1>3, CodeHit

LEMMA NextLetter ==
    ASSUME NEW X, NEW L, NEW T, NEW Z, NEW n, IsSymbol(X, L, T, Z, n), NEW i \in 0..(n - 1), i + 1 < n
    PROVE  /\ Z[i + 2] \in Letter /\ T[i + 2] = T[i + 1] + Len(Mangling[Z[i + 2]])
           /\ \A j \in 1..Len(Mangling[Z[i + 2]]) : X[T[i + 1] + j] = Mangling[Z[i + 2]][j]
           /\ T[i + 2] \in 0..L /\ T[i + 1] \in 0..L
           /\ Len(Mangling[Z[i + 2]]) \in {1, 2}
  <1>1. n \in Nat
    BY SymbolIs
  <1>2. PICK h \in 0..(n - 1) : h = i + 1 /\ h + 1 = i + 2
    BY <1>1
  <1>3. /\ Z[h + 1] \in Letter /\ T[h + 1] = T[h] + Len(Mangling[Z[h + 1]])
        /\ \A j \in 1..Len(Mangling[Z[h + 1]]) : X[T[h] + j] = Mangling[Z[h + 1]][j]
        /\ T[h + 1] \in 0..L /\ T[h] \in 0..L
        /\ Len(Mangling[Z[h + 1]]) \in {1, 2}
    BY SymbolIs
  <1> QED
    BY <1>2, <1>3, Zenon

\* "__" in a symbol is a slash before a letter with an escape.
LEMMA DoubledFrom ==
    ASSUME NEW X, NEW L, NEW T, NEW Z, NEW n, IsSymbol(X, L, T, Z, n), NEW k \in 1..L, Hit(X, Doubled, k)
    PROVE  \E i \in 0..(n - 1) :
              k = T[i] + 1 /\ Z[i + 1] = Slash /\ i + 1 < n /\ Z[i + 2] \in Escaped
  <1>1. IsTwo(Doubled, Score, Score)
    BY Patterns
  <1>2. PICK i \in 0..(n - 1) :
              /\ k = T[i] + 1
              /\ \/ Len(Mangling[Z[i + 1]]) = 2 /\ Mangling[Z[i + 1]][2] = Score
                 \/ Z[i + 1] = Slash /\ i + 1 < n /\ Mangling[Z[i + 2]][1] = Score
    BY <1>1, HitFrom
  <1>3. Z[i + 1] \in Letter
    BY SymbolIs
  <1>4. ~ (Len(Mangling[Z[i + 1]]) = 2 /\ Mangling[Z[i + 1]][2] = Score)
    BY <1>3, Marks, Zenon
  <1>5. Z[i + 1] = Slash /\ i + 1 < n /\ Mangling[Z[i + 2]][1] = Score
    BY <1>2, <1>4, Zenon
  <1>6. Z[i + 2] \in Letter
    BY <1>5, NextLetter
  <1>7. Z[i + 2] \in Escaped
    BY <1>5, <1>6, Marks, Zenon
  <1> QED
    BY <1>2, <1>5, <1>7, Zenon

\* "_0" is "$", or a slash before the letter "0".
LEMMA RefusedFrom ==
    ASSUME NEW X, NEW L, NEW T, NEW Z, NEW n, IsSymbol(X, L, T, Z, n), NEW k \in 1..L, Hit(X, Refused, k)
    PROVE  \E i \in 0..(n - 1) :
              Z[i + 1] = Dollar \/ (Z[i + 1] = Slash /\ i + 1 < n /\ Z[i + 2] = Zero)
  <1>1. IsTwo(Refused, Score, Zero)
    BY Patterns
  <1>2. PICK i \in 0..(n - 1) :
              /\ k = T[i] + 1
              /\ \/ Len(Mangling[Z[i + 1]]) = 2 /\ Mangling[Z[i + 1]][2] = Zero
                 \/ Z[i + 1] = Slash /\ i + 1 < n /\ Mangling[Z[i + 2]][1] = Zero
    BY <1>1, HitFrom
  <1>3. Z[i + 1] \in Letter
    BY SymbolIs
  <1>4. CASE Len(Mangling[Z[i + 1]]) = 2 /\ Mangling[Z[i + 1]][2] = Zero
    <2>1. Z[i + 1] = Dollar
      BY <1>3, <1>4, Marks, Zenon
    <2> QED
      BY <2>1, Zenon
  <1>5. CASE Z[i + 1] = Slash /\ i + 1 < n /\ Mangling[Z[i + 2]][1] = Zero
    <2>1. Z[i + 2] \in Letter
      BY <1>5, NextLetter
    <2>2. Z[i + 2] = Zero
      BY <1>5, <2>1, Marks, Zenon
    <2> QED
      BY <1>5, <2>2, Zenon
  <1> QED
    BY <1>2, <1>4, <1>5, Zenon

\* A slash before a letter with an escape is "__", and before "_" it is "__1".
LEMMA SlashDoubles ==
    ASSUME NEW X, NEW L, NEW T, NEW Z, NEW n, IsSymbol(X, L, T, Z, n), NEW i \in 0..(n - 1), i + 1 < n,
           Z[i + 1] = Slash, Z[i + 2] \in Escaped
    PROVE  /\ Hit(X, Doubled, T[i] + 1) /\ T[i] + 1 \in 1..L /\ T[i + 1] = T[i] + 1
           /\ Z[i + 2] = Score => T[i] + 3 \in 1..L /\ X[T[i] + 3] = One
  <1>1. /\ Z[i + 2] \in Letter /\ T[i + 2] = T[i + 1] + Len(Mangling[Z[i + 2]])
        /\ \A j \in 1..Len(Mangling[Z[i + 2]]) : X[T[i + 1] + j] = Mangling[Z[i + 2]][j]
        /\ T[i + 2] \in 0..L /\ T[i + 1] \in 0..L
        /\ Len(Mangling[Z[i + 2]]) \in {1, 2}
    BY NextLetter
  <1>2. /\ T[i + 1] = T[i] + Len(Mangling[Z[i + 1]]) /\ T[i] \in 0..L
        /\ \A j \in 1..Len(Mangling[Z[i + 1]]) : X[T[i] + j] = Mangling[Z[i + 1]][j]
        /\ X \in Text /\ L \in Nat /\ L = Len(X)
    BY SymbolIs
  <1>3. Mangling[Slash] = <<Score>> /\ Len(<<Score>>) = 1 /\ <<Score>>[1] = Score
    BY Marks, Char
  <1>4. Len(Mangling[Z[i + 1]]) = 1 /\ Mangling[Z[i + 1]][1] = Score
    BY <1>3, Zenon
  <1>5. T[i + 1] = T[i] + 1 /\ X[T[i] + 1] = Score
    <2>1. 1 \in 1..1
      OBVIOUS
    <2> QED
      BY <1>2, <1>4, <2>1, Zenon
  <1>6. Mangling[Z[i + 2]][1] = Score
    BY <1>1, Marks, Zenon
  <1>7. X[T[i + 1] + 1] = Score
    <2>1. 1 \in 1..Len(Mangling[Z[i + 2]])
      <3>1. PICK m \in {1, 2} : m = Len(Mangling[Z[i + 2]])
        BY <1>1, Zenon
      <3>2. 1 \in 1..m
        OBVIOUS
      <3> QED
        BY <3>1, <3>2, Zenon
    <2> QED
      BY <1>1, <1>6, <2>1, Zenon
  <1>8. PICK k \in Nat \ {0} : k = T[i] + 1 /\ k + 1 = T[i + 1] + 1
    BY <1>2, <1>5
  <1>9. k + 1 <= L
    <2>1. PICK m \in {1, 2} : m = Len(Mangling[Z[i + 2]])
      BY <1>1, Zenon
    <2>2. T[i + 2] = T[i + 1] + m /\ T[i + 2] \in 0..L /\ T[i + 1] \in 0..L /\ L \in Nat
      BY <1>1, <1>2, <2>1, Zenon
    <2>3. k + 1 = T[i + 1] + 1
      BY <1>8, Zenon
    <2> QED
      BY <2>2, <2>3
  <1>10. IsTwo(Doubled, Score, Score)
    BY Patterns
  <1>11. Hit(X, Doubled, k)
    <2>1. X[k] = Score /\ X[k + 1] = Score
      BY <1>5, <1>7, <1>8, Zenon
    <2>2. X \in Text /\ L \in Nat /\ L = Len(X)
      BY <1>2, Zenon
    <2> QED
      BY <1>9, <1>10, <2>1, <2>2, HitTwo
  <1>12. ASSUME Z[i + 2] = Score PROVE T[i] + 3 \in 1..L /\ X[T[i] + 3] = One
    <2>1. IsTwo(Mangling[Score], Score, One)
      BY Marks
    <2>2. Len(Mangling[Score]) = 2 /\ Mangling[Score][2] = One
      BY <2>1 DEF IsTwo
    <2>3. Len(Mangling[Z[i + 2]]) = 2 /\ Mangling[Z[i + 2]][2] = One
      BY <1>12, <2>2, Zenon
    <2>4. X[T[i + 1] + 2] = One /\ T[i + 2] = T[i + 1] + 2
      <3>1. 2 \in 1..2
        OBVIOUS
      <3> QED
        BY <1>1, <2>3, <3>1, Zenon
    <2>5. T[i] + 3 = T[i + 1] + 2 /\ T[i] + 3 \in 1..L
      BY <1>1, <1>2, <1>5, <2>4
    <2> QED
      BY <2>4, <2>5, Zenon
  <1>13. T[i] + 1 \in 1..L
    BY <1>2, <1>8, <1>9
  <1> QED
    BY <1>5, <1>8, <1>11, <1>12, <1>13, Zenon

-----------------------------------------------------------------------------
(* The pieces of a split text.                                             *)

\* The pieces behind a position: at least one, but behind the end.
LEMMA SplitParts ==
    ASSUME NEW s \in Text, NEW w, NEW u, NEW c, IsTwo(w, u, c), NEW n \in Nat, n = Len(s),
           NEW R, IsSplit(R, s, w, n)
    PROVE  \A i \in 1..(n + 1) : R[i] \in Seq(Text) /\ (i <= n => Len(R[i]) # 0)
  <1>1. w \in Text /\ Len(w) = 2
    BY DEF IsTwo
  <1>2. /\ R[n + 1] = <<>>
        /\ \A i \in 1..n :
              R[i] = IF FindFrom(s, w, i) = 0 THEN <<SubSeq(s, i, n)>>
                     ELSE <<SubSeq(s, i, FindFrom(s, w, i) - 1)>> \o R[FindFrom(s, w, i) + Len(w)]
    BY Zenon DEF IsSplit
  <1>3. PICK V : V = {k \in 0..n : \A i \in (k + 1)..(n + 1) : R[i] \in Seq(Text) /\ (i <= n => Len(R[i]) # 0)}
    OBVIOUS
  <1>4. n \in V
    <2>1. <<>> \in Seq(Text)
      OBVIOUS
    <2>2. ASSUME NEW i \in (n + 1)..(n + 1) PROVE R[i] \in Seq(Text) /\ (i <= n => Len(R[i]) # 0)
      <3>1. i = n + 1 /\ ~ (i <= n)
        OBVIOUS
      <3> QED
        BY <1>2, <2>1, <3>1, Zenon
    <2>3. n \in 0..n
      OBVIOUS
    <2> QED
      BY <1>3, <2>2, <2>3, Zenon
  <1>5. ASSUME NEW k \in 1..n, k \in V PROVE k - 1 \in V
    <2>1. \A i \in (k + 1)..(n + 1) : R[i] \in Seq(Text) /\ (i <= n => Len(R[i]) # 0)
      BY <1>3, <1>5, Zenon
    <2>2. R[k] \in Seq(Text) /\ Len(R[k]) # 0
      <3>1. CASE FindFrom(s, w, k) = 0
        <4>1. SubSeq(s, k, n) \in Text
          BY SubText
        <4>2. R[k] = <<SubSeq(s, k, n)>>
          BY <1>2, <3>1, Zenon
        <4>3. PICK x \in Text : x = SubSeq(s, k, n)
          BY <4>1
        <4>4. <<x>> \in Seq(Text) /\ Len(<<x>>) = 1
          OBVIOUS
        <4> QED
          BY <4>2, <4>3, <4>4
      <3>2. CASE FindFrom(s, w, k) # 0
        <4>1. FindFrom(s, w, k) \in k..n /\ Hit(s, w, FindFrom(s, w, k))
          BY <3>2, FindIs
        <4>2. PICK r \in k..n : r = FindFrom(s, w, k)
          BY <4>1
        <4>3. r \in Nat \ {0} /\ r + Len(w) - 1 <= Len(s)
          <5>1. r \in Nat \ {0} /\ Hit(s, w, r)
            BY <4>1, <4>2
          <5> QED
            BY <1>1, <5>1, HitIs
        <4>4. r + 2 \in (k + 1)..(n + 1)
          BY <1>1, <4>2, <4>3
        <4>5. R[r + 2] \in Seq(Text)
          BY <2>1, <4>4
        <4>6. r - 1 \in Nat /\ r - 1 <= Len(s) /\ k <= (r - 1) + 1 /\ k \in Nat \ {0}
          BY <4>3
        <4>7. SubSeq(s, k, r - 1) \in Text
          BY <4>6, SubText
        <4>8. R[k] = <<SubSeq(s, k, r - 1)>> \o R[r + 2]
          BY <1>1, <1>2, <3>2, <4>2, Zenon
        <4>9. PICK x \in Text : x = SubSeq(s, k, r - 1)
          BY <4>7
        <4>10. PICK y \in Seq(Text) : y = R[r + 2]
          BY <4>5
        <4>11. <<x>> \in Seq(Text) /\ Len(<<x>>) = 1 /\ Len(y) \in Nat
          OBVIOUS
        <4>12. <<x>> \o y \in Seq(Text) /\ Len(<<x>> \o y) = 1 + Len(y)
          BY <4>11, CatSeq
        <4> QED
          BY <4>8, <4>9, <4>10, <4>11, <4>12
      <3> QED
        BY <3>1, <3>2
    <2>3. ASSUME NEW i \in ((k - 1) + 1)..(n + 1) PROVE R[i] \in Seq(Text) /\ (i <= n => Len(R[i]) # 0)
      <3>1. i = k \/ i \in (k + 1)..(n + 1)
        OBVIOUS
      <3> QED
        BY <2>1, <2>2, <3>1, Zenon
    <2>4. k - 1 \in 0..n
      OBVIOUS
    <2> QED
      BY <1>3, <2>3, <2>4, Zenon
  <1>6. \A k \in 0..n : k \in V
    BY <1>4, <1>5, InductDown
  <1>7. 0 \in V
    BY <1>6
  <1>8. \A i \in (0 + 1)..(n + 1) : R[i] \in Seq(Text) /\ (i <= n => Len(R[i]) # 0)
    BY <1>3, <1>7, Zenon
  <1> QED
    BY <1>8

LEMMA SplitNone ==
    ASSUME NEW s \in Text, NEW w \in Text, Len(w) # 0, s # <<>>, Find(s, w) = 0
    PROVE  string_split(s, w) = <<s>>
  <1>1. PICK n \in Nat : n = Len(s)
    BY TextIs
  <1>2. PICK R : string_split(s, w) = R[1] /\ IsSplit(R, s, w, n)
    BY <1>1, SplitIs
  <1>3. 1 \in 1..n /\ n <= Len(s)
    BY <1>1, TextIs
  <1>4. R[1] = <<SubSeq(s, 1, n)>>
    <2>1. FindFrom(s, w, 1) = 0
      BY Zenon DEF Find
    <2>2. R[1] = IF FindFrom(s, w, 1) = 0 THEN <<SubSeq(s, 1, n)>>
                     ELSE <<SubSeq(s, 1, FindFrom(s, w, 1) - 1)>> \o R[FindFrom(s, w, 1) + Len(w)]
      BY <1>2, <1>3, Zenon DEF IsSplit
    <2> QED
      BY <2>1, <2>2, Zenon
  <1>5. SubSeq(s, 1, n) = s
    <2>1. 1 \in Nat \ {0} /\ 1 <= n + 1 /\ (n + 1) - 1 = n
      OBVIOUS
    <2>2. /\ SubSeq(s, 1, n) \in Text /\ Len(SubSeq(s, 1, n)) = n
          /\ \A i \in 1..n : SubSeq(s, 1, n)[i] = s[i]
      <3>1. /\ SubSeq(s, 1, n) \in Text /\ Len(SubSeq(s, 1, n)) = n + 1 - 1
            /\ \A i \in 1..(n + 1 - 1) : SubSeq(s, 1, n)[i] = s[1 + i - 1]
        BY <1>3, <2>1, SubText
      <3> QED
        BY <3>1
    <2> QED
      BY <1>1, <2>2, Same
  <1> QED
    BY <1>2, <1>4, <1>5, Zenon

\* A replacement of a pair of letters: a text that still begins with another letter.
LEMMA ReplaceText ==
    ASSUME NEW s \in Text, NEW old, NEW u, NEW c, IsTwo(old, u, c), NEW new \in Text
    PROVE  /\ replace_all(s, old, new) \in Text
           /\ s # <<>> /\ s[1] # u => replace_all(s, old, new) # <<>> /\ replace_all(s, old, new)[1] = s[1]
  <1>1. PICK n \in Nat : n = Len(s)
    BY TextIs
  <1>2. old \in Text /\ Len(old) = 2 /\ old[1] = u
    BY DEF IsTwo
  <1>3. PICK R : replace_all(s, old, new) = R[1] /\ IsReplace(R, s, old, new, n)
    BY <1>1, <1>2, ReplaceIs
  <1>4. /\ \A i \in 1..n : R[i] = IF Hit(s, old, i) THEN new \o R[i + Len(old)] ELSE <<s[i]>> \o R[i + 1]
        /\ R[n + 1] = <<>>
    BY <1>3, Zenon DEF IsReplace
  <1>5. PICK V : V = {k \in 0..n : \A i \in (k + 1)..(n + 1) : R[i] \in Text}
    OBVIOUS
  <1>6. n \in V
    <2>1. \A i \in (n + 1)..(n + 1) : R[i] \in Text
      BY <1>4, Empty
    <2> QED
      BY <1>5, <2>1
  <1>7. ASSUME NEW k \in 1..n, k \in V PROVE k - 1 \in V
    <2>1. \A i \in (k + 1)..(n + 1) : R[i] \in Text
      BY <1>5, <1>7, Zenon
    <2>2. R[k] \in Text
      <3>1. CASE Hit(s, old, k)
        <4>1. k \in Nat \ {0}
          OBVIOUS
        <4>2. k + Len(old) - 1 <= Len(s)
          BY <1>2, <3>1, <4>1, HitIs
        <4>3. k + 2 \in (k + 1)..(n + 1)
          BY <1>1, <1>2, <4>2
        <4>4. R[k + 2] \in Text
          BY <2>1, <4>3
        <4>5. R[k] = new \o R[k + 2]
          BY <1>2, <1>4, <3>1, Zenon
        <4>6. new \o R[k + 2] \in Text
          BY <4>4, Cat
        <4> QED
          BY <4>5, <4>6, Zenon
      <3>2. CASE ~ Hit(s, old, k)
        <4>1. k + 1 \in (k + 1)..(n + 1)
          OBVIOUS
        <4>2. R[k + 1] \in Text
          BY <2>1, <4>1
        <4>3. R[k] = <<s[k]>> \o R[k + 1]
          BY <1>4, <3>2, Zenon
        <4>4. s[k] \in Letter
          BY <1>1, TextIs
        <4>5. <<s[k]>> \in Text
          BY <4>4, Char
        <4>6. <<s[k]>> \o R[k + 1] \in Text
          BY <4>2, <4>5, Cat
        <4> QED
          BY <4>3, <4>6, Zenon
      <3> QED
        BY <3>1, <3>2
    <2>3. ASSUME NEW i \in ((k - 1) + 1)..(n + 1) PROVE R[i] \in Text
      <3>1. i = k \/ i \in (k + 1)..(n + 1)
        OBVIOUS
      <3> QED
        BY <2>1, <2>2, <3>1, Zenon
    <2>4. k - 1 \in 0..n
      OBVIOUS
    <2> QED
      BY <1>5, <2>3, <2>4, Zenon
  <1>8. \A k \in 0..n : k \in V
    BY <1>6, <1>7, InductDown
  <1>9. 0 \in V
    BY <1>8
  <1>10. \A i \in (0 + 1)..(n + 1) : R[i] \in Text
    BY <1>5, <1>9, Zenon
  <1>11. R[1] \in Text
    BY <1>10
  <1>12. ASSUME s # <<>>, s[1] # u PROVE R[1] # <<>> /\ R[1][1] = s[1]
    <2>1. 1 \in 1..n /\ 2 \in 1..(n + 1)
      BY <1>1, <1>12, TextIs
    <2>2. R[2] \in Text
      BY <1>10, <2>1
    <2>3. ~ Hit(s, old, 1)
      <3>1. ASSUME Hit(s, old, 1) PROVE FALSE
        <4>1. \A j \in 1..Len(old) : s[1 + j - 1] = old[j]
          <5>1. PICK k \in Nat \ {0} : k = 1
            OBVIOUS
          <5>2. \A j \in 1..Len(old) : s[k + j - 1] = old[j]
            BY <1>2, <3>1, <5>1, HitIs
          <5> QED
            BY <5>1, <5>2, Zenon
        <4>2. s[1] = old[1]
          <5>1. 1 \in 1..2 /\ (1 + 1) - 1 = 1
            OBVIOUS
          <5>2. s[1 + 1 - 1] = old[1]
            BY <1>2, <4>1, <5>1, Zenon
          <5> QED
            BY <5>2
        <4> QED
          BY <1>2, <1>12, <4>2
      <3> QED
        BY <3>1
    <2>4. R[1] = <<s[1]>> \o R[2]
      <3>1. R[1] = <<s[1]>> \o R[1 + 1]
        BY <1>4, <2>1, <2>3, Zenon
      <3> QED
        BY <3>1
    <2>5. PICK a \in Letter : a = s[1]
      BY <1>1, <2>1, TextIs
    <2>6. <<a>> \in Text /\ Len(<<a>>) = 1 /\ <<a>>[1] = a
      BY Char
    <2>7. Len(<<a>> \o R[2]) = Len(<<a>>) + Len(R[2]) /\ \A i \in 1..Len(<<a>>) : (<<a>> \o R[2])[i] = <<a>>[i]
      BY <2>2, <2>6, Cat
    <2>8. Len(R[2]) \in Nat
      BY <2>2, TextIs
    <2>9. PICK x : x = <<a>> \o R[2]
      OBVIOUS
    <2>10. Len(x) # 0 /\ x[1] = a
      BY <2>6, <2>7, <2>8, <2>9
    <2>11. x # <<>>
      BY <2>10, Empty
    <2> QED
      BY <2>4, <2>5, <2>9, <2>10, <2>11, Zenon
  <1> QED
    BY <1>3, <1>11, <1>12, Zenon

-----------------------------------------------------------------------------
(* parse_java_lang_name by cases.                                          *)

\* The two parts of a symbol as the parser takes them.
NamesOf(p) == SplitName(replace_all(replace_all(p, <<"_">>, <<".">>), <<".", "1">>, <<"_">>))
TypesOf(p) == split_args_sig(replace_all(replace_all(p, <<"_", "2">>, <<";">>), <<"_", "3">>, <<"[">>))
Found(names, args, override) ==
    [ok |-> "yes", class |-> names.class, method |-> names.method, args |-> args, is_override |-> override]

LEMMA Outcomes ==
    /\ \A a : [ok |-> "yes", args |-> a] # Failed /\ [ok |-> "yes", args |-> a].args = a
    /\ Wild # Failed
    /\ \A names, a, o : /\ Found(names, a, o) # Failed /\ Found(names, a, o) # Wild
                        /\ Found(names, a, o).class = names.class
                        /\ Found(names, a, o).method = names.method
                        /\ Found(names, a, o).args = a /\ Found(names, a, o).is_override = o
  <1>1. Failed.ok = "no" /\ Wild.ok = "wild" /\ "no" # "yes" /\ "wild" # "yes" /\ "wild" # "no"
    BY DEF Failed, Wild
  <1>2. \A a : [ok |-> "yes", args |-> a].ok = "yes" /\ [ok |-> "yes", args |-> a].args = a
    OBVIOUS
  <1>3. \A names, a, o : /\ Found(names, a, o).ok = "yes"
                         /\ Found(names, a, o).class = names.class
                         /\ Found(names, a, o).method = names.method
                         /\ Found(names, a, o).args = a /\ Found(names, a, o).is_override = o
    BY DEF Found
  <1>4. ASSUME NEW a PROVE [ok |-> "yes", args |-> a] # Failed
    BY <1>1, <1>2, Zenon
  <1>5. ASSUME NEW names, NEW a, NEW o PROVE Found(names, a, o) # Failed /\ Found(names, a, o) # Wild
    BY <1>1, <1>3
  <1>6. Wild # Failed
    BY <1>1, Zenon
  <1> QED
    BY <1>2, <1>3, <1>4, <1>5, <1>6

LEMMA ParseIs ==
    ASSUME NEW X
    PROVE  /\ Find(X, Refused) # 0 => parse_java_lang_name(X) = Failed
           /\ Len(string_split(X, Doubled)) \notin {1, 2} => parse_java_lang_name(X) = Failed
           /\ Find(X, Refused) = 0 /\ Find(X, Doubled) # 0 /\ Len(string_split(X, Doubled)) = 1
                 => parse_java_lang_name(X) = Wild
           /\ Find(X, Doubled) # 0 /\ Len(string_split(X, Doubled)) = 2
                 /\ TypesOf(string_split(X, Doubled)[2]) = Failed => parse_java_lang_name(X) = Failed
  <1>1. PICK P : P = string_split(X, Doubled)
    OBVIOUS
  <1>2. parse_java_lang_name(X) =
            LET split == IF Find(X, Doubled) # 0 THEN TypesOf(P[2]) ELSE [ok |-> "yes", args |-> <<>>]
            IN  IF Find(X, Refused) # 0 \/ Len(P) \notin {1, 2} THEN Failed
                ELSE IF Find(X, Doubled) # 0 /\ Len(P) = 1 THEN Wild
                ELSE IF NamesOf(P[1]) = Failed \/ split = Failed THEN Failed
                ELSE Found(NamesOf(P[1]), split.args, Find(X, Doubled) # 0)
    <2>1. /\ Doubled = <<"_", "_">> /\ Refused = <<"_", "0">>
      BY Patterns, Zenon
    <2> QED
      BY <1>1, <2>1, Zenon DEF parse_java_lang_name, TypesOf, NamesOf, Found
  <1>3. Len(P) = 2 => ~ (Len(P) = 1)
    OBVIOUS
  <1>4. Len(P) = 1 => Len(P) \in {1, 2}
    OBVIOUS
  <1> QED
    BY <1>1, <1>2, <1>3, <1>4, Zenon

LEMMA ParseShort ==
    ASSUME NEW X, NEW p, Find(X, Refused) = 0, Find(X, Doubled) = 0, string_split(X, Doubled) = <<p>>,
           NamesOf(p) # Failed
    PROVE  parse_java_lang_name(X) = Found(NamesOf(p), <<>>, FALSE)
  <1>1. PICK P : P = string_split(X, Doubled)
    OBVIOUS
  <1>2. parse_java_lang_name(X) =
            LET split == IF Find(X, Doubled) # 0 THEN TypesOf(P[2]) ELSE [ok |-> "yes", args |-> <<>>]
            IN  IF Find(X, Refused) # 0 \/ Len(P) \notin {1, 2} THEN Failed
                ELSE IF Find(X, Doubled) # 0 /\ Len(P) = 1 THEN Wild
                ELSE IF NamesOf(P[1]) = Failed \/ split = Failed THEN Failed
                ELSE Found(NamesOf(P[1]), split.args, Find(X, Doubled) # 0)
    <2>1. /\ Doubled = <<"_", "_">> /\ Refused = <<"_", "0">>
      BY Patterns, Zenon
    <2> QED
      BY <1>1, <2>1, Zenon DEF parse_java_lang_name, TypesOf, NamesOf, Found
  <1>3. Len(<<p>>) = 1 /\ <<p>>[1] = p /\ 1 \in {1, 2}
    OBVIOUS
  <1>4. P = <<p>> /\ Len(P) \in {1, 2} /\ P[1] = p
    BY <1>1, <1>3, Zenon
  <1>5. [ok |-> "yes", args |-> <<>>] # Failed /\ [ok |-> "yes", args |-> <<>>].args = <<>>
    BY Outcomes, Zenon
  <1>6. (Find(X, Doubled) # 0) = FALSE /\ (Find(X, Refused) # 0) = FALSE
    BY Zenon
  <1> QED
    BY <1>2, <1>4, <1>5, <1>6, Zenon

LEMMA ParseLong ==
    ASSUME NEW X, NEW p, NEW q, Find(X, Refused) = 0, Find(X, Doubled) # 0, string_split(X, Doubled) = <<p, q>>,
           NamesOf(p) # Failed, NEW a, TypesOf(q) = [ok |-> "yes", args |-> a]
    PROVE  parse_java_lang_name(X) = Found(NamesOf(p), a, TRUE)
  <1>1. PICK P : P = string_split(X, Doubled)
    OBVIOUS
  <1>2. parse_java_lang_name(X) =
            LET split == IF Find(X, Doubled) # 0 THEN TypesOf(P[2]) ELSE [ok |-> "yes", args |-> <<>>]
            IN  IF Find(X, Refused) # 0 \/ Len(P) \notin {1, 2} THEN Failed
                ELSE IF Find(X, Doubled) # 0 /\ Len(P) = 1 THEN Wild
                ELSE IF NamesOf(P[1]) = Failed \/ split = Failed THEN Failed
                ELSE Found(NamesOf(P[1]), split.args, Find(X, Doubled) # 0)
    <2>1. /\ Doubled = <<"_", "_">> /\ Refused = <<"_", "0">>
      BY Patterns, Zenon
    <2> QED
      BY <1>1, <2>1, Zenon DEF parse_java_lang_name, TypesOf, NamesOf, Found
  <1>3. Len(<<p, q>>) = 2 /\ <<p, q>>[1] = p /\ <<p, q>>[2] = q /\ 2 \in {1, 2} /\ 2 # 1
    OBVIOUS
  <1>4. P = <<p, q>> /\ Len(P) \in {1, 2} /\ P[1] = p /\ P[2] = q /\ Len(P) # 1
    BY <1>1, <1>3, Zenon
  <1>5. [ok |-> "yes", args |-> a] # Failed /\ [ok |-> "yes", args |-> a].args = a
    BY Outcomes, Zenon
  <1>6. (Find(X, Doubled) # 0) = TRUE /\ (Find(X, Refused) # 0) = FALSE
    BY Zenon
  <1> QED
    BY <1>2, <1>4, <1>5, <1>6, Zenon

-----------------------------------------------------------------------------
(* Symbols that are refused for what follows the separator.                *)

LEMMA TypesRefused ==
    ASSUME NEW P \in Text, P # <<>>, P[1] = One
    PROVE  TypesOf(P) = Failed
  <1>1. PICK u, o2, o3, e, b : u = "_" /\ o2 = <<"_", "2">> /\ o3 = <<"_", "3">> /\ e = <<";">> /\ b = <<"[">>
    OBVIOUS
  <1>2. \E y, z : IsTwo(o2, u, y) /\ IsTwo(o3, u, z)
    <2>1. "_" \in Letter /\ "2" \in Letter /\ "3" \in Letter
      BY Literals, Zenon DEF Literal
    <2>2. PICK y, z : y = "2" /\ z = "3"
      OBVIOUS
    <2>3. IsTwo(<<u, y>>, u, y) /\ IsTwo(<<u, z>>, u, z)
      <3>1. u \in Letter /\ y \in Letter /\ z \in Letter
        BY <1>1, <2>1, <2>2, Zenon
      <3> QED
        BY <3>1, TwoIs
    <2>4. <<u, y>> = o2 /\ <<u, z>> = o3
      BY <1>1, <2>2, Zenon
    <2> QED
      BY <2>3, <2>4, Zenon
  <1>3. PICK y, z : IsTwo(o2, u, y) /\ IsTwo(o3, u, z)
    BY <1>2
  <1>4. e \in Text /\ b \in Text
    <2>1. ";" \in Letter /\ "[" \in Letter
      BY Brackets, Zenon
    <2>2. PICK c3, c1 \in Letter : c3 = ";" /\ c1 = "["
      BY <2>1, Zenon
    <2>3. <<c3>> \in Text /\ <<c1>> \in Text
      BY Char
    <2> QED
      BY <1>1, <2>2, <2>3, Zenon
  <1>5. One # u
    BY <1>1, Zenon DEF One
  <1>6. PICK Q : Q = replace_all(P, o2, e)
    OBVIOUS
  <1>7. Q \in Text /\ Q # <<>> /\ Q[1] = One
    <2>1. P[1] # u
      BY <1>5, Zenon
    <2> QED
      BY <1>3, <1>4, <1>6, <2>1, ReplaceText
  <1>8. PICK S : S = replace_all(Q, o3, b)
    OBVIOUS
  <1>9. S \in Text /\ S # <<>> /\ S[1] = One
    <2>1. Q[1] # u
      BY <1>5, <1>7, Zenon
    <2> QED
      BY <1>3, <1>4, <1>7, <1>8, <2>1, ReplaceText
  <1>10. S[1] = "1"
    BY <1>9, Zenon DEF One
  <1>11. split_args_sig(S) = Failed
    BY <1>9, <1>10, SplitRefused, Zenon
  <1> QED
    BY <1>1, <1>6, <1>8, <1>11, Zenon DEF TypesOf

\* The first piece behind a position begins with the letter there, when no "__" is.
LEMMA PieceBegins ==
    ASSUME NEW X \in Text, NEW n \in Nat, n = Len(X), NEW R, IsSplit(R, X, Doubled, n),
           NEW i \in 1..n, X[i] # Score
    PROVE  /\ R[i] \in Seq(Text) /\ Len(R[i]) # 0
           /\ R[i][1] \in Text /\ R[i][1] # <<>> /\ R[i][1][1] = X[i]
  <1>1. IsTwo(Doubled, Score, Score)
    BY Patterns
  <1>2. Doubled \in Text /\ Len(Doubled) = 2 /\ Doubled[1] = Score
    BY <1>1 DEF IsTwo
  <1>3. \A j \in 1..(n + 1) : R[j] \in Seq(Text) /\ (j <= n => Len(R[j]) # 0)
    BY <1>1, SplitParts
  <1>4. R[i] = IF FindFrom(X, Doubled, i) = 0 THEN <<SubSeq(X, i, n)>>
               ELSE <<SubSeq(X, i, FindFrom(X, Doubled, i) - 1)>> \o R[FindFrom(X, Doubled, i) + Len(Doubled)]
    BY Zenon DEF IsSplit
  <1>5. PICK k \in i..n, Y \in Seq(Text) : R[i] = <<SubSeq(X, i, k)>> \o Y
    <2>1. CASE FindFrom(X, Doubled, i) = 0
      <3>1. R[i] = <<SubSeq(X, i, n)>>
        BY <1>4, <2>1, Zenon
      <3>2. SubSeq(X, i, n) \in Text
        BY SubText
      <3>3. PICK x \in Text : x = SubSeq(X, i, n)
        BY <3>2
      <3>4. <<x>> = <<x>> \o <<>> /\ <<>> \in Seq(Text) /\ n \in i..n
        OBVIOUS
      <3> QED
        BY <3>1, <3>3, <3>4, Zenon
    <2>2. CASE FindFrom(X, Doubled, i) # 0
      <3>1. FindFrom(X, Doubled, i) \in i..n /\ Hit(X, Doubled, FindFrom(X, Doubled, i))
        BY <2>2, FindIs
      <3>2. PICK r \in i..n : r = FindFrom(X, Doubled, i)
        BY <3>1
      <3>3. r \in Nat \ {0} /\ Hit(X, Doubled, r)
        BY <3>1, <3>2
      <3>4. r + 2 - 1 <= n /\ \A j \in 1..2 : X[r + j - 1] = Doubled[j]
        BY <1>2, <3>3, HitIs, ZenonT(60)
      <3>5. r # i
        <4>1. X[r + 1 - 1] = Doubled[1]
          BY <3>4
        <4>2. r + 1 - 1 = r
          OBVIOUS
        <4> QED
          BY <1>2, <4>1, <4>2
      <3>6. r - 1 \in i..n /\ r + 2 \in 1..(n + 1)
        BY <3>4, <3>5
      <3>7. R[r + 2] \in Seq(Text)
        BY <1>3, <3>6
      <3>8. R[i] = <<SubSeq(X, i, r - 1)>> \o R[r + 2]
        BY <1>2, <1>4, <2>2, <3>2, Zenon
      <3> QED
        BY <3>6, <3>7, <3>8, Zenon
    <2> QED
      BY <2>1, <2>2
  <1>6. /\ SubSeq(X, i, k) \in Text /\ Len(SubSeq(X, i, k)) = k + 1 - i
        /\ \A j \in 1..(k + 1 - i) : SubSeq(X, i, k)[j] = X[i + j - 1]
    BY SubText
  <1>7. PICK x \in Text : x = SubSeq(X, i, k)
    BY <1>6
  <1>8. x # <<>> /\ x[1] = X[i]
    <2>1. Len(x) # 0
      BY <1>6, <1>7
    <2>2. 1 \in 1..(k + 1 - i) /\ i + 1 - 1 = i
      OBVIOUS
    <2>3. x[1] = X[i + 1 - 1]
      BY <1>6, <1>7, <2>2, Zenon
    <2>4. x # <<>>
      BY <2>1, Empty
    <2> QED
      BY <2>2, <2>3, <2>4
  <1>9. (<<x>> \o Y)[1] = x
    <2>1. <<x>> \in Seq(Text) /\ Len(<<x>>) = 1 /\ <<x>>[1] = x
      OBVIOUS
    <2>2. \A j \in 1..Len(<<x>>) : (<<x>> \o Y)[j] = <<x>>[j]
      BY <1>5, <2>1, CatSeq
    <2> QED
      BY <2>1, <2>2
  <1>10. R[i][1] = x
    BY <1>5, <1>7, <1>9, Zenon
  <1>11. R[i] \in Seq(Text) /\ Len(R[i]) # 0
    BY <1>3
  <1> QED
    BY <1>8, <1>10, <1>11, Zenon

\* A text is split at its first "__".
IsSplitAt(X, n, r, R) ==
    /\ IsSplit(R, X, Doubled, n) /\ r + 2 \in 1..(n + 1) /\ R[r + 2] \in Seq(Text)
    /\ SubSeq(X, 1, r - 1) \in Text
    /\ string_split(X, Doubled) = <<SubSeq(X, 1, r - 1)>> \o R[r + 2]

LEMMA SplitAt ==
    ASSUME NEW X \in Text, NEW n \in Nat, n = Len(X), NEW r \in 1..n, Find(X, Doubled) = r
    PROVE  \E R : IsSplitAt(X, n, r, R)
  <1>1. IsTwo(Doubled, Score, Score)
    BY Patterns
  <1>2. Doubled \in Text /\ Len(Doubled) = 2
    BY <1>1 DEF IsTwo
  <1>3. PICK R : string_split(X, Doubled) = R[1] /\ IsSplit(R, X, Doubled, n)
    BY <1>2, SplitIs
  <1>4. FindFrom(X, Doubled, 1) = r
    BY Zenon DEF Find
  <1>5. Hit(X, Doubled, r)
    BY <1>4, FindIs
  <1>6. r + 2 \in 1..(n + 1)
    <2>1. r + Len(Doubled) - 1 <= Len(X)
      <3>1. r \in Nat \ {0}
        OBVIOUS
      <3> QED
        BY <1>2, <1>5, <3>1, HitIs
    <2> QED
      BY <1>2, <2>1
  <1>7. R[r + 2] \in Seq(Text)
    BY <1>1, <1>3, <1>6, SplitParts
  <1>8. SubSeq(X, 1, r - 1) \in Text
    <2>1. r - 1 \in Nat /\ r - 1 <= Len(X) /\ 1 <= (r - 1) + 1 /\ 1 \in Nat \ {0}
      OBVIOUS
    <2> QED
      BY <2>1, SubText
  <1>9. R[1] = <<SubSeq(X, 1, r - 1)>> \o R[r + 2]
    <2>1. 1 \in 1..n /\ r # 0
      OBVIOUS
    <2>2. R[1] = IF FindFrom(X, Doubled, 1) = 0 THEN <<SubSeq(X, 1, n)>>
                 ELSE <<SubSeq(X, 1, FindFrom(X, Doubled, 1) - 1)>> \o R[FindFrom(X, Doubled, 1) + Len(Doubled)]
      BY <1>3, <2>1, Zenon DEF IsSplit
    <2> QED
      BY <1>2, <1>4, <2>1, <2>2, Zenon
  <1> QED
    BY <1>3, <1>6, <1>7, <1>8, <1>9, Zenon DEF IsSplitAt

\* Behind "__" the letter "1": no type begins with it.
LEMMA SecondRefused ==
    ASSUME NEW X \in Text, NEW n \in Nat, n = Len(X), NEW r \in 1..n, Find(X, Doubled) = r,
           r + 2 <= n, X[r + 2] = One
    PROVE  parse_java_lang_name(X) = Failed
  <1>1. PICK R : IsSplitAt(X, n, r, R)
    BY SplitAt
  <1>2. /\ IsSplit(R, X, Doubled, n) /\ R[r + 2] \in Seq(Text) /\ SubSeq(X, 1, r - 1) \in Text
        /\ string_split(X, Doubled) = <<SubSeq(X, 1, r - 1)>> \o R[r + 2]
    BY <1>1, Zenon DEF IsSplitAt
  <1>3. X[r + 2] # Score
    <2>1. One # Score
      BY Zenon DEF One, Score
    <2> QED
      BY <2>1, Zenon
  <1>4. r + 2 \in 1..n
    OBVIOUS
  <1>5. /\ Len(R[r + 2]) # 0 /\ R[r + 2][1] \in Text /\ R[r + 2][1] # <<>> /\ R[r + 2][1][1] = One
    <2>1. PICK i \in 1..n : i = r + 2
      BY <1>4
    <2>2. /\ Len(R[i]) # 0 /\ R[i][1] \in Text /\ R[i][1] # <<>> /\ R[i][1][1] = X[i]
      BY <1>2, <1>3, <2>1, PieceBegins
    <2> QED
      BY <2>1, <2>2, Zenon
  <1>6. PICK x \in Text : x = SubSeq(X, 1, r - 1)
    BY <1>2
  <1>7. PICK Y \in Seq(Text) : Y = R[r + 2]
    BY <1>2
  <1>8. <<x>> \in Seq(Text) /\ Len(<<x>>) = 1 /\ Len(Y) \in Nat \ {0}
    BY <1>5, <1>7
  <1>9. /\ Len(<<x>> \o Y) = 1 + Len(Y) /\ (<<x>> \o Y)[2] = Y[1]
    <2>1. Len(<<x>> \o Y) = Len(<<x>>) + Len(Y) /\ \A i \in 1..Len(Y) : (<<x>> \o Y)[Len(<<x>>) + i] = Y[i]
      BY <1>8, CatSeq
    <2>2. 1 \in 1..Len(Y)
      BY <1>8
    <2>3. (<<x>> \o Y)[1 + 1] = Y[1]
      BY <1>8, <2>1, <2>2, Zenon
    <2> QED
      BY <1>8, <2>1, <2>3
  <1>10. PICK P : P = string_split(X, Doubled)
    OBVIOUS
  <1>11. Len(P) # 1 /\ P[2] = Y[1] /\ Len(P) \in Nat
    <2>1. Len(P) = 1 + Len(Y) /\ P[2] = Y[1]
      BY <1>2, <1>6, <1>7, <1>9, <1>10, Zenon
    <2> QED
      BY <1>8, <2>1
  <1>12. TypesOf(P[2]) = Failed
    BY <1>5, <1>7, <1>11, TypesRefused
  <1>13. Find(X, Doubled) # 0
    OBVIOUS
  <1>14. CASE Len(P) \notin {1, 2}
    BY <1>10, <1>14, ParseIs, Zenon
  <1>15. CASE Len(P) = 2
    BY <1>10, <1>12, <1>13, <1>15, ParseIs, Zenon
  <1> QED
    BY <1>11, <1>14, <1>15, Zenon

-----------------------------------------------------------------------------
(* Names that confuse the parser, and names that do not.                   *)

\* Names without "$", and those in which no identifier begins with "_".
Clean(Y) == Y \in Text /\ Y \in Slashed(Begin) /\ Y \in Without({"$"})
Smooth(Y) == Clean(Y) /\ Y \in Slashed(Letter \ {"_"})

LEMMA BeginIs ==
    /\ \A c \in Begin : c \in Letter /\ c # Zero
    /\ \A c \in Begin : c \in Escaped => c = Score \/ c = Dollar
  <1>1. /\ \A c \in Begin : c \in Letter /\ c \notin Digit /\ c \notin Mark
        /\ Zero \in Digit /\ Semi \in Mark /\ Open \in Mark /\ Slash \in Mark
    BY Zenon DEF Begin, Digit, Mark, Separator, Zero, Semi, Open, Slash
  <1> QED
    BY <1>1, Zenon DEF Escaped

LEMMA CleanIs ==
    ASSUME NEW Y, Clean(Y)
    PROVE  /\ Y \in Text /\ Len(Y) \in Nat
           /\ \A k \in 0..(Len(Y) - 1) : Y[k + 1] # Dollar
           /\ \A k \in 0..(Len(Y) - 1) : Y[k + 1] = Slash =>
                 /\ k + 1 < Len(Y) /\ Y[k + 2] \in Letter /\ Y[k + 2] # Zero /\ Y[k + 2] # Dollar
                 /\ Y[k + 2] \in Escaped => Y[k + 2] = Score
  <1>1. Y \in Text /\ Y \in Slashed(Begin) /\ Y \in Without({Dollar})
    BY Zenon DEF Clean, Dollar
  <1>2. Len(Y) \in Nat
    BY <1>1, TextIs
  <1>3. \A k \in 0..(Len(Y) - 1) : Y[k + 1] # Dollar
    BY <1>1, WithoutIs
  <1>4. ASSUME NEW k \in 0..(Len(Y) - 1), Y[k + 1] = Slash
        PROVE  /\ k + 1 < Len(Y) /\ Y[k + 2] \in Letter /\ Y[k + 2] # Zero /\ Y[k + 2] # Dollar
               /\ Y[k + 2] \in Escaped => Y[k + 2] = Score
    <2>1. \A i \in 1..Len(Y) : Y[i] = Slash => i < Len(Y) /\ Y[i + 1] \in Begin
      BY <1>1, Zenon DEF Slashed, Slash
    <2>2. PICK i \in 1..Len(Y) : i = k + 1 /\ i + 1 = k + 2
      BY <1>2
    <2>3. k + 1 < Len(Y) /\ Y[k + 2] \in Begin
      BY <1>4, <2>1, <2>2, Zenon
    <2>4. PICK h \in 0..(Len(Y) - 1) : h = k + 1 /\ h + 1 = k + 2
      BY <1>2, <2>3
    <2>5. Y[k + 2] # Dollar
      BY <1>3, <2>4, Zenon
    <2> QED
      BY <2>3, <2>5, BeginIs, Zenon
  <1> QED
    BY <1>1, <1>2, <1>3, <1>4, Zenon

LEMMA SmoothIs ==
    ASSUME NEW Y, Smooth(Y)
    PROVE  /\ Clean(Y)
           /\ \A k \in 0..(Len(Y) - 1) : Y[k + 1] = Slash => k + 1 < Len(Y) /\ Y[k + 2] \notin Escaped
  <1>1. Clean(Y) /\ Y \in Slashed(Letter \ {Score})
    BY Zenon DEF Smooth, Score
  <1>2. ASSUME NEW k \in 0..(Len(Y) - 1), Y[k + 1] = Slash PROVE k + 1 < Len(Y) /\ Y[k + 2] \notin Escaped
    <2>1. k + 1 < Len(Y) /\ (Y[k + 2] \in Escaped => Y[k + 2] = Score) /\ Len(Y) \in Nat
      BY <1>1, <1>2, CleanIs
    <2>2. \A i \in 1..Len(Y) : Y[i] = Slash => i < Len(Y) /\ Y[i + 1] \in Letter \ {Score}
      BY <1>1, Zenon DEF Slashed, Slash
    <2>3. PICK i \in 1..Len(Y) : i = k + 1 /\ i + 1 = k + 2
      BY <2>1
    <2>4. Y[k + 2] # Score
      BY <1>2, <2>2, <2>3, Zenon
    <2> QED
      BY <2>1, <2>4, Zenon
  <1> QED
    BY <1>1, <1>2, Zenon

LEMMA RoughIs ==
    ASSUME NEW Y, Clean(Y), ~ Smooth(Y)
    PROVE  \E k \in 0..(Len(Y) - 1) : Y[k + 1] = Slash /\ k + 1 < Len(Y) /\ Y[k + 2] = Score
  <1>1. SUFFICES ASSUME \A k \in 0..(Len(Y) - 1) : ~ (Y[k + 1] = Slash /\ k + 1 < Len(Y) /\ Y[k + 2] = Score)
                 PROVE  FALSE
    BY Zenon
  <1>2. Y \in Text /\ Len(Y) \in Nat
    BY CleanIs
  <1>3. ASSUME NEW i \in 1..Len(Y), Y[i] = Slash PROVE i < Len(Y) /\ Y[i + 1] \in Letter \ {Score}
    <2>1. PICK k \in 0..(Len(Y) - 1) : k + 1 = i /\ k + 2 = i + 1
      <3>1. i - 1 \in 0..(Len(Y) - 1) /\ (i - 1) + 1 = i /\ (i - 1) + 2 = i + 1
        BY <1>2
      <3> QED
        BY <3>1
    <2>2. k + 1 < Len(Y) /\ Y[k + 2] \in Letter
      BY <1>3, <2>1, CleanIs
    <2>3. Y[k + 2] # Score
      BY <1>1, <1>3, <2>1, <2>2, Zenon
    <2> QED
      BY <2>1, <2>2, <2>3, Zenon
  <1>4. Y \in Slashed(Letter \ {Score})
    BY <1>2, <1>3, Zenon DEF Slashed, Slash
  <1>5. Smooth(Y)
    BY <1>4, Zenon DEF Smooth, Score
  <1> QED
    BY <1>5

\* A symbol whose name begins with N.
Begins(Z, n, N, m) == m \in Nat /\ m = Len(N) /\ m <= n /\ \A k \in 0..(m - 1) : Z[k + 1] = N[k + 1]

LEMMA RoughRefused ==
    ASSUME NEW X, NEW L, NEW T, NEW Z, NEW n, IsSymbol(X, L, T, Z, n),
           NEW N, NEW m, Begins(Z, n, N, m), Clean(N), ~ Smooth(N)
    PROVE  parse_java_lang_name(X) = Failed
  <1>1. m \in Nat /\ m = Len(N) /\ m <= n /\ \A k \in 0..(m - 1) : Z[k + 1] = N[k + 1]
    BY Zenon DEF Begins
  <1>2. X \in Text /\ L \in Nat /\ L = Len(X) /\ n \in Nat
    BY SymbolIs
  <1>3. PICK i \in 0..(m - 1) : N[i + 1] = Slash /\ i + 1 < m /\ N[i + 2] = Score
    BY <1>1, RoughIs
  <1>4. Score \in Escaped
    BY Zenon DEF Escaped
  <1>5. i \in 0..(n - 1) /\ i + 1 < n /\ Z[i + 1] = Slash /\ Z[i + 2] = Score
    <2>1. PICK h \in 0..(m - 1) : h = i + 1 /\ h + 1 = i + 2
      BY <1>1, <1>3
    <2>2. Z[i + 1] = N[i + 1] /\ Z[i + 2] = N[i + 2]
      BY <1>1, <2>1, Zenon
    <2>3. i \in 0..(n - 1) /\ i + 1 < n
      BY <1>1, <1>2, <1>3
    <2> QED
      BY <1>3, <2>2, <2>3, Zenon
  <1>6. Hit(X, Doubled, T[i] + 1) /\ T[i] + 1 \in 1..L
    <2>1. Z[i + 2] \in Escaped
      BY <1>4, <1>5, Zenon
    <2> QED
      BY <1>5, <2>1, SlashDoubles
  <1>7. PICK r : r = FindFrom(X, Doubled, 1)
    OBVIOUS
  <1>8. r \in 1..L /\ Hit(X, Doubled, r) /\ \A k \in 1..(r - 1) : ~ Hit(X, Doubled, k)
    BY <1>2, <1>6, <1>7, FindIs
  <1>9. PICK j \in 0..(n - 1) : r = T[j] + 1 /\ Z[j + 1] = Slash /\ j + 1 < n /\ Z[j + 2] \in Escaped
    BY <1>8, DoubledFrom
  <1>10. j <= i
    <2>1. T[j] \in 0..L /\ T[i] \in 0..L
      BY <1>5, SymbolIs
    <2>2. T[j] <= T[i]
      <3>1. ~ (T[i] + 1 \in 1..(r - 1))
        BY <1>6, <1>8, Zenon
      <3> QED
        BY <1>2, <1>6, <1>8, <1>9, <2>1, <3>1
    <2>3. ASSUME i < j PROVE FALSE
      <3>1. i \in 0..n /\ j \in 0..n
        BY <1>2, <1>5
      <3>2. T[i] < T[j]
        BY <2>3, <3>1, SymbolGrows
      <3> QED
        BY <1>2, <2>1, <2>2, <3>2
    <2> QED
      BY <1>5, <2>3
  <1>11. Z[j + 2] = Score
    <2>1. j \in 0..(m - 1) /\ j + 1 < m
      BY <1>1, <1>3, <1>10
    <2>2. PICK h \in 0..(m - 1) : h = j + 1 /\ h + 1 = j + 2
      BY <1>1, <2>1
    <2>3. Z[j + 1] = N[j + 1] /\ Z[j + 2] = N[j + 2]
      BY <1>1, <2>1, <2>2, Zenon
    <2>4. N[j + 1] = Slash /\ N[j + 2] \in Escaped
      BY <1>9, <2>3, Zenon
    <2>5. N[j + 2] = Score
      BY <1>1, <2>1, <2>4, CleanIs
    <2> QED
      BY <2>3, <2>5, Zenon
  <1>12. T[j] + 3 \in 1..L /\ X[T[j] + 3] = One
    BY <1>9, <1>11, SlashDoubles
  <1>13. r + 2 <= L /\ X[r + 2] = One
    <2>1. T[j] \in 0..L
      BY SymbolIs
    <2>2. r + 2 = T[j] + 3
      BY <1>2, <1>9, <2>1
    <2>3. r + 2 \in 1..L /\ X[r + 2] = One
      BY <1>12, <2>2, Zenon
    <2> QED
      BY <1>2, <2>3
  <1>14. Find(X, Doubled) = r
    BY <1>7, Zenon DEF Find
  <1> QED
    BY <1>2, <1>8, <1>13, <1>14, SecondRefused

\* Nothing in a clean name is refused.
Accepted(Z, n) ==
    /\ \A i \in 0..(n - 1) : Z[i + 1] # Dollar
    /\ \A i \in 0..(n - 1) : Z[i + 1] = Slash /\ i + 1 < n => Z[i + 2] # Zero

LEMMA NotRefused ==
    ASSUME NEW X, NEW L, NEW T, NEW Z, NEW n, IsSymbol(X, L, T, Z, n), Accepted(Z, n)
    PROVE  Find(X, Refused) = 0
  <1>1. L \in Nat /\ L = Len(X)
    BY SymbolIs
  <1>2. ASSUME NEW k \in 1..L, Hit(X, Refused, k) PROVE FALSE
    BY <1>2, RefusedFrom DEF Accepted
  <1>3. FindFrom(X, Refused, 1) = 0
    BY <1>1, <1>2, FindNone
  <1> QED
    BY <1>3, Zenon DEF Find

-----------------------------------------------------------------------------
(* A long symbol, letter by letter.                                        *)

\* Texts that do not begin with "0".
NotZero == {s \in Text : s # <<>> => s[1] # Zero}

LEMMA NotZeroKind == IsKind(NotZero)
  <1>1. \A x \in NotZero : x \in Text
    BY DEF NotZero
  <1>2. <<>> \in NotZero
    BY Empty DEF NotZero
  <1>3. ASSUME NEW x \in NotZero, NEW y \in NotZero, NEW z, IsCat(z, x, y) PROVE z \in NotZero
    <2>1. x \in Text /\ y \in Text /\ (x # <<>> => x[1] # Zero) /\ (y # <<>> => y[1] # Zero)
      BY DEF NotZero
    <2>2. z = x \o y
      BY <1>3 DEF IsCat
    <2>3. x \o y \in Text
      BY <2>1, Cat
    <2>4. CASE x = <<>>
      <3>1. <<>> \o y = y
        BY <2>1, TextIs
      <3>2. z = y
        BY <2>2, <2>4, <3>1, Zenon
      <3> QED
        BY <1>3, <3>2, Zenon
    <2>5. CASE x # <<>>
      <3>1. Len(x) \in Nat \ {0}
        BY <2>1, <2>5, TextIs
      <3>2. \A i \in 1..Len(x) : (x \o y)[i] = x[i]
        BY <2>1, Cat
      <3>3. 1 \in 1..Len(x)
        BY <3>1
      <3>4. z[1] = x[1]
        BY <2>2, <3>2, <3>3, Zenon
      <3> QED
        BY <2>1, <2>2, <2>3, <2>5, <3>4, Zenon DEF NotZero
    <2> QED
      BY <2>4, <2>5
  <1> QED
    BY <1>1, <1>2, <1>3, Zenon DEF IsKind

LEMMA OneNotZero ==
    ASSUME NEW c \in Letter, c # Zero
    PROVE  <<c>> \in NotZero
  <1>1. <<c>> \in Text /\ <<c>>[1] = c
    BY Char
  <1> QED
    BY <1>1, Zenon DEF NotZero

LEMMA NotZeroHolds == Holds(NotZero)
  <1>1. "L" \in Letter /\ ";" \in Letter /\ "[" \in Letter
    BY Brackets, Zenon
  <1>2. PICK a, b, o \in Letter : a = "L" /\ b = ";" /\ o = "["
    BY <1>1, Zenon
  <1>3. a # Zero /\ b # Zero /\ o # Zero
    BY <1>2, Zenon DEF Zero
  <1>4. <<a>> \in NotZero /\ <<b>> \in NotZero
    BY <1>3, OneNotZero
  <1>5. ASSUME NEW m \in Nat PROVE Dims(m) \in NotZero
    <2>1. Dims(m) \in Text /\ Len(Dims(m)) = m
      BY DimsAre, Zenon
    <2>2. ASSUME Dims(m) # <<>> PROVE Dims(m)[1] # Zero
      <3>1. m # 0
        <4>1. Len(Dims(m)) \in Nat \ {0}
          BY <2>1, <2>2, TextIs
        <4> QED
          BY <2>1, <4>1
      <3>2. 1 \in 1..m
        BY <3>1
      <3>3. Dims(m)[1] = o
        BY <1>2, <3>2, DimsAre, Zenon
      <3> QED
        BY <1>3, <3>3, Zenon
    <2> QED
      BY <2>1, <2>2, Zenon DEF NotZero
  <1>6. ASSUME NEW c, is_java_base_args_sig(c) PROVE <<c>> \in NotZero
    <2>1. c \in Letter
      BY <1>6, BaseLetters
    <2>2. c # Zero
      BY <1>6, Zenon DEF is_java_base_args_sig, Zero
    <2> QED
      BY <2>1, <2>2, OneNotZero
  <1>7. <<"L">> \in NotZero /\ <<";">> \in NotZero
    BY <1>2, <1>4, Zenon
  <1> QED
    BY <1>5, <1>6, <1>7, NotZeroKind, Zenon DEF Holds

LEMMA ArgsNotZero ==
    ASSUME NEW d \in Decl
    PROVE  ArgSigs(d) \in NotZero
  <1>1. ASSUME NEW t, IsType(t), t.word = "class" PROVE Joined(t.path, <<"/">>) \in NotZero
    <2>1. PICK n : IsPath(t.path, n)
      BY <1>1, ClassPath, Zenon
    <2>2. PICK p : p = t.path
      OBVIOUS
    <2>3. IsPath(p, n)
      BY <2>1, <2>2, Zenon
    <2>4. p \in Seq(Text) /\ n \in Nat \ {0} /\ n = Len(p) /\ \A k \in 0..(n - 1) : IdentFacts(p[k + 1])
      BY <2>3, Zenon DEF IsPath
    <2>5. ASSUME NEW k \in 0..(n - 1) PROVE p[k + 1] \in NotZero
      <3>1. p[k + 1] \in Text /\ p[k + 1][1] \notin Digit
        BY <2>4, Zenon DEF IdentFacts
      <3>2. Zero \in Digit
        BY Zenon DEF Zero, Digit
      <3> QED
        BY <3>1, <3>2, Zenon DEF NotZero
    <2>6. PICK sep : sep = <<Slash>>
      OBVIOUS
    <2>7. sep \in NotZero
      <3>1. Slash \in Letter /\ Slash # Zero
        BY Marks
      <3> QED
        BY <2>6, <3>1, OneNotZero
    <2>8. Joined(p, sep) \in NotZero
      <3>1. n \in Nat
        BY <2>4
      <3> QED
        BY <2>4, <2>5, <2>7, <3>1, NotZeroKind, JoinedKindSep
    <2> QED
      BY <2>2, <2>6, <2>8, Zenon DEF Slash
  <1>2. ASSUME NEW k \in 0..(Len(d.args) - 1), d.args[k + 1].word = "class"
        PROVE  Joined(d.args[k + 1].path, <<"/">>) \in NotZero
    <2>1. IsType(d.args[k + 1])
      BY SigsAre
    <2> QED
      BY <1>1, <1>2, <2>1, Zenon
  <1> QED
    BY <1>2, NotZeroHolds, ArgSigsHold, Zenon

\* The name behind a long symbol.
IsLong(Z, n, N, m, A, l) ==
    /\ Begins(Z, n, N, m) /\ l \in Nat /\ l = Len(A) /\ n = m + 2 + l
    /\ Z[m + 1] = Slash /\ Z[m + 2] = Slash
    /\ \A k \in 0..(l - 1) : Z[m + 2 + k + 1] = A[k + 1]

\* A position in a long name.
LEMMA LongAt ==
    ASSUME NEW Z, NEW n, NEW N, NEW m, NEW A, NEW l, IsLong(Z, n, N, m, A, l), NEW i \in 0..(n - 1)
    PROVE  \/ i < m /\ i \in 0..(m - 1) /\ Z[i + 1] = N[i + 1] /\ (i + 1 < m => Z[i + 2] = N[i + 2])
           \/ i = m /\ Z[i + 1] = Slash /\ i + 1 < n /\ Z[i + 2] = Slash
           \/ i = m + 1 /\ Z[i + 1] = Slash /\ (i + 1 < n => l # 0 /\ Z[i + 2] = A[1])
           \/ \E h \in 0..(l - 1) : /\ i = m + 2 + h /\ Z[i + 1] = A[h + 1]
                                    /\ (i + 1 < n <=> h + 1 < l) /\ (h + 1 < l => Z[i + 2] = A[h + 2])
  <1>1. /\ m \in Nat /\ m <= n /\ \A k \in 0..(m - 1) : Z[k + 1] = N[k + 1]
        /\ l \in Nat /\ n = m + 2 + l
        /\ Z[m + 1] = Slash /\ Z[m + 2] = Slash
        /\ \A k \in 0..(l - 1) : Z[m + 2 + k + 1] = A[k + 1]
    BY Zenon DEF IsLong, Begins
  <1>2. CASE i < m
    <2>1. i \in 0..(m - 1)
      BY <1>1, <1>2
    <2>2. Z[i + 1] = N[i + 1]
      BY <1>1, <2>1, Zenon
    <2>3. ASSUME i + 1 < m PROVE Z[i + 2] = N[i + 2]
      <3>1. PICK h \in 0..(m - 1) : h = i + 1 /\ h + 1 = i + 2
        BY <1>1, <2>3
      <3> QED
        BY <1>1, <3>1, Zenon
    <2> QED
      BY <1>2, <2>1, <2>2, <2>3
  <1>3. CASE i = m
    <2>1. i + 1 < n
      BY <1>1, <1>3
    <2> QED
      BY <1>1, <1>3, <2>1, Zenon
  <1>4. CASE i = m + 1
    <2>1. i + 1 = m + 2 /\ i + 2 = m + 2 + 0 + 1
      BY <1>1, <1>4
    <2>2. Z[i + 1] = Slash
      BY <1>1, <2>1, Zenon
    <2>3. ASSUME i + 1 < n PROVE l # 0 /\ Z[i + 2] = A[1]
      <3>1. l # 0 /\ 0 \in 0..(l - 1) /\ 0 + 1 = 1
        BY <1>1, <1>4, <2>3
      <3>2. Z[m + 2 + 0 + 1] = A[0 + 1]
        BY <1>1, <3>1, Zenon
      <3> QED
        BY <2>1, <3>1, <3>2, Zenon
    <2> QED
      BY <1>4, <2>2, <2>3
  <1>5. CASE i >= m + 2
    <2>1. PICK h \in 0..(l - 1) : i = m + 2 + h
      <3>1. i - m - 2 \in 0..(l - 1) /\ i = m + 2 + (i - m - 2)
        BY <1>1, <1>5
      <3> QED
        BY <3>1
    <2>2. i + 1 = m + 2 + h + 1 /\ (i + 1 < n <=> h + 1 < l) /\ i = m + 2 + h
      BY <1>1, <2>1
    <2>3. Z[i + 1] = A[h + 1]
      <3>1. Z[m + 2 + h + 1] = A[h + 1]
        BY <1>1, Zenon
      <3> QED
        BY <2>2, <3>1
    <2>4. ASSUME h + 1 < l PROVE Z[i + 2] = A[h + 2]
      <3>1. PICK g \in 0..(l - 1) : g = h + 1 /\ g + 1 = h + 2 /\ i + 2 = m + 2 + g + 1
        BY <1>1, <2>1, <2>4
      <3>2. Z[m + 2 + g + 1] = A[g + 1]
        BY <1>1, Zenon
      <3> QED
        BY <3>1, <3>2
    <2> QED
      BY <2>1, <2>2, <2>3, <2>4, Zenon
  <1> QED
    BY <1>1, <1>2, <1>3, <1>4, <1>5

-----------------------------------------------------------------------------
(* Where a long symbol has the separator.                                  *)

\* A long symbol and the blocks between its two parts.
IsLongSymbol(X, L, T, Z, n, N, m, A, l) ==
    /\ IsSymbol(X, L, T, Z, n) /\ IsLong(Z, n, N, m, A, l) /\ Clean(N) /\ Clean(A)
    /\ A \in NotZero

\* Nothing in a long symbol is refused.
LEMMA LongAccepted ==
    ASSUME NEW X, NEW L, NEW T, NEW Z, NEW n, NEW N, NEW m, NEW A, NEW l,
           IsLongSymbol(X, L, T, Z, n, N, m, A, l)
    PROVE  Find(X, Refused) = 0
  <1>1. IsSymbol(X, L, T, Z, n) /\ IsLong(Z, n, N, m, A, l) /\ Clean(N) /\ Clean(A) /\ A \in NotZero
    BY Zenon DEF IsLongSymbol
  <1>2. m = Len(N) /\ l = Len(A) /\ m \in Nat /\ l \in Nat
    BY <1>1, Zenon DEF IsLong, Begins
  <1>3. /\ \A k \in 0..(m - 1) : N[k + 1] # Dollar
        /\ \A k \in 0..(m - 1) : N[k + 1] = Slash => k + 1 < m /\ N[k + 2] # Zero
    BY <1>1, <1>2, CleanIs, Zenon
  <1>4. /\ \A k \in 0..(l - 1) : A[k + 1] # Dollar
        /\ \A k \in 0..(l - 1) : A[k + 1] = Slash => k + 1 < l /\ A[k + 2] # Zero
    BY <1>1, <1>2, CleanIs, Zenon
  <1>5. Slash # Dollar /\ Slash # Zero
    BY Marks, Zenon
  <1>6. l # 0 => A[1] # Zero
    <2>1. A \in Text /\ (A # <<>> => A[1] # Zero)
      BY <1>1, Zenon DEF NotZero
    <2>2. ASSUME A = <<>> PROVE l = 0
      BY <1>2, <2>2, Empty
    <2> QED
      BY <2>1, <2>2, Zenon
  <1>7. ASSUME NEW i \in 0..(n - 1)
        PROVE  Z[i + 1] # Dollar /\ (Z[i + 1] = Slash /\ i + 1 < n => Z[i + 2] # Zero)
    <2>1. \/ i < m /\ i \in 0..(m - 1) /\ Z[i + 1] = N[i + 1] /\ (i + 1 < m => Z[i + 2] = N[i + 2])
          \/ i = m /\ Z[i + 1] = Slash /\ i + 1 < n /\ Z[i + 2] = Slash
          \/ i = m + 1 /\ Z[i + 1] = Slash /\ (i + 1 < n => l # 0 /\ Z[i + 2] = A[1])
          \/ \E h \in 0..(l - 1) : /\ i = m + 2 + h /\ Z[i + 1] = A[h + 1]
                                   /\ (i + 1 < n <=> h + 1 < l) /\ (h + 1 < l => Z[i + 2] = A[h + 2])
      BY <1>1, LongAt
    <2>2. CASE i < m /\ i \in 0..(m - 1) /\ Z[i + 1] = N[i + 1] /\ (i + 1 < m => Z[i + 2] = N[i + 2])
      BY <1>3, <2>2, Zenon
    <2>3. CASE i = m /\ Z[i + 1] = Slash /\ i + 1 < n /\ Z[i + 2] = Slash
      BY <1>5, <2>3, Zenon
    <2>4. CASE i = m + 1 /\ Z[i + 1] = Slash /\ (i + 1 < n => l # 0 /\ Z[i + 2] = A[1])
      BY <1>5, <1>6, <2>4, Zenon
    <2>5. CASE \E h \in 0..(l - 1) : /\ i = m + 2 + h /\ Z[i + 1] = A[h + 1]
                                     /\ (i + 1 < n <=> h + 1 < l) /\ (h + 1 < l => Z[i + 2] = A[h + 2])
      BY <1>4, <2>5, Zenon
    <2> QED
      BY <2>1, <2>2, <2>3, <2>4, <2>5, Zenon
  <1>8. Accepted(Z, n)
    BY <1>7, Zenon DEF Accepted
  <1> QED
    BY <1>1, <1>8, NotRefused

\* The blocks of the two slashes.
LEMMA LongMiddle ==
    ASSUME NEW X, NEW L, NEW T, NEW Z, NEW n, NEW N, NEW m, NEW A, NEW l,
           IsLongSymbol(X, L, T, Z, n, N, m, A, l)
    PROVE  /\ m \in 0..(n - 1) /\ m + 2 \in 0..n /\ m \in 0..n /\ n \in Nat /\ n = m + 2 + l
           /\ Hit(X, Doubled, T[m] + 1) /\ T[m] + 1 \in 1..L /\ T[m + 2] = T[m] + 2
           /\ T[m] \in 0..L /\ T[m] + 2 <= L
  <1>1. IsSymbol(X, L, T, Z, n) /\ IsLong(Z, n, N, m, A, l)
    BY Zenon DEF IsLongSymbol
  <1>2. /\ m \in Nat /\ l \in Nat /\ n = m + 2 + l
        /\ Z[m + 1] = Slash /\ Z[m + 2] = Slash
    BY <1>1, Zenon DEF IsLong, Begins
  <1>3. m \in 0..(n - 1) /\ m + 2 \in 0..n /\ m \in 0..n /\ n \in Nat /\ m + 1 < n
    BY <1>2
  <1>4. Z[m + 2] \in Escaped
    BY <1>2, Zenon DEF Escaped
  <1>5. Hit(X, Doubled, T[m] + 1) /\ T[m] + 1 \in 1..L /\ T[m + 1] = T[m] + 1
    BY <1>1, <1>2, <1>3, <1>4, SlashDoubles
  <1>6. T[m + 2] = T[m + 1] + Len(Mangling[Z[m + 2]]) /\ T[m + 2] \in 0..L
    <2>1. PICK i \in 0..(n - 1) : i = m /\ i + 1 < n
      BY <1>3
    <2>2. T[i + 2] = T[i + 1] + Len(Mangling[Z[i + 2]]) /\ T[i + 2] \in 0..L
      BY <1>1, <2>1, NextLetter
    <2> QED
      BY <2>1, <2>2, Zenon
  <1>7. Len(Mangling[Z[m + 2]]) = 1
    <2>1. Mangling[Z[m + 2]] = <<Score>>
      BY <1>2, Marks, Zenon
    <2>2. Score \in Letter
      BY Marks, Zenon
    <2> QED
      BY <2>1, <2>2, Char
  <1>8. T[m] \in 0..L /\ L \in Nat
    BY <1>1, <1>3, SymbolIs
  <1>9. T[m + 2] = T[m] + 2 /\ T[m] + 2 <= L
    BY <1>5, <1>6, <1>7, <1>8
  <1> QED
    BY <1>2, <1>3, <1>5, <1>8, <1>9

\* A smooth name ends at the first "__" of its long symbol.
LEMMA LongFirst ==
    ASSUME NEW X, NEW L, NEW T, NEW Z, NEW n, NEW N, NEW m, NEW A, NEW l,
           IsLongSymbol(X, L, T, Z, n, N, m, A, l), Smooth(N)
    PROVE  Find(X, Doubled) = T[m] + 1
  <1>1. IsSymbol(X, L, T, Z, n) /\ IsLong(Z, n, N, m, A, l)
    BY Zenon DEF IsLongSymbol
  <1>2. m = Len(N) /\ m \in Nat /\ l \in Nat
    BY <1>1, Zenon DEF IsLong, Begins
  <1>3. \A k \in 0..(m - 1) : N[k + 1] = Slash => k + 1 < m /\ N[k + 2] \notin Escaped
    BY <1>2, SmoothIs, Zenon
  <1>4. /\ m \in 0..n /\ n \in Nat
        /\ Hit(X, Doubled, T[m] + 1) /\ T[m] + 1 \in 1..L /\ T[m] \in 0..L
    BY LongMiddle
  <1>5. L \in Nat /\ L = Len(X)
    BY <1>1, SymbolIs
  <1>6. ASSUME NEW k \in 1..(T[m] + 1 - 1), Hit(X, Doubled, k) PROVE FALSE
    <2>1. k \in 1..L /\ k <= T[m]
      BY <1>4, <1>5
    <2>2. PICK i \in 0..(n - 1) : k = T[i] + 1 /\ Z[i + 1] = Slash /\ i + 1 < n /\ Z[i + 2] \in Escaped
      BY <1>1, <1>6, <2>1, DoubledFrom
    <2>3. T[i] \in 0..L /\ i \in 0..n
      BY <1>1, <1>4, SymbolIs
    <2>4. i < m
      <3>1. ~ m < i
        <4>1. ASSUME m < i PROVE FALSE
          <5>1. T[m] < T[i]
            BY <1>1, <1>4, <2>3, <4>1, SymbolGrows
          <5> QED
            BY <1>4, <1>5, <2>1, <2>2, <2>3, <5>1
        <4> QED
          BY <4>1
      <3>2. i # m
        BY <1>4, <1>5, <2>1, <2>2, <2>3
      <3> QED
        BY <1>2, <3>1, <3>2
    <2>5. \/ i < m /\ i \in 0..(m - 1) /\ Z[i + 1] = N[i + 1] /\ (i + 1 < m => Z[i + 2] = N[i + 2])
          \/ i = m \/ i = m + 1
          \/ \E h \in 0..(l - 1) : i = m + 2 + h
      BY <1>1, LongAt
    <2>6. i # m /\ i # m + 1 /\ ~ \E h \in 0..(l - 1) : i = m + 2 + h
      BY <1>2, <2>4
    <2> QED
      BY <1>3, <2>2, <2>5, <2>6, Zenon
  <1>7. FindFrom(X, Doubled, 1) = T[m] + 1
    BY <1>4, <1>5, <1>6, FindAt
  <1> QED
    BY <1>7, Zenon DEF Find

\* Behind it, "__" is a slash in the types before "_".
LEMMA LongLater ==
    ASSUME NEW X, NEW L, NEW T, NEW Z, NEW n, NEW N, NEW m, NEW A, NEW l,
           IsLongSymbol(X, L, T, Z, n, N, m, A, l),
           NEW k \in (T[m] + 3)..L, Hit(X, Doubled, k)
    PROVE  ~ Smooth(A) /\ k + 2 <= L
  <1>1. IsSymbol(X, L, T, Z, n) /\ IsLong(Z, n, N, m, A, l) /\ Clean(A)
    BY Zenon DEF IsLongSymbol
  <1>2. l = Len(A) /\ m \in Nat /\ l \in Nat
    BY <1>1, Zenon DEF IsLong, Begins
  <1>3. /\ m + 2 \in 0..n /\ n \in Nat /\ T[m + 2] = T[m] + 2 /\ T[m] \in 0..L
    BY LongMiddle
  <1>4. L \in Nat
    BY <1>1, SymbolIs
  <1>5. k \in 1..L /\ k >= T[m] + 3
    BY <1>3, <1>4
  <1>6. PICK i \in 0..(n - 1) : k = T[i] + 1 /\ Z[i + 1] = Slash /\ i + 1 < n /\ Z[i + 2] \in Escaped
    BY <1>1, <1>5, DoubledFrom
  <1>7. T[i] \in 0..L /\ i \in 0..n
    BY <1>1, <1>3, SymbolIs
  <1>8. i >= m + 2
    <2>1. ASSUME i < m + 2 PROVE FALSE
      <3>1. T[i] < T[m + 2]
        BY <1>1, <1>3, <1>7, <2>1, SymbolGrows
      <3> QED
        BY <1>3, <1>4, <1>5, <1>6, <1>7, <3>1
    <2> QED
      BY <1>2, <2>1
  <1>9. \/ i < m \/ i = m \/ i = m + 1
        \/ \E h \in 0..(l - 1) : /\ i = m + 2 + h /\ Z[i + 1] = A[h + 1]
                                 /\ (i + 1 < n <=> h + 1 < l) /\ (h + 1 < l => Z[i + 2] = A[h + 2])
    BY <1>1, LongAt
  <1>10. ~ i < m /\ i # m /\ i # m + 1
    BY <1>2, <1>8
  <1>11. PICK h \in 0..(l - 1) : /\ i = m + 2 + h /\ Z[i + 1] = A[h + 1]
                                 /\ (i + 1 < n <=> h + 1 < l) /\ (h + 1 < l => Z[i + 2] = A[h + 2])
    BY <1>9, <1>10, Zenon
  <1>12. A[h + 1] = Slash /\ h + 1 < l /\ Z[i + 2] = A[h + 2] /\ A[h + 2] \in Escaped
    BY <1>6, <1>11, Zenon
  <1>13. ~ Smooth(A)
    BY <1>2, <1>12, SmoothIs, Zenon
  <1>14. A[h + 2] = Score
    BY <1>1, <1>2, <1>12, CleanIs, Zenon
  <1>15. T[i] + 3 \in 1..L
    BY <1>1, <1>6, <1>12, <1>14, SlashDoubles
  <1>16. k + 2 <= L
    BY <1>4, <1>6, <1>7, <1>15
  <1> QED
    BY <1>13, <1>16

\* And in types that are not smooth there is one.
LEMMA LongRough ==
    ASSUME NEW X, NEW L, NEW T, NEW Z, NEW n, NEW N, NEW m, NEW A, NEW l,
           IsLongSymbol(X, L, T, Z, n, N, m, A, l), ~ Smooth(A)
    PROVE  \E k \in (T[m] + 3)..L : Hit(X, Doubled, k)
  <1>1. IsSymbol(X, L, T, Z, n) /\ IsLong(Z, n, N, m, A, l) /\ Clean(A)
    BY Zenon DEF IsLongSymbol
  <1>2. /\ l = Len(A) /\ m \in Nat /\ l \in Nat /\ n = m + 2 + l
        /\ \A k \in 0..(l - 1) : Z[m + 2 + k + 1] = A[k + 1]
    BY <1>1, Zenon DEF IsLong, Begins
  <1>3. PICK h \in 0..(l - 1) : A[h + 1] = Slash /\ h + 1 < l /\ A[h + 2] = Score
    BY <1>1, <1>2, RoughIs
  <1>4. PICK i \in 0..(n - 1) : i = m + 2 + h
    <2>1. m + 2 + h \in 0..(n - 1)
      BY <1>2
    <2> QED
      BY <2>1
  <1>5. \/ i < m \/ i = m \/ i = m + 1
        \/ \E g \in 0..(l - 1) : /\ i = m + 2 + g /\ Z[i + 1] = A[g + 1]
                                 /\ (i + 1 < n <=> g + 1 < l) /\ (g + 1 < l => Z[i + 2] = A[g + 2])
    BY <1>1, LongAt
  <1>6. ~ i < m /\ i # m /\ i # m + 1
    BY <1>2, <1>4
  <1>7. PICK g \in 0..(l - 1) : /\ i = m + 2 + g /\ Z[i + 1] = A[g + 1]
                                /\ (i + 1 < n <=> g + 1 < l) /\ (g + 1 < l => Z[i + 2] = A[g + 2])
    BY <1>5, <1>6, Zenon
  <1>8. g = h
    BY <1>2, <1>4, <1>7
  <1>9. Z[i + 1] = Slash /\ i + 1 < n /\ Z[i + 2] = Score
    BY <1>3, <1>7, <1>8, Zenon
  <1>10. Z[i + 2] \in Escaped
    BY <1>9, Zenon DEF Escaped
  <1>11. Hit(X, Doubled, T[i] + 1) /\ T[i] + 1 \in 1..L
    BY <1>1, <1>9, <1>10, SlashDoubles
  <1>12. /\ m + 2 \in 0..n /\ n \in Nat /\ T[m + 2] = T[m] + 2 /\ T[m] \in 0..L
    BY LongMiddle
  <1>13. T[i] \in 0..L /\ i \in 0..n /\ L \in Nat
    BY <1>1, <1>12, SymbolIs
  <1>14. T[i] >= T[m] + 2
    <2>1. CASE i = m + 2
      <3>1. T[i] = T[m + 2]
        BY <2>1, Zenon
      <3> QED
        BY <1>12, <1>13, <3>1
    <2>2. CASE m + 2 < i
      <3>1. T[m + 2] < T[i]
        BY <1>1, <1>12, <1>13, <2>2, SymbolGrows
      <3> QED
        BY <1>12, <1>13, <3>1
    <2> QED
      BY <1>2, <1>4, <2>1, <2>2
  <1>15. T[i] + 1 \in (T[m] + 3)..L
    BY <1>11, <1>12, <1>13, <1>14
  <1> QED
    BY <1>11, <1>15, Zenon

-----------------------------------------------------------------------------
(* A long symbol is split.                                                 *)

LEMMA TwoParts ==
    ASSUME NEW x \in Text, NEW y \in Text
    PROVE  <<x>> \o <<y>> = <<x, y>>
  <1>1. PICK d, a, z : d = <<x>> /\ a = <<y>> /\ z = <<x, y>>
    OBVIOUS
  <1>2. z \in Seq(Text) /\ Len(z) = 2 /\ z[1] = x /\ z[2] = y
    BY <1>1
  <1>3. d \in Seq(Text) /\ a \in Seq(Text) /\ Len(d) = 1 /\ Len(a) = 1 /\ d[1] = x /\ a[1] = y
    BY <1>1
  <1>4. PICK u : u = d \o a
    OBVIOUS
  <1>5. u \in Seq(Text) /\ Len(u) = 2 /\ u[1] = x /\ u[2] = y
    <2>1. /\ d \o a \in Seq(Text) /\ Len(d \o a) = Len(d) + Len(a)
          /\ \A i \in 1..Len(d) : (d \o a)[i] = d[i]
          /\ \A i \in 1..Len(a) : (d \o a)[Len(d) + i] = a[i]
      BY <1>3, CatSeq
    <2>2. 1 \in 1..Len(d) /\ 1 \in 1..Len(a) /\ Len(d) + Len(a) = 2 /\ Len(d) + 1 = 2
      BY <1>3
    <2> QED
      BY <1>3, <1>4, <2>1, <2>2, Zenon
  <1>6. \A i \in 1..Len(u) : u[i] = z[i]
    BY <1>2, <1>5
  <1>7. u = z
    BY <1>2, <1>5, <1>6, SeqEqual
  <1> QED
    BY <1>1, <1>4, <1>7, Zenon

\* Nothing stands behind "__".
LEMMA OnePiece ==
    ASSUME NEW X \in Text, NEW n \in Nat, n = Len(X), NEW r \in 1..n, Find(X, Doubled) = r, r + 1 = n
    PROVE  string_split(X, Doubled) = <<SubSeq(X, 1, r - 1)>>
  <1>1. PICK R : IsSplitAt(X, n, r, R)
    BY SplitAt
  <1>2. /\ IsSplit(R, X, Doubled, n)
        /\ string_split(X, Doubled) = <<SubSeq(X, 1, r - 1)>> \o R[r + 2]
    BY <1>1, Zenon DEF IsSplitAt
  <1>3. R[n + 1] = <<>>
    BY <1>2, Zenon DEF IsSplit
  <1>4. r + 2 = n + 1
    OBVIOUS
  <1>5. string_split(X, Doubled) = <<SubSeq(X, 1, r - 1)>> \o <<>>
    BY <1>2, <1>3, <1>4, Zenon
  <1>6. PICK x : x = SubSeq(X, 1, r - 1)
    OBVIOUS
  <1>7. <<x>> \o <<>> = <<x>>
    OBVIOUS
  <1> QED
    BY <1>5, <1>6, <1>7, Zenon

\* There is one "__", in the middle.
LEMMA TwoPieces ==
    ASSUME NEW X \in Text, NEW n \in Nat, n = Len(X), NEW r \in 1..n, Find(X, Doubled) = r, r + 2 <= n,
           FindFrom(X, Doubled, r + 2) = 0
    PROVE  string_split(X, Doubled) = <<SubSeq(X, 1, r - 1), SubSeq(X, r + 2, n)>>
  <1>1. PICK R : IsSplitAt(X, n, r, R)
    BY SplitAt
  <1>2. /\ IsSplit(R, X, Doubled, n)
        /\ string_split(X, Doubled) = <<SubSeq(X, 1, r - 1)>> \o R[r + 2]
    BY <1>1, Zenon DEF IsSplitAt
  <1>3. PICK i \in 1..n : i = r + 2
    <2>1. r + 2 \in 1..n
      OBVIOUS
    <2> QED
      BY <2>1
  <1>4. R[i] = IF FindFrom(X, Doubled, i) = 0 THEN <<SubSeq(X, i, n)>>
               ELSE <<SubSeq(X, i, FindFrom(X, Doubled, i) - 1)>> \o R[FindFrom(X, Doubled, i) + Len(Doubled)]
    BY <1>2, Zenon DEF IsSplit
  <1>5. R[r + 2] = <<SubSeq(X, r + 2, n)>>
    BY <1>3, <1>4, Zenon
  <1>6. PICK x \in Text, y \in Text : x = SubSeq(X, 1, r - 1) /\ y = SubSeq(X, r + 2, n)
    <2>1. SubSeq(X, 1, r - 1) \in Text
      BY <1>1, Zenon DEF IsSplitAt
    <2>2. SubSeq(X, r + 2, n) \in Text
      <3>1. r + 2 \in Nat \ {0} /\ n <= Len(X) /\ r + 2 <= n + 1
        OBVIOUS
      <3> QED
        BY <3>1, SubText
    <2> QED
      BY <2>1, <2>2
  <1>7. <<x>> \o <<y>> = <<x, y>>
    BY TwoParts
  <1> QED
    BY <1>2, <1>5, <1>6, <1>7, Zenon

\* A second "__" makes a third piece.
LEMMA ManyPieces ==
    ASSUME NEW X \in Text, NEW n \in Nat, n = Len(X), NEW r \in 1..n, Find(X, Doubled) = r, r + 2 <= n,
           NEW q \in (r + 2)..n, FindFrom(X, Doubled, r + 2) = q, q + 2 <= n
    PROVE  parse_java_lang_name(X) = Failed
  <1>1. PICK R : IsSplitAt(X, n, r, R)
    BY SplitAt
  <1>2. /\ IsSplit(R, X, Doubled, n) /\ R[r + 2] \in Seq(Text)
        /\ string_split(X, Doubled) = <<SubSeq(X, 1, r - 1)>> \o R[r + 2]
    BY <1>1, Zenon DEF IsSplitAt
  <1>3. PICK i \in 1..n : i = r + 2
    <2>1. r + 2 \in 1..n
      OBVIOUS
    <2> QED
      BY <2>1
  <1>4. R[i] = IF FindFrom(X, Doubled, i) = 0 THEN <<SubSeq(X, i, n)>>
               ELSE <<SubSeq(X, i, FindFrom(X, Doubled, i) - 1)>> \o R[FindFrom(X, Doubled, i) + Len(Doubled)]
    BY <1>2, Zenon DEF IsSplit
  <1>5. IsTwo(Doubled, Score, Score) /\ Len(Doubled) = 2
    BY Patterns DEF IsTwo
  <1>6. q # 0
    OBVIOUS
  <1>7. R[r + 2] = <<SubSeq(X, r + 2, q - 1)>> \o R[q + 2]
    BY <1>3, <1>4, <1>5, <1>6, Zenon
  <1>8. PICK j \in 1..n : j = q + 2
    <2>1. q + 2 \in 1..n
      OBVIOUS
    <2> QED
      BY <2>1
  <1>9. R[j] \in Seq(Text) /\ Len(R[j]) # 0
    <2>1. j \in 1..(n + 1) /\ j <= n
      OBVIOUS
    <2> QED
      BY <1>2, <1>5, <2>1, SplitParts
  <1>10. PICK x, y : x = SubSeq(X, 1, r - 1) /\ y = SubSeq(X, r + 2, q - 1)
    OBVIOUS
  <1>11. PICK Y \in Seq(Text) : Y = R[q + 2] /\ Len(Y) # 0
    BY <1>8, <1>9
  <1>12. string_split(X, Doubled) = <<x>> \o (<<y>> \o Y)
    BY <1>2, <1>7, <1>10, <1>11, Zenon
  <1>13. Len(<<x>> \o (<<y>> \o Y)) \notin {1, 2}
    BY <1>11
  <1>14. Len(string_split(X, Doubled)) \notin {1, 2}
    BY <1>12, <1>13, Zenon
  <1> QED
    BY <1>14, ParseIs, Zenon

-----------------------------------------------------------------------------
\* The long symbol of a method without arguments.
LEMMA LongEmpty ==
    ASSUME NEW X, NEW L, NEW T, NEW Z, NEW n, NEW N, NEW m, NEW A,
           IsLongSymbol(X, L, T, Z, n, N, m, A, 0), Smooth(N)
    PROVE  parse_java_lang_name(X) = Wild
  <1>1. IsSymbol(X, L, T, Z, n)
    BY Zenon DEF IsLongSymbol
  <1>2. X \in Text /\ L \in Nat /\ L = Len(X) /\ T[n] = L
    BY <1>1, SymbolIs
  <1>3. n = m + 2 + 0 /\ m \in 0..n /\ n \in Nat /\ T[m + 2] = T[m] + 2 /\ T[m] \in 0..L /\ T[m] + 1 \in 1..L
    BY LongMiddle
  <1>4. PICK r \in 1..L : r = T[m] + 1
    BY <1>3
  <1>5. Find(X, Doubled) = r
    BY <1>4, LongFirst
  <1>6. r + 1 = L
    <2>1. n = m + 2
      BY <1>3
    <2>2. T[m + 2] = L
      BY <1>2, <2>1, Zenon
    <2> QED
      BY <1>2, <1>3, <1>4, <2>2
  <1>7. string_split(X, Doubled) = <<SubSeq(X, 1, r - 1)>>
    BY <1>2, <1>5, <1>6, OnePiece
  <1>8. PICK x : x = SubSeq(X, 1, r - 1)
    OBVIOUS
  <1>9. Len(<<x>>) = 1
    OBVIOUS
  <1>10. Len(string_split(X, Doubled)) = 1
    BY <1>7, <1>8, <1>9, Zenon
  <1>11. Find(X, Doubled) # 0
    BY <1>5
  <1>12. Find(X, Refused) = 0
    BY LongAccepted
  <1> QED
    BY <1>10, <1>11, <1>12, ParseIs, Zenon

\* That of a method whose types are not smooth.
LEMMA LongRefused ==
    ASSUME NEW X, NEW L, NEW T, NEW Z, NEW n, NEW N, NEW m, NEW A, NEW l,
           IsLongSymbol(X, L, T, Z, n, N, m, A, l), Smooth(N), ~ Smooth(A)
    PROVE  parse_java_lang_name(X) = Failed
  <1>1. IsSymbol(X, L, T, Z, n)
    BY Zenon DEF IsLongSymbol
  <1>2. X \in Text /\ L \in Nat /\ L = Len(X)
    BY <1>1, SymbolIs
  <1>3. T[m] \in 0..L /\ T[m] + 1 \in 1..L
    BY LongMiddle
  <1>4. PICK r \in 1..L : r = T[m] + 1
    BY <1>3
  <1>5. Find(X, Doubled) = r
    BY <1>4, LongFirst
  <1>6. PICK k \in (T[m] + 3)..L : Hit(X, Doubled, k)
    BY LongRough
  <1>7. r + 2 = T[m] + 3 /\ r + 2 <= L /\ r + 2 \in Nat \ {0} /\ k \in (r + 2)..L
    BY <1>2, <1>3, <1>4
  <1>8. PICK q : q = FindFrom(X, Doubled, r + 2)
    OBVIOUS
  <1>9. q \in (r + 2)..L /\ Hit(X, Doubled, q)
    <2>1. PICK i \in Nat \ {0} : i = r + 2
      BY <1>7
    <2>2. \/ q = 0 /\ \A h \in i..L : ~ Hit(X, Doubled, h)
          \/ q \in i..L /\ Hit(X, Doubled, q)
      BY <1>2, <1>8, <2>1, FindIs
    <2> QED
      BY <1>6, <1>7, <2>1, <2>2
  <1>10. q + 2 <= L
    <2>1. q \in (T[m] + 3)..L
      BY <1>7, <1>9
    <2> QED
      BY <1>9, <2>1, LongLater
  <1> QED
    BY <1>2, <1>5, <1>7, <1>8, <1>9, <1>10, ManyPieces

\* That of any other: a name and its types.
LEMMA LongSplit ==
    ASSUME NEW X, NEW L, NEW T, NEW Z, NEW n, NEW N, NEW m, NEW A, NEW l,
           IsLongSymbol(X, L, T, Z, n, N, m, A, l), Smooth(N), Smooth(A), l # 0
    PROVE  /\ T[m] \in 0..L /\ Find(X, Doubled) # 0
           /\ string_split(X, Doubled) = <<SubSeq(X, 1, T[m]), SubSeq(X, T[m] + 3, L)>>
  <1>1. IsSymbol(X, L, T, Z, n)
    BY Zenon DEF IsLongSymbol
  <1>2. X \in Text /\ L \in Nat /\ L = Len(X) /\ T[n] = L
    BY <1>1, SymbolIs
  <1>3. /\ n = m + 2 + l /\ m + 2 \in 0..n /\ n \in Nat /\ T[m + 2] = T[m] + 2
        /\ T[m] \in 0..L /\ T[m] + 1 \in 1..L
    BY LongMiddle
  <1>4. PICK r \in 1..L : r = T[m] + 1
    BY <1>3
  <1>5. Find(X, Doubled) = r
    BY <1>4, LongFirst
  <1>6. l \in Nat
    BY Zenon DEF IsLongSymbol, IsLong
  <1>7. T[m + 2] < T[n]
    <2>1. n \in 0..n /\ m + 2 < n
      BY <1>3, <1>6
    <2> QED
      BY <1>1, <1>3, <2>1, SymbolGrows
  <1>8. r + 2 <= L /\ r + 2 = T[m] + 3 /\ r - 1 = T[m] /\ r + 2 \in Nat \ {0}
    BY <1>2, <1>3, <1>4, <1>7
  <1>9. FindFrom(X, Doubled, r + 2) = 0
    <2>1. ASSUME NEW k \in (r + 2)..L, Hit(X, Doubled, k) PROVE FALSE
      <3>1. k \in (T[m] + 3)..L
        BY <1>8, <2>1
      <3> QED
        BY <2>1, <3>1, LongLater
    <2> QED
      BY <1>2, <1>8, <2>1, FindNone
  <1>10. string_split(X, Doubled) = <<SubSeq(X, 1, r - 1), SubSeq(X, r + 2, L)>>
    BY <1>2, <1>5, <1>8, <1>9, TwoPieces
  <1>11. Find(X, Doubled) # 0
    BY <1>5
  <1> QED
    BY <1>3, <1>8, <1>10, <1>11, Zenon

-----------------------------------------------------------------------------
(* The two parts of a symbol.                                              *)

\* The name behind the symbol, and the whole symbol, as codes.
LEMMA ShortSymbol ==
    ASSUME NEW d \in Decl
    PROVE  Symbol(d, FALSE) = Hom(Mangling, FullPath(d))
  <1>1. FullPath(d) \in Text
    BY NameIs
  <1>2. Symbol(d, FALSE) = Mangle(FullPath(d)) \o <<>>
    BY Zenon DEF Symbol, FullPath, MethodPath
  <1>3. PICK x : x = Hom(Mangling, FullPath(d))
    OBVIOUS
  <1>4. x \in Text /\ Mangle(FullPath(d)) = x
    <2>1. Mangling \in [Letter -> Text]
      BY Marks
    <2> QED
      BY <1>1, <1>3, <2>1, MangleIs, HomPieces
  <1>5. x \o <<>> = x
    BY <1>4, TextIs
  <1> QED
    BY <1>2, <1>3, <1>4, <1>5, Zenon

LEMMA DoubledCode == Doubled \in Text /\ <<Slash, Slash>> \in Text /\ Hom(Mangling, <<Slash, Slash>>) = Doubled
  <1>1. Mangling \in [Letter -> Text] /\ Slash \in Letter /\ Score \in Letter /\ Mangling[Slash] = <<Score>>
    BY Marks
  <1>2. PICK s \in Text : s = <<Slash>>
    BY <1>1, Char
  <1>3. <<Slash, Slash>> = s \o s /\ <<Score, Score>> = <<Score>> \o <<Score>>
    BY <1>1, <1>2, TwoChars
  <1>4. Hom(Mangling, s \o s) = Hom(Mangling, s) \o Hom(Mangling, s)
    BY <1>1, HomConcat
  <1>5. Hom(Mangling, s) = <<Score>>
    BY <1>1, <1>2, HomOne
  <1>6. Hom(Mangling, <<Slash, Slash>>) = Doubled
    BY <1>3, <1>4, <1>5, Zenon DEF Doubled
  <1>7. s \o s \in Text
    BY Cat
  <1>8. Doubled \in Text
    BY Patterns DEF IsTwo
  <1> QED
    BY <1>3, <1>6, <1>7, <1>8, Zenon

\* A name, two slashes and the types.
LongName(N, A) == N \o (<<Slash, Slash>> \o A)

LEMMA LongSymbol ==
    ASSUME NEW d \in Decl
    PROVE  /\ Symbol(d, TRUE) = Hom(Mangling, LongName(FullPath(d), ArgSigs(d)))
           /\ Hom(Mangling, LongName(FullPath(d), ArgSigs(d)))
                 = Hom(Mangling, FullPath(d)) \o (Doubled \o Hom(Mangling, ArgSigs(d)))
  <1>1. PICK N \in Text, A \in Text : N = FullPath(d) /\ A = ArgSigs(d)
    BY NameIs, ArgsBegin
  <1>2. Mangling \in [Letter -> Text]
    BY Marks
  <1>3. Doubled = <<"_", "_">>
    BY Patterns
  <1>4. Symbol(d, TRUE) = Mangle(N) \o (<<"_", "_">> \o Mangle(A))
    BY <1>1, Zenon DEF Symbol, FullPath, MethodPath
  <1>5. Symbol(d, TRUE) = Mangle(N) \o (Doubled \o Mangle(A))
    BY <1>3, <1>4, Zenon
  <1>6. Mangle(N) = Hom(Mangling, N) /\ Mangle(A) = Hom(Mangling, A)
    BY MangleIs
  <1>7. PICK D \in Text : D = <<Slash, Slash>> /\ Hom(Mangling, D) = Doubled
    BY DoubledCode
  <1>8. D \o A \in Text
    BY Cat
  <1>9. Hom(Mangling, N \o (D \o A)) = Hom(Mangling, N) \o Hom(Mangling, D \o A)
    BY <1>2, <1>8, HomConcat
  <1>10. Hom(Mangling, D \o A) = Hom(Mangling, D) \o Hom(Mangling, A)
    BY <1>2, HomConcat
  <1>11. Hom(Mangling, LongName(N, A)) = Hom(Mangling, N) \o (Doubled \o Hom(Mangling, A))
    BY <1>7, <1>9, <1>10, Zenon DEF LongName
  <1> QED
    BY <1>1, <1>5, <1>6, <1>11, Zenon

\* The letters of a text in two parts.
SideFacts(z, x, c, y, e) ==
    /\ z \in Text /\ Len(z) = c + e
    /\ \A j \in 0..(c - 1) : z[j + 1] = x[j + 1]
    /\ \A j \in 0..(e - 1) : z[c + j + 1] = y[j + 1]

LEMMA SidesAre ==
    ASSUME NEW x, NEW c, HasLen(x, c), NEW y, NEW e, HasLen(y, e), NEW z, IsCat(z, x, y)
    PROVE  SideFacts(z, x, c, y, e)
  <1>1. c \in Nat /\ e \in Nat
    BY Zenon DEF HasLen
  <1>2. /\ z \in Text /\ Len(z) = c + e
        /\ \A i \in 1..c : z[i] = x[i]
        /\ \A i \in 1..e : z[c + i] = y[i]
    <2>1. CatFacts(z, x, c, y, e)
      BY CatIs
    <2> QED
      BY <2>1, Zenon DEF CatFacts
  <1>3. ASSUME NEW j \in 0..(c - 1) PROVE z[j + 1] = x[j + 1]
    <2>1. j + 1 \in 1..c
      BY <1>1
    <2> QED
      BY <1>2, <2>1, Zenon
  <1>4. ASSUME NEW j \in 0..(e - 1) PROVE z[c + j + 1] = y[j + 1]
    <2>1. PICK i \in 1..e : i = j + 1 /\ c + i = c + j + 1
      <3>1. j + 1 \in 1..e /\ c + (j + 1) = c + j + 1
        BY <1>1
      <3> QED
        BY <3>1
    <2>2. z[c + i] = y[i]
      BY <1>2, Zenon
    <2> QED
      BY <2>1, <2>2, Zenon
  <1> QED
    BY <1>2, <1>3, <1>4, Zenon DEF SideFacts

\* The letters of a long name.
LEMMA LongNameIs ==
    ASSUME NEW N, Clean(N), NEW A, Clean(A)
    PROVE  /\ LongName(N, A) \in Text
           /\ \A m, l, n : m = Len(N) /\ l = Len(A) /\ n = Len(LongName(N, A)) =>
                IsLong(LongName(N, A), n, N, m, A, l)
  <1>1. N \in Text /\ A \in Text
    BY CleanIs
  <1>2. PICK m \in Nat, l \in Nat : m = Len(N) /\ l = Len(A)
    BY <1>1, TextIs
  <1>3. PICK D \in Text : D = <<Slash, Slash>>
    BY DoubledCode
  <1>4. Len(D) = 2 /\ D[0 + 1] = Slash /\ D[1 + 1] = Slash
    <2>1. Len(<<Slash, Slash>>) = 2 /\ <<Slash, Slash>>[1] = Slash /\ <<Slash, Slash>>[2] = Slash
      OBVIOUS
    <2>2. 0 + 1 = 1 /\ 1 + 1 = 2
      OBVIOUS
    <2> QED
      BY <1>3, <2>1, <2>2, Zenon
  <1>5. PICK E : E = D \o A
    OBVIOUS
  <1>6. /\ E \in Text /\ Len(E) = 2 + l
        /\ \A j \in 0..1 : E[j + 1] = D[j + 1]
        /\ \A j \in 0..(l - 1) : E[2 + j + 1] = A[j + 1]
    <2>1. PICK two \in Nat : two = 2
      OBVIOUS
    <2>2. /\ E \in Text /\ Len(E) = two + l
          /\ \A j \in 0..(two - 1) : E[j + 1] = D[j + 1]
          /\ \A j \in 0..(l - 1) : E[two + j + 1] = A[j + 1]
      <3>1. HasLen(D, two) /\ HasLen(A, l) /\ IsCat(E, D, A)
        BY <1>1, <1>2, <1>4, <1>5, <2>1, Zenon DEF HasLen, IsCat
      <3>2. SideFacts(E, D, two, A, l)
        BY <3>1, SidesAre
      <3> QED
        BY <3>2, Zenon DEF SideFacts
    <2>3. 0..(two - 1) = 0..1
      BY <2>1
    <2> QED
      BY <2>1, <2>2, <2>3, Zenon
  <1>7. PICK Z : Z = N \o E
    OBVIOUS
  <1>8. PICK e \in Nat : e = 2 + l
    BY <1>2
  <1>9. /\ Z \in Text /\ Len(Z) = m + e
        /\ \A j \in 0..(m - 1) : Z[j + 1] = N[j + 1]
        /\ \A j \in 0..(e - 1) : Z[m + j + 1] = E[j + 1]
    <2>1. HasLen(N, m) /\ HasLen(E, e) /\ IsCat(Z, N, E)
      BY <1>1, <1>2, <1>6, <1>7, <1>8, Zenon DEF HasLen, IsCat
    <2>2. SideFacts(Z, N, m, E, e)
      BY <2>1, SidesAre
    <2> QED
      BY <2>2, Zenon DEF SideFacts
  <1>10. Z = LongName(N, A)
    BY <1>3, <1>5, <1>7, Zenon DEF LongName
  <1>11. PICK n \in Nat : n = Len(Z) /\ n = m + 2 + l
    <2>1. m + e \in Nat /\ m + e = m + 2 + l
      BY <1>2, <1>8
    <2> QED
      BY <1>9, <2>1
  <1>12. Z[m + 1] = Slash /\ Z[m + 2] = Slash
    <2>1. 0 \in 0..(e - 1) /\ 1 \in 0..(e - 1) /\ m + 0 + 1 = m + 1 /\ m + 1 + 1 = m + 2 /\ 0 \in 0..1 /\ 1 \in 0..1
      BY <1>2, <1>8
    <2>2. Z[m + 0 + 1] = E[0 + 1] /\ Z[m + 1 + 1] = E[1 + 1]
      BY <1>9, <2>1, Zenon
    <2>3. E[0 + 1] = D[0 + 1] /\ E[1 + 1] = D[1 + 1]
      BY <1>6, <2>1, Zenon
    <2> QED
      BY <1>4, <2>1, <2>2, <2>3, Zenon
  <1>13. ASSUME NEW k \in 0..(l - 1) PROVE Z[m + 2 + k + 1] = A[k + 1]
    <2>1. PICK j \in 0..(e - 1) : j = 2 + k /\ j + 1 = 2 + k + 1 /\ m + j + 1 = m + 2 + k + 1
      <3>1. 2 + k \in 0..(e - 1) /\ m + (2 + k) + 1 = m + 2 + k + 1
        BY <1>2, <1>8
      <3> QED
        BY <3>1
    <2>2. Z[m + j + 1] = E[j + 1]
      BY <1>9, Zenon
    <2>3. E[2 + k + 1] = A[k + 1]
      BY <1>6, Zenon
    <2> QED
      BY <2>1, <2>2, <2>3, Zenon
  <1>14. m <= n
    BY <1>2, <1>11
  <1>15. IsLong(Z, n, N, m, A, l)
    BY <1>2, <1>9, <1>11, <1>12, <1>13, <1>14, Zenon DEF IsLong, Begins
  <1> QED
    BY <1>2, <1>9, <1>10, <1>11, <1>15, Zenon

-----------------------------------------------------------------------------
(* Names with a dollar.                                                    *)

\* A name with "$" is refused.
LEMMA DollarRefused ==
    ASSUME NEW Z \in Text, Z \notin Without({"$"})
    PROVE  parse_java_lang_name(Hom(Mangling, Z)) = Failed
  <1>1. Z \notin Without({Dollar})
    BY Zenon DEF Dollar
  <1>2. PICK L, T, n : IsSymbol(Hom(Mangling, Z), L, T, Z, n)
    BY SymbolExists
  <1>3. n \in Nat /\ n = Len(Z)
    BY <1>2, SymbolIs
  <1>4. PICK i \in 1..n : Z[i] = Dollar
    BY <1>1, <1>3 DEF Without
  <1>5. PICK k \in 0..(n - 1) : i = k + 1
    <2>1. i - 1 \in 0..(n - 1) /\ i = (i - 1) + 1
      BY <1>3
    <2> QED
      BY <2>1
  <1>6. Z[k + 1] = Dollar
    BY <1>4, <1>5, Zenon
  <1>7. Find(Hom(Mangling, Z), Refused) # 0
    BY <1>2, <1>6, DollarHit
  <1> QED
    BY <1>7, ParseIs, Zenon

\* The parser on the symbol of a name.
LEMMA ShortOf ==
    ASSUME NEW N, Clean(N), N # <<>>, NEW X, X = Hom(Mangling, N)
    PROVE  /\ ~ Smooth(N) => parse_java_lang_name(X) = Failed
           /\ Smooth(N) /\ NamesOf(X) # Failed => parse_java_lang_name(X) = Found(NamesOf(X), <<>>, FALSE)
  <1>1. N \in Text
    BY CleanIs
  <1>2. PICK L, T, n : IsSymbol(X, L, T, N, n)
    BY <1>1, SymbolExists
  <1>3. n \in Nat /\ n = Len(N) /\ X \in Text /\ L \in Nat /\ L = Len(X) /\ T[0] = 0 /\ T[n] = L
    BY <1>2, SymbolIs
  <1>4. Begins(N, n, N, n)
    <2>1. n <= n
      BY <1>3
    <2> QED
      BY <1>3, <2>1, Zenon DEF Begins
  <1>5. ASSUME ~ Smooth(N) PROVE parse_java_lang_name(X) = Failed
    BY <1>2, <1>4, <1>5, RoughRefused
  <1>6. ASSUME Smooth(N), NamesOf(X) # Failed
        PROVE  parse_java_lang_name(X) = Found(NamesOf(X), <<>>, FALSE)
    <2>1. /\ \A k \in 0..(n - 1) : N[k + 1] # Dollar
          /\ \A k \in 0..(n - 1) : N[k + 1] = Slash => k + 1 < n /\ N[k + 2] # Zero
      BY <1>3, CleanIs, Zenon
    <2>2. Accepted(N, n)
      BY <2>1, Zenon DEF Accepted
    <2>3. Find(X, Refused) = 0
      BY <1>2, <2>2, NotRefused
    <2>4. \A k \in 0..(n - 1) : N[k + 1] = Slash => k + 1 < n /\ N[k + 2] \notin Escaped
      BY <1>3, <1>6, SmoothIs, Zenon
    <2>5. ASSUME NEW k \in 1..L, Hit(X, Doubled, k) PROVE FALSE
      <3>1. PICK i \in 0..(n - 1) : k = T[i] + 1 /\ N[i + 1] = Slash /\ i + 1 < n /\ N[i + 2] \in Escaped
        BY <1>2, <2>5, DoubledFrom
      <3> QED
        BY <2>4, <3>1, Zenon
    <2>6. FindFrom(X, Doubled, 1) = 0
      BY <1>3, <2>5, FindNone
    <2>7. Find(X, Doubled) = 0
      BY <2>6, Zenon DEF Find
    <2>8. X # <<>>
      <3>1. n \in Nat \ {0}
        BY <1>1, <1>3, TextIs
      <3>2. 0 \in 0..n /\ n \in 0..n /\ 0 < n
        BY <3>1
      <3>3. T[0] < T[n]
        BY <1>2, <3>2, SymbolGrows
      <3>4. Len(X) # 0
        BY <1>3, <3>3
      <3> QED
        BY <3>4, Empty, Zenon
    <2>9. Doubled \in Text /\ Len(Doubled) # 0
      <3>1. Doubled \in Text /\ Len(Doubled) = 2
        BY Patterns DEF IsTwo
      <3> QED
        BY <3>1
    <2>10. string_split(X, Doubled) = <<X>>
      BY <1>3, <2>7, <2>8, <2>9, SplitNone
    <2> QED
      BY <1>6, <2>3, <2>7, <2>10, ParseShort
  <1> QED
    BY <1>5, <1>6

\* The two parts of a long symbol.
AreParts(X, L, N, a, A) ==
    /\ N \in Text /\ A \in Text /\ IsCat(X, Hom(Mangling, N), Doubled \o Hom(Mangling, A))
    /\ a = Len(Hom(Mangling, N)) /\ L = Len(X)

LEMMA LongParts ==
    ASSUME NEW X, NEW L, NEW N, NEW a, NEW A, AreParts(X, L, N, a, A)
    PROVE  SubSeq(X, 1, a) = Hom(Mangling, N) /\ SubSeq(X, a + 3, L) = Hom(Mangling, A)
  <1>0. /\ N \in Text /\ A \in Text /\ IsCat(X, Hom(Mangling, N), Doubled \o Hom(Mangling, A))
        /\ a = Len(Hom(Mangling, N)) /\ L = Len(X)
    BY Zenon DEF AreParts
  <1>1. Mangling \in [Letter -> Text]
    BY Marks
  <1>2. PICK x \in Text, y \in Text : x = Hom(Mangling, N) /\ y = Hom(Mangling, A)
    BY <1>0, <1>1, HomPieces
  <1>3. PICK D \in Text : D = Doubled /\ Len(D) = 2
    BY Patterns DEF IsTwo
  <1>4. a \in Nat /\ a = Len(x)
    BY <1>0, <1>2, TextIs
  <1>5. PICK e \in Nat : e = Len(y)
    BY TextIs
  <1>6. PICK E, U, V, W : E = D \o y /\ U = <<>> \o x /\ V = x \o D /\ W = V \o y
    OBVIOUS
  <1>7. IsCat(E, D, y) /\ IsCat(U, <<>>, x) /\ IsCat(V, x, D) /\ IsCat(W, V, y)
    BY <1>6, Zenon DEF IsCat
  <1>8. IsCat(X, x, E)
    BY <1>0, <1>2, <1>3, <1>6, Zenon DEF IsCat
  <1>9. HasLen(x, a) /\ HasLen(y, e) /\ HasLen(<<>>, 0) /\ HasLen(D, 2)
    BY <1>3, <1>4, <1>5, Empty DEF HasLen
  <1>10. E \in Text /\ V \in Text /\ Len(V) = a + 2 /\ Len(E) = 2 + e
    <2>1. CatFacts(E, D, 2, y, e) /\ CatFacts(V, x, a, D, 2)
      BY <1>7, <1>9, CatIs
    <2> QED
      BY <2>1, Zenon DEF CatFacts
  <1>11. W = X
    BY <1>6, <1>8, Assoc, Zenon DEF IsCat
  <1>12. HasLen(V, a + 2) /\ HasLen(E, 2 + e)
    <2>1. a + 2 \in Nat /\ 2 + e \in Nat
      BY <1>4, <1>5
    <2> QED
      BY <1>10, <2>1, Zenon DEF HasLen
  <1>13. L = a + 2 + e
    <2>1. CatFacts(W, V, a + 2, y, e)
      BY <1>7, <1>9, <1>12, CatIs
    <2> QED
      BY <1>0, <1>11, <2>1, Zenon DEF CatFacts
  <1>14. SubSeq(X, 1, a) = x
    <2>1. U = x
      BY <1>6, TextIs
    <2>2. IsCat(X, U, E)
      BY <1>8, <2>1, Zenon
    <2>3. SubSeq(X, 0 + 1, 0 + a) = x
      BY <1>7, <1>9, <1>12, <2>2, SubPart
    <2>4. 0 + 1 = 1 /\ 0 + a = a
      BY <1>4
    <2> QED
      BY <2>3, <2>4, Zenon
  <1>15. SubSeq(X, a + 3, L) = y
    <2>1. W \in Text
      BY <1>10, <1>6, Cat
    <2>2. IsCat(W, W, <<>>)
      BY <2>1, TextIs DEF IsCat
    <2>3. SubSeq(W, (a + 2) + 1, (a + 2) + e) = y
      BY <1>7, <1>9, <1>12, <2>2, SubPart
    <2>4. (a + 2) + 1 = a + 3
      BY <1>4
    <2> QED
      BY <1>11, <1>13, <2>3, <2>4, Zenon
  <1> QED
    BY <1>2, <1>14, <1>15, Zenon

-----------------------------------------------------------------------------
(* parse_java_lang_name on every symbol.                                   *)

\* The parser on the long symbol of a name and its types.
LEMMA LongOf ==
    ASSUME NEW N, Clean(N), NEW A, Clean(A), A \in NotZero, NEW X, X = Hom(Mangling, LongName(N, A)),
           IsCat(X, Hom(Mangling, N), Doubled \o Hom(Mangling, A))
    PROVE  /\ ~ Smooth(N) \/ ~ Smooth(A) => parse_java_lang_name(X) = Failed
           /\ Smooth(N) /\ A = <<>> => parse_java_lang_name(X) = Wild
           /\ Smooth(N) /\ Smooth(A) /\ A # <<>> /\ NamesOf(Hom(Mangling, N)) # Failed =>
                \A a : TypesOf(Hom(Mangling, A)) = [ok |-> "yes", args |-> a] =>
                  parse_java_lang_name(X) = Found(NamesOf(Hom(Mangling, N)), a, TRUE)
  <1>1. N \in Text /\ A \in Text
    BY CleanIs
  <1>2. PICK Z : Z = LongName(N, A)
    OBVIOUS
  <1>3. Z \in Text /\ \A m, l, n : m = Len(N) /\ l = Len(A) /\ n = Len(Z) => IsLong(Z, n, N, m, A, l)
    BY <1>2, LongNameIs, Zenon
  <1>4. PICK L, T, n : IsSymbol(X, L, T, Z, n)
    BY <1>2, <1>3, SymbolExists, Zenon
  <1>5. n = Len(Z) /\ n \in Nat /\ X \in Text /\ L \in Nat /\ L = Len(X)
    BY <1>4, SymbolIs
  <1>6. PICK m \in Nat, l \in Nat : m = Len(N) /\ l = Len(A)
    BY <1>1, TextIs
  <1>7. IsLong(Z, n, N, m, A, l)
    BY <1>3, <1>5, <1>6, Zenon
  <1>8. IsLongSymbol(X, L, T, Z, n, N, m, A, l)
    BY <1>4, <1>7, Zenon DEF IsLongSymbol
  <1>9. Begins(Z, n, N, m)
    BY <1>7, Zenon DEF IsLong
  <1>10. ASSUME ~ Smooth(N) PROVE parse_java_lang_name(X) = Failed
    BY <1>4, <1>9, <1>10, RoughRefused
  <1>11. ASSUME Smooth(N), ~ Smooth(A) PROVE parse_java_lang_name(X) = Failed
    BY <1>8, <1>11, LongRefused
  <1>12. ASSUME Smooth(N), A = <<>> PROVE parse_java_lang_name(X) = Wild
    <2>1. l = 0
      BY <1>6, <1>12, Empty
    <2>2. IsLongSymbol(X, L, T, Z, n, N, m, A, 0)
      BY <1>8, <2>1, Zenon
    <2> QED
      BY <1>12, <2>2, LongEmpty
  <1>13. ASSUME Smooth(N), Smooth(A), A # <<>>, NamesOf(Hom(Mangling, N)) # Failed,
                NEW a, TypesOf(Hom(Mangling, A)) = [ok |-> "yes", args |-> a]
         PROVE  parse_java_lang_name(X) = Found(NamesOf(Hom(Mangling, N)), a, TRUE)
    <2>1. l # 0
      <3>1. Len(A) \in Nat \ {0}
        BY <1>1, <1>13, TextIs
      <3> QED
        BY <1>6, <3>1
    <2>2. /\ Find(X, Doubled) # 0
          /\ string_split(X, Doubled) = <<SubSeq(X, 1, T[m]), SubSeq(X, T[m] + 3, L)>>
      BY <1>8, <1>13, <2>1, LongSplit
    <2>3. PICK b, S, k : IsSymbol(Hom(Mangling, N), b, S, N, k)
      BY <1>1, SymbolExists
    <2>4. b = Len(Hom(Mangling, N)) /\ k = m
      BY <1>6, <2>3, SymbolIs
    <2>5. IsSymbol(Hom(Mangling, N), b, S, N, m)
      BY <2>3, <2>4, Zenon
    <2>6. m <= n /\ \A j \in 0..(m - 1) : Z[j + 1] = N[j + 1]
      BY <1>9, Zenon DEF Begins
    <2>7. T[m] = b
      BY <1>4, <2>5, <2>6, CodedPrefix
    <2>8. SubSeq(X, 1, b) = Hom(Mangling, N) /\ SubSeq(X, b + 3, L) = Hom(Mangling, A)
      <3>1. AreParts(X, L, N, b, A)
        BY <1>1, <1>5, <2>4, Zenon DEF AreParts
      <3> QED
        BY <3>1, LongParts
    <2>9. string_split(X, Doubled) = <<Hom(Mangling, N), Hom(Mangling, A)>>
      BY <2>2, <2>7, <2>8, Zenon
    <2>10. Find(X, Refused) = 0
      BY <1>8, LongAccepted
    <2> QED
      BY <1>13, <2>2, <2>9, <2>10, ParseLong
  <1> QED
    BY <1>10, <1>11, <1>12, <1>13, Zenon

-----------------------------------------------------------------------------
\* A symbol that the parser may refuse.
AwkwardFor(d, l) ==
    \/ Awkward(d.class) \/ Awkward(<<d.name>>)
    \/ l /\ \E i \in DOMAIN d.args : Awkward(d.args[i].path)

\* What the parser finds in the symbol of a declared method.
SymbolParsed(g, d, l) ==
    \/ g = Failed /\ AwkwardFor(d, l)
    \/ g = Wild /\ l /\ d.args = <<>>
    \/ /\ g # Failed /\ g # Wild
       /\ g.class = Joined(d.class, <<".">>) /\ g.method = d.name /\ g.is_override = l
       /\ l => TypesReadAs(g.args, d)
       /\ ~ l => g.args = <<>>

LEMMA CleanName ==
    ASSUME NEW d \in Decl
    PROVE  /\ FullPath(d) \in Without({"$"}) => Clean(FullPath(d))
           /\ ArgSigs(d) \in Without({"$"}) => Clean(ArgSigs(d))
           /\ FullPath(d) \in Text /\ ArgSigs(d) \in Text /\ FullPath(d) # <<>>
           /\ ~ AwkwardFor(d, FALSE) => FullPath(d) \in Without({"$"}) /\ Smooth(FullPath(d))
           /\ ~ AwkwardFor(d, TRUE) => ArgSigs(d) \in Without({"$"}) /\ Smooth(ArgSigs(d))
  <1>1. FullPath(d) \in Text /\ FullPath(d) # <<>> /\ FullPath(d) \in Slashed(Begin)
    BY NameIs
  <1>2. ArgSigs(d) \in Text /\ ArgSigs(d) \in Slashed(Begin)
    BY ArgsBegin
  <1>3. PICK u, o : AreOdd(u, o) /\ u = "_" /\ o = "$"
    BY Zenon DEF AreOdd
  <1>4. ~ AwkwardFor(d, FALSE) => FullPath(d) \in Slashed(Letter \ {u}) /\ FullPath(d) \in Without({o})
    BY <1>3, PlainName DEF AwkwardFor
  <1>5. ~ AwkwardFor(d, TRUE) => ArgSigs(d) \in Slashed(Letter \ {u}) /\ ArgSigs(d) \in Without({o})
    BY <1>3, PlainArgs DEF AwkwardFor
  <1> QED
    BY <1>1, <1>2, <1>3, <1>4, <1>5, Zenon DEF Clean, Smooth

\* The name in a symbol without "$".
LEMMA NameFound ==
    ASSUME NEW d \in Decl, FullPath(d) \in Without({"$"})
    PROVE  /\ NamesOf(Hom(Mangling, FullPath(d))) # Failed
           /\ NamesOf(Hom(Mangling, FullPath(d))).class = Joined(d.class, <<".">>)
           /\ NamesOf(Hom(Mangling, FullPath(d))).method = d.name
  <1>1. NamesOf(Hom(Mangling, FullPath(d))) = SplitName(Joined(MethodPath(d), <<".">>))
    BY NameRead, Zenon DEF NamesOf
  <1> QED
    BY <1>1, FullName, Zenon

\* A short symbol.
LEMMA ShortParsed ==
    ASSUME NEW d \in Decl
    PROVE  SymbolParsed(parse_java_lang_name(Symbol(d, FALSE)), d, FALSE)
  <1>1. PICK N : N = FullPath(d)
    OBVIOUS
  <1>2. PICK X : X = Hom(Mangling, N) /\ Symbol(d, FALSE) = X
    BY <1>1, ShortSymbol
  <1>3. N \in Text /\ N # <<>> /\ (N \in Without({"$"}) => Clean(N))
        /\ (~ AwkwardFor(d, FALSE) => N \in Without({"$"}) /\ Smooth(N))
    BY <1>1, CleanName, Zenon
  <1>4. CASE N \notin Without({"$"})
    <2>1. parse_java_lang_name(X) = Failed
      BY <1>2, <1>3, <1>4, DollarRefused, Zenon
    <2> QED
      BY <1>2, <1>3, <1>4, <2>1, Zenon DEF SymbolParsed
  <1>5. CASE N \in Without({"$"}) /\ ~ Smooth(N)
    <2>1. Clean(N)
      BY <1>3, <1>5, Zenon
    <2>2. parse_java_lang_name(X) = Failed
      BY <1>2, <1>3, <1>5, <2>1, ShortOf, Zenon
    <2> QED
      BY <1>2, <1>3, <1>5, <2>2, Zenon DEF SymbolParsed
  <1>6. CASE N \in Without({"$"}) /\ Smooth(N)
    <2>1. NamesOf(X) # Failed /\ NamesOf(X).class = Joined(d.class, <<".">>) /\ NamesOf(X).method = d.name
      BY <1>1, <1>2, <1>6, NameFound, Zenon
    <2>2. Clean(N)
      BY <1>3, <1>6, Zenon
    <2>3. parse_java_lang_name(X) = Found(NamesOf(X), <<>>, FALSE)
      BY <1>2, <1>3, <1>6, <2>1, <2>2, ShortOf, Zenon
    <2>4. PICK g, names, a, o : g = Found(names, a, o) /\ names = NamesOf(X) /\ a = <<>> /\ o = FALSE
      OBVIOUS
    <2>5. g # Failed /\ g # Wild /\ g.class = names.class /\ g.method = names.method /\ g.args = a /\ g.is_override = o
      <3>1. /\ Found(names, a, o) # Failed /\ Found(names, a, o) # Wild
            /\ Found(names, a, o).class = names.class /\ Found(names, a, o).method = names.method
            /\ Found(names, a, o).args = a /\ Found(names, a, o).is_override = o
        BY Outcomes
      <3> QED
        BY <2>4, <3>1, Zenon
    <2>6. parse_java_lang_name(Symbol(d, FALSE)) = g
      BY <1>2, <2>3, <2>4, Zenon
    <2> QED
      BY <2>1, <2>4, <2>5, <2>6, Zenon DEF SymbolParsed
  <1> QED
    BY <1>4, <1>5, <1>6, Zenon

\* The parts of a text have no letter that it has not.
LEMMA WithoutParts ==
    ASSUME NEW B, NEW x \in Text, NEW y \in Text, x \o y \in Without(B)
    PROVE  x \in Without(B) /\ y \in Without(B)
  <1>0. PICK c \in Nat, e \in Nat : c = Len(x) /\ e = Len(y)
    BY TextIs
  <1>1. PICK z : z = x \o y
    OBVIOUS
  <1>2. CatFacts(z, x, c, y, e)
    <2>1. HasLen(x, c) /\ HasLen(y, e) /\ IsCat(z, x, y)
      BY <1>0, <1>1, Zenon DEF HasLen, IsCat
    <2> QED
      BY <2>1, CatIs
  <1>3. /\ z \in Text /\ Len(z) = c + e
        /\ \A i \in 1..c : z[i] = x[i]
        /\ \A i \in 1..e : z[c + i] = y[i]
    BY <1>2, Zenon DEF CatFacts
  <1>4. PICK n \in Nat : n = c + e
    OBVIOUS
  <1>5. \A i \in 1..n : z[i] \notin B
    <2>1. z \in Without(B)
      BY <1>0, <1>1, Zenon
    <2> QED
      BY <1>3, <1>4, <2>1, WithoutIs, Zenon
  <1>6. ASSUME NEW i \in 1..c PROVE x[i] \notin B
    <2>1. i \in 1..n
      BY <1>4
    <2> QED
      BY <1>3, <1>5, <2>1, Zenon
  <1>7. ASSUME NEW i \in 1..e PROVE y[i] \notin B
    <2>1. c + i \in 1..n
      BY <1>4
    <2> QED
      BY <1>3, <1>5, <2>1, Zenon
  <1> QED
    BY <1>0, <1>1, <1>6, <1>7, Zenon DEF Without

\* A long one.
LEMMA LongParsed ==
    ASSUME NEW d \in Decl
    PROVE  SymbolParsed(parse_java_lang_name(Symbol(d, TRUE)), d, TRUE)
  <1>1. PICK N, A : N = FullPath(d) /\ A = ArgSigs(d)
    OBVIOUS
  <1>2. PICK X : /\ X = Hom(Mangling, LongName(N, A)) /\ Symbol(d, TRUE) = X
                 /\ X = Hom(Mangling, N) \o (Doubled \o Hom(Mangling, A))
    BY <1>1, LongSymbol
  <1>3. /\ N \in Text /\ A \in Text /\ (N \in Without({"$"}) => Clean(N)) /\ (A \in Without({"$"}) => Clean(A))
        /\ (~ AwkwardFor(d, FALSE) => N \in Without({"$"}) /\ Smooth(N))
        /\ (~ AwkwardFor(d, TRUE) => A \in Without({"$"}) /\ Smooth(A))
    BY <1>1, CleanName, Zenon
  <1>4. AwkwardFor(d, FALSE) => AwkwardFor(d, TRUE)
    BY Zenon DEF AwkwardFor
  <1>5. A \in NotZero /\ (A = <<>> => d.args = <<>>)
    BY <1>1, ArgsNotZero, ArgsBegin
  <1>6. IsCat(X, Hom(Mangling, N), Doubled \o Hom(Mangling, A))
    BY <1>2, Zenon DEF IsCat
  <1>7. CASE N \notin Without({"$"}) \/ A \notin Without({"$"})
    <2>1. LongName(N, A) \in Text /\ LongName(N, A) \notin Without({"$"})
      <3>1. PICK o : o = "$"
        OBVIOUS
      <3>2. PICK D \in Text : D = <<Slash, Slash>>
        BY DoubledCode
      <3>3. PICK E \in Text, Z \in Text : E = D \o A /\ Z = N \o E
        BY <1>3, Cat
      <3>4. Z = LongName(N, A)
        BY <3>2, <3>3, Zenon DEF LongName
      <3>5. ASSUME Z \in Without({o}) PROVE N \in Without({o}) /\ A \in Without({o})
        <4>1. N \in Without({o}) /\ E \in Without({o})
          BY <1>3, <3>3, <3>5, WithoutParts
        <4>2. A \in Without({o})
          BY <1>3, <3>3, <4>1, WithoutParts
        <4> QED
          BY <4>1, <4>2
      <3> QED
        BY <1>7, <3>1, <3>3, <3>4, <3>5, Zenon
    <2>2. parse_java_lang_name(X) = Failed
      BY <1>2, <2>1, DollarRefused, Zenon
    <2> QED
      BY <1>2, <1>3, <1>4, <1>7, <2>2, Zenon DEF SymbolParsed
  <1>8. CASE N \in Without({"$"}) /\ A \in Without({"$"}) /\ (~ Smooth(N) \/ ~ Smooth(A))
    <2>1. Clean(N) /\ Clean(A)
      BY <1>3, <1>8, Zenon
    <2>2. parse_java_lang_name(X) = Failed
      BY <1>2, <1>5, <1>6, <1>8, <2>1, LongOf
    <2> QED
      BY <1>2, <1>3, <1>4, <1>8, <2>2, Zenon DEF SymbolParsed
  <1>9. CASE Smooth(N) /\ A = <<>> /\ N \in Without({"$"}) /\ A \in Without({"$"})
    <2>1. Clean(N) /\ Clean(A)
      BY <1>3, <1>9, Zenon
    <2>2. parse_java_lang_name(X) = Wild
      BY <1>2, <1>5, <1>6, <1>9, <2>1, LongOf
    <2> QED
      BY <1>2, <1>5, <1>9, <2>2, Zenon DEF SymbolParsed
  <1>10. CASE N \in Without({"$"}) /\ A \in Without({"$"}) /\ Smooth(N) /\ Smooth(A) /\ A # <<>>
    <2>1. Clean(N) /\ Clean(A)
      BY <1>3, <1>10, Zenon
    <2>2. PICK names : names = NamesOf(Hom(Mangling, N))
      OBVIOUS
    <2>3. names # Failed /\ names.class = Joined(d.class, <<".">>) /\ names.method = d.name
      BY <1>1, <1>10, <2>2, NameFound, Zenon
    <2>4. PICK q : TypesOf(Hom(Mangling, A)) = [ok |-> "yes", args |-> q] /\ TypesReadAs(q, d)
      BY <1>1, <1>10, TypesRead, Zenon DEF TypesOf
    <2>5. parse_java_lang_name(X) = Found(names, q, TRUE)
      BY <1>2, <1>5, <1>6, <1>10, <2>1, <2>2, <2>3, <2>4, LongOf
    <2>6. PICK g, o : g = Found(names, q, o) /\ o = TRUE
      OBVIOUS
    <2>7. g # Failed /\ g # Wild /\ g.class = names.class /\ g.method = names.method /\ g.args = q /\ g.is_override = o
      <3>1. /\ Found(names, q, o) # Failed /\ Found(names, q, o) # Wild
            /\ Found(names, q, o).class = names.class /\ Found(names, q, o).method = names.method
            /\ Found(names, q, o).args = q /\ Found(names, q, o).is_override = o
        BY Outcomes
      <3> QED
        BY <2>6, <3>1, Zenon
    <2>8. parse_java_lang_name(Symbol(d, TRUE)) = g
      BY <1>2, <2>5, <2>6, Zenon
    <2> QED
      BY <2>3, <2>4, <2>6, <2>7, <2>8, Zenon DEF SymbolParsed
  <1> QED
    BY <1>7, <1>8, <1>9, <1>10, Zenon

-----------------------------------------------------------------------------
(* Everything that is read of a declaration.                               *)

\* The last letter of a text.
LEMMA LastLetter ==
    ASSUME NEW s \in Text, NEW c \in Letter, NEW w, w = <<c>>, NEW z, IsCat(z, s, w)
    PROVE  Last(z) = c
  <1>1. z = s \o <<c>>
    BY Zenon DEF IsCat
  <1>2. /\ s \o <<c>> \in Text /\ Len(s \o <<c>>) = Len(s) + 1
        /\ (s \o <<c>>)[Len(s) + 1] = c
    BY CatChar
  <1>3. z[Len(z)] = c
    BY <1>1, <1>2, Zenon
  <1> QED
    BY <1>3, Zenon DEF Last

\* The signature of a type, whole or without the dimensions of an array of objects.
LEMMA SigKinds ==
    ASSUME NEW t, IsType(t)
    PROVE  KindRead(SigTaken(t), t) /\ KindRead(TypeSig(t), t)
  <1>1. CASE t.word = "class"
    <2>1. /\ TypeSig(t) = Dims(t.dim) \o SigTaken(t)
          /\ SigTaken(t) = (<<"L">> \o Joined(t.path, <<"/">>)) \o <<";">>
          /\ t.dim \in Nat
      BY <1>1, ClassSig, Zenon
    <2>2. PICK n : IsPath(t.path, n)
      BY <1>1, ClassSig, Zenon
    <2>3. PICK J \in Text : J = Joined(t.path, <<"/">>)
      <3>1. {";"} \subseteq Mark /\ "/" \in Letter /\ "/" \notin {";"}
        BY Brackets, Zenon DEF Mark, Separator
      <3>2. Joined(t.path, <<"/">>) \in Without({";"})
        BY <2>2, <3>1, PathWithout
      <3> QED
        BY <3>2, WithoutIs, Zenon
    <2>4. PICK c \in Letter, b \in Letter : c = ";" /\ b = "L"
      BY Brackets, Zenon
    <2>5. PICK D \in Text : D = Dims(t.dim)
      BY <2>1, DimsAre, Zenon
    <2>6. PICK B \in Text, w \in Text : B = <<b>> \o J /\ w = <<c>>
      <3>1. <<b>> \in Text /\ <<c>> \in Text
        BY Char
      <3> QED
        BY <3>1, Cat
    <2>7. PICK v \in Text : v = B \o w
      BY Cat
    <2>8. SigTaken(t) = v
      BY <2>1, <2>3, <2>4, <2>6, <2>7, Zenon
    <2>9. Last(v) = c
      <3>1. IsCat(v, B, w)
        BY <2>7, Zenon DEF IsCat
      <3> QED
        BY <2>6, <3>1, LastLetter
    <2>10. TypeSig(t) = (D \o B) \o w /\ D \o B \in Text
      <3>1. (D \o B) \o w = D \o (B \o w)
        BY Assoc, ZenonT(60)
      <3>2. D \o B \in Text
        BY Cat, Zenon
      <3> QED
        BY <2>1, <2>5, <2>7, <2>8, <3>1, <3>2, Zenon
    <2>11. Last(TypeSig(t)) = c
      <3>1. IsCat(TypeSig(t), D \o B, w)
        BY <2>10, Zenon DEF IsCat
      <3> QED
        BY <2>6, <2>10, <3>1, LastLetter
    <2> QED
      BY <1>1, <2>4, <2>8, <2>9, <2>11, Zenon DEF KindRead
  <1>2. CASE t.word # "class"
    <2>1. SigTaken(t) = TypeSig(t)
      BY <1>2, Zenon DEF SigTaken
    <2> QED
      BY <1>2, <2>1, Zenon DEF KindRead
  <1> QED
    BY <1>1, <1>2, Zenon

LEMMA DeclKinds ==
    ASSUME NEW d \in Decl
    PROVE  TypesReadAs(Taken(d), d) /\ TypesReadAs(Sigs(d), d)
  <1>1. PICK n \in Nat : n = Len(d.args)
    BY DeclIs
  <1>2. DOMAIN d.args = 1..n /\ \A i \in 1..n : IsType(d.args[i])
    BY <1>1, DeclIs, Zenon
  <1>3. PICK p, q : p = Taken(d) /\ q = Sigs(d)
    OBVIOUS
  <1>4. p = [i \in 1..n |-> SigTaken(d.args[i])] /\ q = [i \in 1..n |-> TypeSig(d.args[i])]
    BY <1>2, <1>3, Zenon DEF Taken, Sigs
  <1>5. ASSUME NEW i \in 1..n
        PROVE  /\ SigTaken(d.args[i]) \in Text /\ TypeSig(d.args[i]) \in Text
               /\ KindRead(SigTaken(d.args[i]), d.args[i]) /\ KindRead(TypeSig(d.args[i]), d.args[i])
    BY <1>2, TypeSigWord, SigKinds
  <1>6. p \in Seq(Text) /\ Len(p) = n /\ DOMAIN p = 1..n
    BY <1>4, <1>5
  <1>7. q \in Seq(Text) /\ Len(q) = n /\ DOMAIN q = 1..n
    BY <1>4, <1>5
  <1>8. ASSUME NEW i \in 1..n PROVE KindRead(p[i], d.args[i]) /\ KindRead(q[i], d.args[i])
    BY <1>4, <1>5, Zenon
  <1> QED
    BY <1>1, <1>2, <1>3, <1>6, <1>7, <1>8, Zenon DEF TypesReadAs

-----------------------------------------------------------------------------
\* A declaration and what the hooks read of it.
IsRead(d) ==
    /\ parse_java_signature(Signature(d)) # Failed
    /\ TypesReadAs(parse_java_signature(Signature(d)).args, d)
    /\ \A p \in {parse_java_pretty_name(MethodToString(d)), parse_java_pretty_name(PrettyMethod(d))} :
         /\ p # Failed /\ p.class = Joined(d.class, <<".">>) /\ p.method = d.name
         /\ TypesReadAs(p.args, d)
    /\ \A l \in BOOLEAN : SymbolParsed(parse_java_lang_name(Symbol(d, l)), d, l)

LEMMA AllRead ==
    ASSUME NEW d \in Decl
    PROVE  IsRead(d)
  <1>1. TypesReadAs(Taken(d), d) /\ TypesReadAs(Sigs(d), d)
    BY DeclKinds
  <1>2. /\ parse_java_signature(Signature(d)) # Failed
        /\ TypesReadAs(parse_java_signature(Signature(d)).args, d)
    BY <1>1, SignatureRead, Zenon
  <1>3. ASSUME NEW p, IsPretty(p, d)
        PROVE  /\ p # Failed /\ p.class = Joined(d.class, <<".">>) /\ p.method = d.name
               /\ TypesReadAs(p.args, d)
    BY <1>1, <1>3, Zenon DEF IsPretty
  <1>4. IsPretty(parse_java_pretty_name(MethodToString(d)), d) /\ IsPretty(parse_java_pretty_name(PrettyMethod(d)), d)
    BY MethodToStringRead, PrettyMethodRead, Zenon
  <1>5. ASSUME NEW l \in BOOLEAN PROVE SymbolParsed(parse_java_lang_name(Symbol(d, l)), d, l)
    <2>1. l = TRUE \/ l = FALSE
      OBVIOUS
    <2> QED
      BY <2>1, ShortParsed, LongParsed, Zenon
  <1> QED
    BY <1>2, <1>3, <1>4, <1>5, Zenon DEF IsRead

-----------------------------------------------------------------------------
(* What a hook knows of a method.                                          *)

\* What a hook knows of a method, by its fields; and the name of the class of a
\* method as the parsers give it.
Info(f, a, c, n, v) == [from |-> f, args |-> a, class |-> c, name |-> n, available |-> v]
Dotted(d) == Joined(d.class, <<".">>)

IsInfo(i, f, a, c, n, v) == i = Info(f, a, c, n, v)

LEMMA InfoFields ==
    ASSUME NEW i, NEW f, NEW a, NEW c, NEW n, NEW v, IsInfo(i, f, a, c, n, v)
    PROVE  i.from = f /\ i.args = a /\ i.class = c /\ i.name = n /\ i.available = v
  BY SMT DEF Info, IsInfo

LEMMA InfoSets ==
    \A f, a, c, n, v, x :
        /\ [Info(f, a, c, n, v) EXCEPT !.from = x] = Info(x, a, c, n, v)
        /\ [Info(f, a, c, n, v) EXCEPT !.args = x] = Info(f, x, c, n, v)
        /\ [Info(f, a, c, n, v) EXCEPT !.class = x] = Info(f, a, x, n, v)
        /\ [Info(f, a, c, n, v) EXCEPT !.name = x] = Info(f, a, c, x, v)
        /\ [Info(f, a, c, n, v) EXCEPT !.available = x] = Info(f, a, c, n, x)
  BY SMT DEF Info

IsUpdate(j, i, q, e, m) == j = [i EXCEPT !.args = q, !.class = e, !.name = m, !.available = TRUE]

LEMMA InfoUpdates ==
    ASSUME NEW i, NEW f, NEW a, NEW c, NEW n, NEW v, IsInfo(i, f, a, c, n, v),
           NEW j, NEW q, NEW e, NEW m, IsUpdate(j, i, q, e, m)
    PROVE  IsInfo(j, f, q, e, m, TRUE)
  <1>1. ASSUME NEW s
        PROVE  [s EXCEPT !.args = q, !.class = e, !.name = m, !.available = TRUE]
                  = [[[[s EXCEPT !.args = q] EXCEPT !.class = e] EXCEPT !.name = m] EXCEPT !.available = TRUE]
    OBVIOUS
  <1>2. [Info(f, a, c, n, v) EXCEPT !.args = q] = Info(f, q, c, n, v)
    BY InfoSets
  <1>3. [Info(f, q, c, n, v) EXCEPT !.class = e] = Info(f, q, e, n, v)
    BY InfoSets
  <1>4. [Info(f, q, e, n, v) EXCEPT !.name = m] = Info(f, q, e, m, v)
    BY InfoSets
  <1>5. [Info(f, q, e, m, v) EXCEPT !.available = TRUE] = Info(f, q, e, m, TRUE)
    <2>1. PICK t : t = TRUE
      OBVIOUS
    <2>2. [Info(f, q, e, m, v) EXCEPT !.available = t] = Info(f, q, e, m, t)
      BY InfoSets
    <2> QED
      BY <2>1, <2>2, Zenon
  <1> QED
    BY <1>1, <1>2, <1>3, <1>4, <1>5, Zenon DEF IsInfo, IsUpdate

LEMMA NoInfoIs ==
    /\ NoInfo = Info("none", <<>>, <<>>, <<>>, FALSE)
    /\ \A f : [NoInfo EXCEPT !.from = f] = Info(f, <<>>, <<>>, <<>>, FALSE)
  <1>1. NoInfo = Info("none", <<>>, <<>>, <<>>, FALSE)
    BY Zenon DEF Info, NoInfo
  <1>2. ASSUME NEW f PROVE [NoInfo EXCEPT !.from = f] = Info(f, <<>>, <<>>, <<>>, FALSE)
    <2>1. PICK t : t = FALSE
      OBVIOUS
    <2>2. [Info("none", <<>>, <<>>, <<>>, t) EXCEPT !.from = f] = Info(f, <<>>, <<>>, <<>>, t)
      BY InfoSets
    <2> QED
      BY <1>1, <2>1, <2>2, Zenon
  <1> QED
    BY <1>1, <1>2

\* What holds of the information about the method d, of which l says whether its
\* symbol is a long one.
Right(i, d, l) ==
    /\ \E f, a, c, n, v : i = Info(f, a, c, n, v)
    /\ i.from \in {"none", "registered", "static", "refused", "wild"} /\ i.available \in BOOLEAN
    /\ d = NoMethod <=> i.from = "none"
    /\ i.available => i.from \in {"registered", "static"}
    /\ i.from = "static" => i.class = Dotted(d) /\ i.name = d.name
    /\ i.from = "refused" => AwkwardFor(d, l)
    /\ i.from = "wild" => l /\ d.args = <<>>
    /\ i.from \in {"registered", "static"} => Len(i.args) \in Nat
    /\ i.from \in {"registered", "static"} /\ (i.available \/ i.from = "registered" \/ l) =>
         TypesReadAs(i.args, d)

LEMMA ReadLen ==
    ASSUME NEW d \in Decl, NEW q, TypesReadAs(q, d)
    PROVE  Len(q) \in Nat /\ Len(q) = Len(d.args)
  <1>1. Len(q) = Len(d.args)
    BY Zenon DEF TypesReadAs
  <1> QED
    BY <1>1, DeclIs

LEMMA FromApart ==
    /\ "none" \notin {"registered", "static", "refused", "wild"}
    /\ "registered" \notin {"static", "refused", "wild"}
    /\ "static" \notin {"refused", "wild"} /\ "refused" # "wild"
  OBVIOUS

\* Nothing is known of no method.
LEMMA NoMethodRight == \A l : Right(NoInfo, NoMethod, l)
  <1>1. PICK i : i = NoInfo
    OBVIOUS
  <1>2. /\ i = Info("none", <<>>, <<>>, <<>>, FALSE)
        /\ i.from = "none" /\ i.available = FALSE
    <2>1. IsInfo(i, "none", <<>>, <<>>, <<>>, FALSE)
      BY <1>1, NoInfoIs, Zenon DEF IsInfo
    <2> QED
      BY <1>1, <2>1, NoInfoIs, InfoFields
  <1>3. i.from \notin {"registered", "static", "refused", "wild"}
    BY <1>2, FromApart, Zenon
  <1>4. i.from # "static" /\ i.from # "refused" /\ i.from # "wild"
        /\ i.from \notin {"registered", "static"}
    BY <1>3, Zenon
  <1> QED
    BY <1>1, <1>2, <1>4, Zenon DEF Right

\* hook_RegisterNatives: the arguments are those of the signature.
LEMMA RegisteredRight ==
    ASSUME NEW d \in Decl, NEW g, g # Failed, TypesReadAs(g.args, d)
    PROVE  Right([from |-> "registered", args |-> g.args, class |-> Dotted(d), name |-> d.name,
                  available |-> FALSE], d, FALSE)
  <1>1. PICK i : i = Info("registered", g.args, Dotted(d), d.name, FALSE)
    OBVIOUS
  <1>2. i.from = "registered" /\ i.args = g.args /\ i.available = FALSE
    <2>1. IsInfo(i, "registered", g.args, Dotted(d), d.name, FALSE)
      BY <1>1, Zenon DEF IsInfo
    <2> QED
      BY <2>1, InfoFields
  <1>3. d # NoMethod /\ Len(g.args) \in Nat
    BY DeclIs, ReadLen
  <1>4. i.from \notin {"static", "refused", "wild"} /\ i.from # "none"
    BY <1>2, FromApart, Zenon
  <1>5. Right(i, d, FALSE)
    BY <1>1, <1>2, <1>3, <1>4, Zenon DEF Right
  <1>6. i = [from |-> "registered", args |-> g.args, class |-> Dotted(d), name |-> d.name,
             available |-> FALSE]
    BY <1>1, Zenon DEF Info
  <1> QED
    BY <1>5, <1>6, Zenon

\* get_method_info: what it finds is right, and it spoils nothing.
LEMMA UpdatedIs ==
    ASSUME NEW i, NEW d \in Decl, NEW found
    PROVE  \/ Updated(i, d, found) = i
           \/ \E p : /\ TypesReadAs(p, d)
                     /\ Updated(i, d, found)
                           = [i EXCEPT !.args = p, !.class = Dotted(d), !.name = d.name, !.available = TRUE]
  <1>1. PICK p : p = parse_java_pretty_name(MethodToString(d))
    OBVIOUS
  <1>2. IsRead(d)
    BY AllRead
  <1>3. /\ p # Failed /\ p.class = Dotted(d) /\ p.method = d.name
        /\ TypesReadAs(p.args, d)
    BY <1>1, <1>2, Zenon DEF IsRead, Dotted
  <1>4. Updated(i, d, found) = IF found /\ i.class = Dotted(d) /\ i.name = d.name /\ p # Failed
                               THEN [i EXCEPT !.args = p.args, !.class = p.class,
                                              !.name = p.method, !.available = TRUE]
                               ELSE i
    BY <1>1, Zenon DEF Updated, Dotted
  <1>5. CASE found /\ i.class = Dotted(d) /\ i.name = d.name
    <2>1. Updated(i, d, found) = [i EXCEPT !.args = p.args, !.class = p.class,
                                           !.name = p.method, !.available = TRUE]
      BY <1>3, <1>4, <1>5, Zenon
    <2>2. Updated(i, d, found) = [i EXCEPT !.args = p.args, !.class = Dotted(d),
                                           !.name = d.name, !.available = TRUE]
      BY <1>3, <2>1, Zenon
    <2> QED
      BY <1>3, <2>2, Zenon
  <1>6. CASE ~ (found /\ i.class = Dotted(d) /\ i.name = d.name)
    BY <1>4, <1>6, Zenon
  <1> QED
    BY <1>5, <1>6, Zenon

LEMMA UpdatedRight ==
    ASSUME NEW i, NEW d \in Decl, NEW l, NEW found, Right(i, d, l), i.from \in {"registered", "static"}
    PROVE  Right(Updated(i, d, found), d, l) /\ Updated(i, d, found).from \in {"registered", "static"}
  <1>1. CASE Updated(i, d, found) = i
    BY <1>1, Zenon
  <1>2. ASSUME NEW q, TypesReadAs(q, d),
               Updated(i, d, found) = [i EXCEPT !.args = q, !.class = Dotted(d), !.name = d.name, !.available = TRUE]
        PROVE  Right(Updated(i, d, found), d, l) /\ Updated(i, d, found).from \in {"registered", "static"}
    <2>1. PICK f, a, c, n, v : i = Info(f, a, c, n, v)
      BY Zenon DEF Right
    <2>2. PICK k : k = Info(f, q, Dotted(d), d.name, TRUE)
      OBVIOUS
    <2>3. Updated(i, d, found) = k
      <3>1. IsInfo(i, f, a, c, n, v)
        BY <2>1, Zenon DEF IsInfo
      <3>2. PICK j, e, m : j = Updated(i, d, found) /\ e = Dotted(d) /\ m = d.name
        OBVIOUS
      <3>3. IsUpdate(j, i, q, e, m)
        BY <1>2, <3>2, Zenon DEF IsUpdate
      <3>4. IsInfo(j, f, q, e, m, TRUE)
        BY <3>1, <3>3, InfoUpdates
      <3> QED
        BY <2>2, <3>2, <3>4, Zenon DEF IsInfo
    <2>4. k.from = f /\ k.args = q /\ k.class = Dotted(d) /\ k.name = d.name /\ k.available = TRUE
      <3>1. IsInfo(k, f, q, Dotted(d), d.name, TRUE)
        BY <2>2, Zenon DEF IsInfo
      <3> QED
        BY <3>1, InfoFields
    <2>5. f = i.from
      <3>1. IsInfo(i, f, a, c, n, v)
        BY <2>1, Zenon DEF IsInfo
      <3> QED
        BY <3>1, InfoFields
    <2>6. k.from \in {"registered", "static"}
      BY <2>4, <2>5, Zenon
    <2>7. k.from # "refused" /\ k.from # "wild" /\ k.from # "none" /\ k.from \in {"none", "registered", "static", "refused", "wild"}
      BY <2>6, FromApart, Zenon
    <2>8. d # NoMethod /\ Len(q) \in Nat
      BY <1>2, DeclIs, ReadLen
    <2>9. Right(k, d, l)
      BY <1>2, <2>2, <2>4, <2>6, <2>7, <2>8, Zenon DEF Right
    <2> QED
      BY <2>3, <2>6, <2>9, Zenon
  <1> QED
    BY <1>1, <1>2, UpdatedIs, Zenon

-----------------------------------------------------------------------------
(* What a hook learns from the symbol table.                               *)

\* Information that a hook has from another source than reflection.
LEMMA FieldsRight ==
    ASSUME NEW d \in Decl, NEW l, NEW i, NEW f, NEW a, NEW c, NEW n, IsInfo(i, f, a, c, n, FALSE),
           f \in {"static", "refused", "wild"},
           f = "static" => c = Dotted(d) /\ n = d.name /\ Len(a) \in Nat /\ (l => TypesReadAs(a, d)),
           f = "refused" => AwkwardFor(d, l),
           f = "wild" => l /\ d.args = <<>>
    PROVE  Right(i, d, l)
  <1>1. i.from = f /\ i.args = a /\ i.class = c /\ i.name = n /\ i.available = FALSE
    BY InfoFields
  <1>2. f # "none" /\ f # "registered" /\ f \in {"none", "registered", "static", "refused", "wild"}
    BY FromApart, Zenon
  <1>3. d # NoMethod
    BY DeclIs
  <1>4. f \in {"registered", "static"} => f = "static"
    BY <1>2, Zenon
  <1>5. \E g, b, e, m, v : i = Info(g, b, e, m, v)
    BY Zenon DEF IsInfo
  <1> QED
    BY <1>1, <1>2, <1>3, <1>4, <1>5, Zenon DEF Right

LEMMA RefusedRight ==
    ASSUME NEW d \in Decl, NEW l, AwkwardFor(d, l)
    PROVE  Right([NoInfo EXCEPT !.from = "refused"], d, l)
  <1>1. PICK i : i = [NoInfo EXCEPT !.from = "refused"]
    OBVIOUS
  <1>2. IsInfo(i, "refused", <<>>, <<>>, <<>>, FALSE)
    BY <1>1, NoInfoIs, Zenon DEF IsInfo
  <1>3. "refused" # "static" /\ "refused" # "wild"
    OBVIOUS
  <1>4. Right(i, d, l)
    BY <1>2, <1>3, FieldsRight
  <1> QED
    BY <1>1, <1>4, Zenon

LEMMA WildRight ==
    ASSUME NEW d \in Decl, NEW l, l, d.args = <<>>
    PROVE  Right([NoInfo EXCEPT !.from = "wild"], d, l)
  <1>1. PICK i : i = [NoInfo EXCEPT !.from = "wild"]
    OBVIOUS
  <1>2. IsInfo(i, "wild", <<>>, <<>>, <<>>, FALSE)
    BY <1>1, NoInfoIs, Zenon DEF IsInfo
  <1>3. "wild" # "static" /\ "wild" # "refused"
    OBVIOUS
  <1>4. Right(i, d, l)
    BY <1>2, <1>3, FieldsRight
  <1> QED
    BY <1>1, <1>4, Zenon

\* What enum_static_jni_func makes of the symbol of a method.
StaticInfo(d, l, found) ==
    LET parsed == parse_java_lang_name(Symbol(d, l))
        i == [from |-> "static", args |-> parsed.args, class |-> parsed.class,
              name |-> parsed.method, available |-> FALSE]
    IN  IF parsed = Failed THEN [NoInfo EXCEPT !.from = "refused"]
        ELSE IF parsed = Wild THEN [NoInfo EXCEPT !.from = "wild"]
        ELSE IF parsed.is_override THEN i ELSE Updated(i, d, found)

LEMMA StaticRight ==
    ASSUME NEW d \in Decl, NEW l \in BOOLEAN, NEW found
    PROVE  Right(StaticInfo(d, l, found), d, l)
  <1>1. PICK g : g = parse_java_lang_name(Symbol(d, l))
    OBVIOUS
  <1>2. SymbolParsed(g, d, l)
    BY <1>1, AllRead, Zenon DEF IsRead
  <1>3. PICK i : i = [from |-> "static", args |-> g.args, class |-> g.class, name |-> g.method, available |-> FALSE]
    OBVIOUS
  <1>4. StaticInfo(d, l, found) = IF g = Failed THEN [NoInfo EXCEPT !.from = "refused"]
                                  ELSE IF g = Wild THEN [NoInfo EXCEPT !.from = "wild"]
                                  ELSE IF g.is_override THEN i ELSE Updated(i, d, found)
    BY <1>1, <1>3, Zenon DEF StaticInfo
  <1>5. Wild # Failed
    BY Outcomes
  <1>6. CASE g = Failed /\ AwkwardFor(d, l)
    BY <1>4, <1>6, RefusedRight, Zenon
  <1>7. CASE g = Wild /\ l /\ d.args = <<>>
    BY <1>4, <1>5, <1>7, WildRight, Zenon
  <1>8. CASE /\ g # Failed /\ g # Wild
             /\ g.class = Dotted(d) /\ g.method = d.name /\ g.is_override = l
             /\ l => TypesReadAs(g.args, d)
             /\ ~ l => g.args = <<>>
    <2>1. Len(g.args) \in Nat
      <3>1. CASE l
        BY <1>8, <3>1, ReadLen
      <3>2. CASE ~ l
        BY <1>8, <3>2, Empty
      <3> QED
        BY <3>1, <3>2
    <2>2. IsInfo(i, "static", g.args, g.class, g.method, FALSE)
      BY <1>3, Zenon DEF IsInfo, Info
    <2>3. "static" # "refused" /\ "static" # "wild"
      OBVIOUS
    <2>4. Right(i, d, l)
      BY <1>8, <2>1, <2>2, <2>3, FieldsRight
    <2>5. i.from \in {"registered", "static"}
      BY <1>3
    <2>6. CASE l
      BY <1>4, <1>8, <2>4, <2>6, Zenon
    <2>7. CASE ~ l
      <3>1. Right(Updated(i, d, found), d, l)
        BY <2>4, <2>5, UpdatedRight
      <3> QED
        BY <1>4, <1>8, <2>7, <3>1, Zenon
    <2> QED
      BY <2>6, <2>7
  <1> QED
    BY <1>2, <1>6, <1>7, <1>8, Zenon DEF SymbolParsed, Dotted

-----------------------------------------------------------------------------
(* The counts of a declared method's calls.                                *)

\* A call of a declared method through a hook.
CallFits(c, d, hook) ==
    /\ c \in Call /\ c.hook = hook
    /\ c.ints + c.fps = Len(d.args)

LEMMA CallsFit ==
    ASSUME NEW d \in Decl, NEW hook \in {"native", "call"}, NEW slot \in Slot
    PROVE  CallFits(CallOf(d, hook, slot), d, hook)
  <1>1. PICK n \in Nat : n = Len(d.args) /\ DOMAIN d.args = 1..n /\ n <= MaxInts /\ n <= MaxFps
    BY DeclIs
  <1>2. PICK F : F = {i \in DOMAIN d.args : Floating(d.args[i])}
    OBVIOUS
  <1>3. Cardinality(F) \in 0..n
    <2>1. F \in SUBSET (1..n)
      BY <1>1, <1>2
    <2>2. IsFiniteSet(1..n) /\ Cardinality(1..n) = n
      BY FS_Interval
    <2>3. IsFiniteSet(F) /\ Cardinality(F) <= n
      BY <2>1, <2>2, FS_Subset, Zenon
    <2>4. Cardinality(F) \in Nat
      BY <2>3, FS_CardinalityType
    <2> QED
      BY <2>3, <2>4
  <1>4. PICK m \in 0..n : m = Cardinality(F)
    BY <1>3
  <1>5. CallOf(d, hook, slot) = [hook |-> hook, slot |-> slot, ints |-> n - m, fps |-> m]
    BY <1>1, <1>2, <1>4, Zenon DEF CallOf
  <1>6. n - m \in 0..MaxInts /\ m \in 0..MaxFps /\ (n - m) + m = n
    BY <1>1, ArgsAssumption
  <1>7. PICK k : k = n - m
    OBVIOUS
  <1>8. PICK c : c = [hook |-> hook, slot |-> slot, ints |-> k, fps |-> m]
    OBVIOUS
  <1>9. c \in [hook: {"native", "call"}, slot: Slot, ints: 0..MaxInts, fps: 0..MaxFps]
    BY <1>6, <1>7, <1>8
  <1>10. c.hook = hook /\ c.ints = k /\ c.fps = m
    BY <1>8
  <1>11. c \in Call
    BY <1>9, Zenon DEF Call
  <1> QED
    BY <1>1, <1>5, <1>6, <1>7, <1>8, <1>10, <1>11, Zenon DEF CallFits

\* The counts that the hooks take from the number of arguments they know.
LEMMA ArgcKnown ==
    ASSUME NEW c \in Call, c.hook # "watch", NEW n \in Nat
    PROVE  /\ NativeArgc([c EXCEPT !.ints = n, !.fps = 0]) \in Nat
           /\ CallArgc([c EXCEPT !.ints = n, !.fps = 0]) \in Nat
           /\ n = c.ints + c.fps =>
                /\ NativeArgc([c EXCEPT !.ints = n, !.fps = 0]) = NativeArgc(c)
                /\ CallArgc([c EXCEPT !.ints = n, !.fps = 0]) = CallArgc(c)
  <1>1. PICK e : e = [c EXCEPT !.ints = n, !.fps = 0]
    OBVIOUS
  <1>2. c \in [hook: {"native", "call"}, slot: Slot, ints: 0..MaxInts, fps: 0..MaxFps]
    BY DEF Call
  <1>3. e.ints = n /\ e.fps = 0 /\ e.slot = c.slot
    BY <1>1, <1>2
  <1>4. e.ints + e.fps = n
    BY <1>3
  <1>5. NativeArgc(e) = Excess(n + 2, REG_COUNT)
    BY <1>4, Zenon DEF NativeArgc
  <1>6. CallArgc(e) = IF mod_index(c.slot) = 0 THEN Excess(n + Fixed(c.slot), REG_COUNT)
                      ELSE Excess(Fixed(c.slot) + 1, REG_COUNT)
    BY <1>3, <1>4, Zenon DEF CallArgc
  <1>7. /\ n + 2 \in Nat /\ Fixed(c.slot) + 1 \in Nat /\ n + Fixed(c.slot) \in Nat
    BY DEF Fixed
  <1>8. ASSUME NEW a \in Nat PROVE Excess(a, REG_COUNT) \in Nat
    BY DEF Excess, REG_COUNT
  <1>9. NativeArgc(e) \in Nat
    BY <1>5, <1>7, <1>8, Zenon
  <1>10. CallArgc(e) \in Nat
    BY <1>6, <1>7, <1>8, Zenon
  <1>11. ASSUME n = c.ints + c.fps PROVE NativeArgc(e) = NativeArgc(c) /\ CallArgc(e) = CallArgc(c)
    BY <1>5, <1>6, <1>11, Zenon DEF NativeArgc, CallArgc
  <1> QED
    BY <1>1, <1>9, <1>10, <1>11, Zenon

-----------------------------------------------------------------------------
(* The invariant: learning of a method.                                    *)

\* While a method is known its calls are counted as declared; before any method is,
\* only printf-like functions are called.
CallInv ==
    /\ pc # "idle" /\ method = NoMethod => call.hook = "watch"
    /\ Known \/ method = NoMethod => CountInv

MethodInv ==
    /\ method \in Decl \cup {NoMethod} /\ long \in BOOLEAN
    /\ Right(info, method, long)

JInv == IInv /\ MethodInv /\ CallInv

LEMMA IdleCounts == pc = "idle" => CountInv
  BY DEF CountInv

LEMMA JInitInv == JInit => JInv
  <1> SUFFICES ASSUME JInit PROVE JInv
    OBVIOUS
  <1>1. IInv
    BY InitIInv DEF JInit
  <1>2. MethodInv
    BY NoMethodRight, Zenon DEF JInit, MethodInv
  <1>3. pc = "idle"
    BY DEF JInit, Init
  <1> QED
    BY <1>1, <1>2, <1>3, IdleCounts, Zenon DEF JInv, CallInv

\* Between calls anything right may be learnt.
LEMMA LearnJInv ==
    ASSUME JInv, NEW d \in Decl \cup {NoMethod}, NEW l \in BOOLEAN, NEW i, Right(i, d, l),
           pc = "idle", method' = d, long' = l, info' = i, UNCHANGED vars
    PROVE  JInv'
  <1>1. MethodInv'
    BY Zenon DEF MethodInv
  <1>2. pc' = "idle"
    BY Zenon DEF vars
  <1>3. CountInv'
    BY <1>2 DEF CountInv
  <1>4. CallInv'
    BY <1>2, <1>3, Zenon DEF CallInv
  <1>5. IInv'
    BY RoutineIInv, Zenon DEF JInv
  <1> QED
    BY <1>1, <1>4, <1>5, Zenon DEF JInv

LEMMA RegisterJInv ==
    ASSUME JInv, NEW d \in Decl, hook_RegisterNatives(d)
    PROVE  JInv' /\ UNCHANGED vars
  <1>1. PICK g : g = parse_java_signature(Signature(d))
    OBVIOUS
  <1>2. g # Failed /\ TypesReadAs(g.args, d)
    BY <1>1, AllRead, Zenon DEF IsRead
  <1>3. PICK i : i = [from |-> "registered", args |-> g.args, class |-> Dotted(d), name |-> d.name,
                      available |-> FALSE]
    OBVIOUS
  <1>4. Learn(d, FALSE, i)
    BY <1>1, <1>2, <1>3, Zenon DEF hook_RegisterNatives, Dotted
  <1>5. Right(i, d, FALSE)
    BY <1>2, <1>3, RegisteredRight, Zenon
  <1>6. d \in Decl \cup {NoMethod} /\ FALSE \in BOOLEAN
    OBVIOUS
  <1>7. pc = "idle" /\ method' = d /\ long' = FALSE /\ info' = i /\ UNCHANGED vars
    BY <1>4, Zenon DEF Learn
  <1>8. PICK f \in BOOLEAN : f = FALSE
    OBVIOUS
  <1>9. Right(i, d, f) /\ long' = f
    BY <1>5, <1>7, <1>8, Zenon
  <1> QED
    BY <1>6, <1>7, <1>9, LearnJInv, Zenon

LEMMA StaticJInv ==
    ASSUME JInv, NEW d \in Decl, NEW l \in BOOLEAN, NEW found \in BOOLEAN, enum_static_jni_func(d, l, found)
    PROVE  JInv' /\ UNCHANGED vars
  <1>1. Learn(d, l, StaticInfo(d, l, found))
    BY Zenon DEF enum_static_jni_func, StaticInfo
  <1>2. PICK i : i = StaticInfo(d, l, found)
    OBVIOUS
  <1>3. Right(i, d, l)
    BY <1>2, StaticRight, Zenon
  <1>4. pc = "idle" /\ method' = d /\ long' = l /\ info' = i /\ UNCHANGED vars
    BY <1>1, <1>2, Zenon DEF Learn
  <1>5. d \in Decl \cup {NoMethod}
    OBVIOUS
  <1> QED
    BY <1>3, <1>4, <1>5, LearnJInv, Zenon

LEMMA RestartJInv ==
    ASSUME JInv, Restart
    PROVE  JInv' /\ UNCHANGED vars
  <1>1. PICK d \in Decl \cup {NoMethod} : d = NoMethod
    OBVIOUS
  <1>2. PICK l \in BOOLEAN : l = FALSE
    OBVIOUS
  <1>3. PICK i : i = NoInfo
    OBVIOUS
  <1>4. Right(i, d, l)
    BY <1>1, <1>3, NoMethodRight, Zenon
  <1>5. pc = "idle" /\ method' = d /\ long' = l /\ info' = i /\ UNCHANGED vars
    BY <1>1, <1>2, <1>3, Zenon DEF Restart
  <1> QED
    BY <1>4, <1>5, LearnJInv, Zenon

-----------------------------------------------------------------------------
(* The invariant: the calls.                                               *)

\* A call with a count enters the routine in a good frame.
LEMMA EnterJInv ==
    ASSUME JInv, MethodInv', NEW c \in Call, NEW n \in Nat, Enter(c, n),
           method' = NoMethod => c.hook = "watch",
           c.hook = "native" /\ Known' => n = NativeArgc(c),
           c.hook = "native" => method' # NoMethod,
           c.hook = "watch" => n = WatchArgc(c)
    PROVE  JInv'
  <1>1. pc' = "align" /\ call' = c /\ argc' = n
    BY DEF Enter
  <1>2. IInv'
    BY EnterIInv DEF JInv
  <1>3. Known' \/ method' = NoMethod => CountInv'
    BY <1>1 DEF CountInv
  <1>4. CallInv'
    BY <1>1, <1>3, Zenon DEF CallInv
  <1> QED
    BY <1>2, <1>4, Zenon DEF JInv

LEMMA NativeJInv ==
    ASSUME JInv, NEW slot \in Slot, NEW found \in BOOLEAN, call_native(slot, found)
    PROVE  JInv' /\ call'.hook = "native" /\ (Known' => hook_native_func(call'))
  <1>1. MethodInv /\ Hooked
    BY Zenon DEF JInv, call_native
  <1>2. PICK d, l : d = method /\ l = long
    OBVIOUS
  <1>3. info.from \in {"registered", "static"} /\ Right(info, d, l)
    BY <1>1, <1>2, Zenon DEF Hooked, MethodInv
  <1>4. info.from # "none"
    BY <1>3, FromApart, Zenon
  <1>5. d # NoMethod
    BY <1>3, <1>4, Zenon DEF Right
  <1>6. d \in Decl
    BY <1>1, <1>2, <1>5, Zenon DEF MethodInv
  <1>7. PICK i : i = IF info.available THEN info ELSE Updated(info, d, found)
    OBVIOUS
  <1>8. Right(i, d, l) /\ i.from \in {"registered", "static"}
    <2>1. Right(Updated(info, d, found), d, l) /\ Updated(info, d, found).from \in {"registered", "static"}
      BY <1>3, <1>6, UpdatedRight
    <2> QED
      BY <1>3, <1>7, <2>1, Zenon
  <1>9. Len(i.args) \in Nat
    BY <1>8, Zenon DEF Right
  <1>10. PICK n \in Nat : n = Len(i.args)
    BY <1>9
  <1>11. PICK c : c = CallOf(d, "native", slot)
    OBVIOUS
  <1>12. CallFits(c, d, "native")
    <2>1. "native" \in {"native", "call"}
      OBVIOUS
    <2> QED
      BY <1>6, <1>11, <2>1, CallsFit, Zenon
  <1>13. PICK e : e = NativeArgc([c EXCEPT !.ints = n, !.fps = 0])
    OBVIOUS
  <1>14. info' = i /\ Enter(c, e) /\ method' = d /\ long' = l
    BY <1>2, <1>7, <1>10, <1>11, <1>13, Zenon DEF call_native
  <1>15. c \in Call /\ c.hook = "native" /\ c.ints + c.fps = Len(d.args)
    BY <1>12, Zenon DEF CallFits
  <1>16. c.hook # "watch" /\ c.hook # "call"
    BY <1>15
  <1>17. e \in Nat /\ (n = c.ints + c.fps => e = NativeArgc(c))
    BY <1>13, <1>15, <1>16, ArgcKnown
  <1>18. ASSUME Known' PROVE e = NativeArgc(c)
    <2>1. i.from \in {"registered", "static"} /\ (i.available \/ i.from = "registered" \/ l)
      BY <1>14, <1>18, Zenon DEF Known, Hooked
    <2>2. TypesReadAs(i.args, d)
      BY <1>8, <2>1, Zenon DEF Right
    <2>3. n = Len(d.args)
      BY <1>10, <2>2, Zenon DEF TypesReadAs
    <2> QED
      BY <1>15, <1>17, <2>3, Zenon
  <1>19. MethodInv'
    BY <1>1, <1>2, <1>8, <1>14, Zenon DEF MethodInv
  <1>20. method' # NoMethod
    BY <1>5, <1>14, Zenon
  <1>21. JInv'
    BY <1>14, <1>15, <1>16, <1>17, <1>18, <1>19, <1>20, EnterJInv
  <1>22. call' = c
    BY <1>14, Zenon DEF Enter
  <1>23. ASSUME Known' PROVE hook_native_func(c)
    BY <1>14, <1>15, <1>18, <1>23, Zenon DEF hook_native_func
  <1>24. call'.hook = "native" /\ (Known' => hook_native_func(call'))
    BY <1>15, <1>22, <1>23, Zenon DEF hook_native_func
  <1> QED
    BY <1>21, <1>24, Zenon

LEMMA ReturnJInv ==
    ASSUME JInv, NEW slot \in Slot, NEW c, ReturnZero(c), CallFits(c, method, "call"),
           method # NoMethod, UNCHANGED <<method, long, info>>
    PROVE  JInv' /\ hook_call_methods(c) /\ call' = c
  <1>1. c \in Call /\ c.hook = "call"
    BY Zenon DEF CallFits
  <1>2. pc' = "dropped" /\ call' = c
    BY DEF ReturnZero
  <1>3. IInv'
    BY <1>1, ReturnIInv DEF JInv
  <1>4. method' = method /\ MethodInv'
    BY Zenon DEF JInv, MethodInv
  <1>5. CountInv'
    BY <1>1, <1>2 DEF CountInv
  <1>6. CallInv'
    BY <1>4, <1>5, Zenon DEF CallInv
  <1> QED
    BY <1>1, <1>2, <1>3, <1>4, <1>6, Zenon DEF JInv, hook_call_methods

LEMMA JavaJInv ==
    ASSUME JInv, NEW slot \in Slot, call_java(slot)
    PROVE  JInv' /\ hook_call_methods(call')
  <1>1. MethodInv /\ method # NoMethod
    BY Zenon DEF JInv, call_java
  <1>2. PICK d : d = method
    OBVIOUS
  <1>3. d \in Decl
    BY <1>1, <1>2, Zenon DEF MethodInv
  <1>4. PICK p : p = parse_java_pretty_name(PrettyMethod(d))
    OBVIOUS
  <1>5. p # Failed /\ TypesReadAs(p.args, d)
    BY <1>3, <1>4, AllRead, Zenon DEF IsRead
  <1>6. PICK n \in Nat : n = Len(p.args) /\ n = Len(d.args)
    BY <1>3, <1>5, ReadLen
  <1>7. PICK c : c = CallOf(d, "call", slot)
    OBVIOUS
  <1>8. CallFits(c, d, "call")
    <2>1. "call" \in {"native", "call"}
      OBVIOUS
    <2> QED
      BY <1>3, <1>7, <2>1, CallsFit, Zenon
  <1>9. c \in Call /\ c.hook = "call" /\ c.ints + c.fps = Len(d.args)
    BY <1>8, Zenon DEF CallFits
  <1>10. PICK e : e = CallArgc([c EXCEPT !.ints = n, !.fps = 0])
    OBVIOUS
  <1>11. /\ Enter(c, e) /\ UNCHANGED <<method, long, info>>
    BY <1>2, <1>4, <1>5, <1>6, <1>7, <1>10, Zenon DEF call_java
  <1>12. c.hook # "watch" /\ c.hook # "native"
    BY <1>9
  <1>13. e \in Nat /\ e = CallArgc(c)
    BY <1>6, <1>9, <1>10, <1>12, ArgcKnown
  <1>14. MethodInv' /\ method' # NoMethod
    BY <1>1, <1>11, Zenon DEF MethodInv
  <1>15. JInv'
    BY <1>9, <1>11, <1>12, <1>13, <1>14, EnterJInv
  <1>16. call' = c
    BY <1>11, Zenon DEF Enter
  <1> QED
    BY <1>9, <1>11, <1>13, <1>15, <1>16, Zenon DEF hook_call_methods

LEMMA UnnamedJInv ==
    ASSUME JInv, NEW slot \in Slot, call_java_unnamed(slot)
    PROVE  JInv' /\ hook_call_methods(call')
  <1>1. /\ MethodInv /\ method # NoMethod /\ ReturnZero(CallOf(method, "call", slot))
        /\ UNCHANGED <<method, long, info>>
    BY Zenon DEF JInv, call_java_unnamed
  <1>2. method \in Decl
    BY <1>1, Zenon DEF MethodInv
  <1>3. PICK c : c = CallOf(method, "call", slot)
    OBVIOUS
  <1>4. CallFits(c, method, "call")
    <2>1. "call" \in {"native", "call"}
      OBVIOUS
    <2> QED
      BY <1>2, <1>3, <2>1, CallsFit, Zenon
  <1>5. ReturnZero(c)
    BY <1>1, <1>3, Zenon
  <1>6. JInv' /\ hook_call_methods(c) /\ call' = c
    BY <1>1, <1>4, <1>5, ReturnJInv
  <1> QED
    BY <1>6, Zenon

LEMMA WatchedJInv ==
    ASSUME JInv, NEW c \in Watched, method = NoMethod, call_watched(c)
    PROVE  JInv' /\ hook_libc_func(call')
  <1>1. c \in Call
    BY WatchedAssumption
  <1>2. /\ c.hook = "watch" /\ c.stars <= c.ints /\ Enter(c, WatchArgc(c))
        /\ UNCHANGED <<method, long, info>>
    BY Zenon DEF call_watched, hook_libc_func
  <1>3. PICK n \in Nat : n = WatchArgc(c)
    BY <1>1, <1>2, Counts
  <1>4. MethodInv'
    BY <1>2, Zenon DEF JInv, MethodInv
  <1>5. Enter(c, n)
    BY <1>2, <1>3, Zenon
  <1>6. c.hook # "native"
    BY <1>2
  <1>7. JInv'
    BY <1>1, <1>2, <1>3, <1>4, <1>5, <1>6, EnterJInv
  <1>8. call' = c
    BY <1>5, Zenon DEF Enter
  <1> QED
    BY <1>2, <1>7, <1>8, Zenon DEF hook_libc_func

LEMMA RouteJInv ==
    ASSUME JInv, [Routine]_vars, UNCHANGED <<method, long, info>>
    PROVE  JInv'
  <1>1. IInv'
    BY RoutineIInv, Zenon DEF JInv
  <1>2. MethodInv' /\ (Known' <=> Known) /\ method' = method
    BY Zenon DEF JInv, MethodInv, Known, Hooked
  <1>3. Known' \/ method' = NoMethod => CountInv'
    BY <1>2, RoutineCountInv, Zenon DEF JInv, CallInv
  <1>4. pc' # "idle" => pc # "idle" /\ call' = call
    BY DEF Routine, route_align, route_push, route_call, route_ret, vars
  <1>5. CallInv'
    BY <1>2, <1>3, <1>4, Zenon DEF JInv, CallInv
  <1> QED
    BY <1>1, <1>2, <1>5, Zenon DEF JInv

-----------------------------------------------------------------------------
(* The theorems about JniCall.                                             *)

\* What a step of JNext may do to the variables of RouteFunc: the action of the
\* property RoutesAsDeclared.
Declared ==
    \/ hook_native_func(call') \/ hook_call_methods(call') \/ hook_libc_func(call')
    \/ route_align \/ route_push \/ route_call \/ route_ret
    \/ call'.hook = "native" /\ ~ Known'

LEMMA JNextInv == JInv /\ [JNext]_jvars => JInv' /\ [Declared]_vars
  <1> SUFFICES ASSUME JInv, [JNext]_jvars
               PROVE  JInv' /\ [Declared]_vars
    OBVIOUS
  <1>1. ASSUME NEW d \in Decl, hook_RegisterNatives(d)
        PROVE  JInv' /\ [Declared]_vars
    BY <1>1, RegisterJInv, Zenon
  <1>2. ASSUME NEW d \in Decl, NEW l \in BOOLEAN, NEW found \in BOOLEAN, enum_static_jni_func(d, l, found)
        PROVE  JInv' /\ [Declared]_vars
    BY <1>2, StaticJInv, Zenon
  <1>3. ASSUME Restart
        PROVE  JInv' /\ [Declared]_vars
    BY <1>3, RestartJInv, Zenon
  <1>4. ASSUME NEW slot \in Slot, NEW found \in BOOLEAN, call_native(slot, found)
        PROVE  JInv' /\ [Declared]_vars
    BY <1>4, NativeJInv DEF Declared
  <1>5. ASSUME NEW slot \in Slot, call_java(slot)
        PROVE  JInv' /\ [Declared]_vars
    BY <1>5, JavaJInv DEF Declared
  <1>6. ASSUME NEW slot \in Slot, call_java_unnamed(slot)
        PROVE  JInv' /\ [Declared]_vars
    BY <1>6, UnnamedJInv DEF Declared
  <1>7. ASSUME method = NoMethod, NEW c \in Watched, call_watched(c)
        PROVE  JInv' /\ [Declared]_vars
    BY <1>7, WatchedJInv DEF Declared
  <1>8. ASSUME Route
        PROVE  JInv' /\ [Declared]_vars
    <2>1. Routine /\ UNCHANGED <<method, long, info>>
      BY <1>8, Zenon DEF Route, Routine
    <2> QED
      BY <2>1, RouteJInv, Zenon DEF Routine, Declared
  <1>9. ASSUME UNCHANGED jvars
        PROVE  JInv' /\ [Declared]_vars
    <2>1. UNCHANGED vars /\ UNCHANGED <<method, long, info>>
      BY <1>9, Zenon DEF jvars
    <2> QED
      BY <2>1, RouteJInv, Zenon
  <1> QED
    BY <1>1, <1>2, <1>3, <1>4, <1>5, <1>6, <1>7, <1>8, <1>9, Zenon DEF JNext

LEMMA JInvAlways == JSpec => []JInv
  BY JInitInv, JNextInv, PTL DEF JSpec

-----------------------------------------------------------------------------
LEMMA JInvTypes == JInv => JTypeOK
  <1> SUFFICES ASSUME JInv PROVE JTypeOK
    OBVIOUS
  <1>1. TypeOK /\ long \in BOOLEAN /\ Right(info, method, long)
    BY Zenon DEF JInv, IInv, MethodInv
  <1> QED
    BY <1>1, Zenon DEF Right, JTypeOK, Hooked

LEMMA JInvRead == JInv => DeclarationRead
  <1> SUFFICES ASSUME JInv PROVE DeclarationRead
    OBVIOUS
  <1>1. IInv /\ CallInv /\ Right(info, method, long)
    BY Zenon DEF JInv, MethodInv
  <1>2. SymbolRead
    BY <1>1, Zenon DEF Right, SymbolRead, AwkwardFor, AwkwardSymbol, Dotted
  <1>3. ASSUME Known PROVE TypesReadAs(info.args, method)
    BY <1>1, <1>3, Zenon DEF Known, Hooked, Right
  <1>4. KindsRead
    BY <1>3, Zenon DEF KindsRead, TypesReadAs, KindRead
  <1>5. KnownCountCovers
    BY <1>1, CountsSuffice, Zenon DEF CallInv, KnownCountCovers
  <1>6. PrintedRead
    <2> SUFFICES ASSUME method # NoMethod PROVE PrintedRead
      BY Zenon DEF PrintedRead
    <2>1. PICK d : d = method
      OBVIOUS
    <2>2. d \in Decl
      BY <2>1, Zenon DEF JInv, MethodInv
    <2>3. PICK p : p = parse_java_pretty_name(PrettyMethod(d))
      OBVIOUS
    <2>4. p # Failed /\ p.class = Joined(d.class, <<".">>) /\ p.method = d.name /\ TypesReadAs(p.args, d)
      BY <2>2, <2>3, AllRead, Zenon DEF IsRead
    <2>5. Len(p.args) = Len(d.args)
      BY <2>4, Zenon DEF TypesReadAs
    <2> QED
      BY <2>1, <2>3, <2>4, <2>5, Zenon DEF PrintedRead
  <1> QED
    BY <1>2, <1>4, <1>5, <1>6, Zenon DEF DeclarationRead

\* The registers and the frame keep their types when the counts come from the parsers,
\* and something is known of a method exactly while there is one: what reflection gave
\* (available) only of a method that the hook took.
THEOREM JTypesCorrect == JSpec => []JTypeOK
  BY JInvAlways, JInvTypes, PTL

\* What route_func hands to the callee is right for every declaration, with the counts
\* that hook_native_func and hook_call_methods compute from what the parsers found, as
\* far as these cover the callee's stack arguments.
THEOREM JCallsRouted == JSpec => []CallRouted
<1>1. JInv => CallRouted
  BY FrameRouted, Zenon DEF JInv
<1> QED
  BY <1>1, JInvAlways, PTL

\* Whatever a class, its method and the types of the arguments are called: a registered
\* method has the number and kinds of arguments it was declared with, an exported symbol is
\* found under the names it was made of or is skipped because a name in it begins with an
\* underscore or contains a dollar, its printed name is never refused, and the stack words
\* that hook_native_func copies for a known method are enough for the arguments it takes.
THEOREM DeclarationsRead == JSpec => []DeclarationRead
  BY JInvAlways, JInvRead, PTL

\* Every step of the composition is one that RouteFunc allows for the declaration: the
\* argument count found by the parsers is that of the declared arguments, but for native
\* methods whose symbol is short and whose class the hook has not found.
THEOREM RoutedAsDeclared == JSpec => RoutesAsDeclared
<1>1. JSpec => [][Declared]_vars
  BY JInitInv, JNextInv, PTL DEF JSpec
<1> QED
  BY <1>1, PTL DEF RoutesAsDeclared, Declared
=============================================================================
