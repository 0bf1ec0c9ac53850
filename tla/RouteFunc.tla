----------------------------- MODULE RouteFunc ------------------------------
(***************************************************************************)
(* One call through a hook on arm64: a hook function computes how many     *)
(* words of its caller's stack are arguments, and route_jni_func of        *)
(* route_func/asm64/route_arm64.asm pushes that many again and calls the   *)
(* original.                                                               *)
(*                                                                         *)
(* The stack is counted in words of 8 bytes, x19 (the frame of             *)
(* route_jni_func, 16-byte aligned) being word 0.  Word i of the caller's  *)
(* stack arguments is the value i + 1.                                     *)
(***************************************************************************)
EXTENDS Integers

CONSTANTS
    Slot,     \* slots of the JNI function table that hook_call_methods serves
    MaxInts,  \* bound: integer and pointer arguments of the Java method
    MaxFps    \* bound: floating-point arguments of the Java method

ASSUME SlotAssumption == Slot \subseteq 28..143
ASSUME ArgsAssumption == MaxInts \in Nat /\ MaxFps \in Nat

REG_COUNT == 8
Unset == -1     \* a stack word that route_jni_func has not written
Padding == 0

VARIABLES
    call,   \* the call: which hook it meets and what the Java method takes
    pc,     \* where it is
    argc,   \* the number of stack words the hook asks for
    x0,     \* index of the next word to push
    x10,    \* where the last word was pushed
    sp,
    mem,    \* the words below x19
    seen    \* the stack arguments the original function reads

vars == <<call, pc, argc, x0, x10, sp, mem, seen>>

\* A call meets hook_native_func, hook_call_methods or, in a printf-like function
\* of libc, hook_libc_func: fixed is the number of parameters up to the format, and
\* stars how many widths of the format are arguments of their own.
Call == [hook: {"native", "call"}, slot: Slot, ints: 0..MaxInts, fps: 0..MaxFps]
          \cup [hook: {"watch"}, fixed: 1..3, stars: 0..1,
                ints: 0..MaxInts, fps: 0..MaxFps]

\* The entries of methods_json: the parameters before "...", va_list or jvalue*,
\* and which slots have "...".
Fixed(slot) == IF slot \in 64..93 THEN 4 ELSE 3
Variadic(slot) == IF slot <= 93 THEN slot % 3 = 1 ELSE slot % 3 = 0

Excess(n, registers) == IF n > registers THEN n - registers ELSE 0

\* How many stack words the callee takes under the calling convention: integer
\* and floating-point arguments fill eight registers each.
StackWords(c) ==
    CASE c.hook = "native" -> Excess(c.ints + 2, REG_COUNT) + Excess(c.fps, 8)
      [] c.hook = "watch" -> Excess(c.ints + c.fixed, REG_COUNT) + Excess(c.fps, 8)
      [] OTHER -> IF Variadic(c.slot)
                  THEN Excess(c.ints + Fixed(c.slot), REG_COUNT) + Excess(c.fps, 8)
                  ELSE 0

\* The count of hook_native_func, and the mistake of subtracting without the test.
NativeArgc_unguarded(c) == c.ints + c.fps + 2 - REG_COUNT
NativeArgc(c) == Excess(c.ints + c.fps + 2, REG_COUNT)

\* The count of hook_call_methods.
mod_index(slot) == IF slot <= 93 THEN slot % 3 ELSE (slot + 1) % 3
CallArgc(c) ==
    IF mod_index(c.slot) = 0
    THEN Excess(c.ints + c.fps + Fixed(c.slot), REG_COUNT)
    ELSE Excess(Fixed(c.slot) + 1, REG_COUNT)

\* The count of hook_libc_func: one word for each % of the format but %%, and the
\* parameters of the table, the three dots among them.
Directives(c) == c.ints + c.fps - c.stars
WatchArgc(c) == Excess((Directives(c) - 1) + (c.fixed + 1), REG_COUNT)

mod_for_asm(num, mod) == num % mod

-----------------------------------------------------------------------------
Idle == [hook |-> "none"]

Init ==
    /\ call = Idle
    /\ pc = "idle"
    /\ argc = 0
    /\ x0 = 0 /\ x10 = 0 /\ sp = 0
    /\ mem = [a \in {} |-> Unset]
    /\ seen = [i \in {} |-> Unset]

Enter(c, count) ==
    /\ pc = "idle"
    /\ call' = c
    /\ argc' = count
    /\ pc' = "align"
    /\ sp' = 0
    /\ mem' = [a \in (-count - 1)..(-1) |-> Unset]
    /\ UNCHANGED <<x0, x10, seen>>

hook_native_func(c) == c.hook = "native" /\ Enter(c, NativeArgc(c))

\* Without a readable name of the method the hook returns 0 at once.
ReturnZero(c) ==
    /\ pc = "idle"
    /\ call' = c
    /\ pc' = "dropped"
    /\ UNCHANGED <<argc, x0, x10, sp, mem, seen>>

hook_call_methods(c) ==
    /\ c.hook = "call"
    /\ Enter(c, CallArgc(c)) \/ ReturnZero(c)

hook_libc_func(c) ==
    /\ c.hook = "watch" /\ c.stars <= c.ints
    /\ Enter(c, WatchArgc(c))

\* The padding word for an odd count; then the loop's registers.
route_align ==
    /\ pc = "align"
    /\ IF mod_for_asm(argc, 2) = 0
       THEN UNCHANGED <<sp, mem>>
       ELSE /\ mem' = [mem EXCEPT ![sp - 1] = Padding]
            /\ sp' = sp - 1
    /\ x0' = argc - 1
    /\ x10' = 0
    /\ pc' = "loop"
    /\ UNCHANGED <<call, argc, seen>>

\* Mistake: the words are pushed from the first to the last.
route_push_forward ==
    /\ pc = "loop" /\ x0 >= 0
    /\ mem' = [mem EXCEPT ![x10 - 1] = argc - x0]
    /\ x10' = x10 - 1
    /\ sp' = sp - 1
    /\ x0' = x0 - 1
    /\ UNCHANGED <<call, pc, argc, seen>>

route_push ==
    /\ pc = "loop" /\ x0 >= 0
    /\ mem' = [mem EXCEPT ![x10 - 1] = x0 + 1]
    /\ x10' = x10 - 1
    /\ sp' = sp - 1
    /\ x0' = x0 - 1
    /\ UNCHANGED <<call, pc, argc, seen>>

\* The callee finds its stack arguments at sp.
route_call ==
    /\ pc = "loop" /\ x0 < 0
    /\ seen' = [i \in 0..(StackWords(call) - 1) |->
                  IF sp + i \in DOMAIN mem THEN mem[sp + i] ELSE Unset]
    /\ pc' = "called"
    /\ UNCHANGED <<call, argc, x0, x10, sp, mem>>

route_ret ==
    /\ pc \in {"called", "dropped"}
    /\ pc' = "idle"
    /\ call' = Idle
    /\ argc' = 0 /\ x0' = 0 /\ x10' = 0 /\ sp' = 0
    /\ mem' = [a \in {} |-> Unset]
    /\ seen' = [i \in {} |-> Unset]

Next ==
    \/ \E c \in Call : hook_native_func(c) \/ hook_call_methods(c) \/ hook_libc_func(c)
    \/ route_align
    \/ route_push
    \/ route_call
    \/ route_ret

Spec == Init /\ [][Next]_vars

-----------------------------------------------------------------------------
(* Properties.                                                             *)

TypeOK ==
    /\ pc # "idle" => call \in Call
    /\ pc \in {"idle", "align", "loop", "called", "dropped"}
    /\ argc \in Nat
    /\ x0 \in Int /\ x10 \in Int /\ sp \in Int
    /\ pc \in {"align", "loop", "called"} => mem \in [(-argc - 1)..(-1) -> Int]

\* The original is called with sp on a 16-byte boundary, whatever the count.
StackAligned == pc = "called" => sp % 2 = 0

\* Nothing that was pushed lies below sp at the call, where the callee's own
\* frame would overwrite it.
PushedAboveSp ==
    pc = "called" => \A a \in DOMAIN mem : mem[a] # Unset => a >= sp

\* When the count covers the callee's stack arguments and is even, the callee
\* reads all of them, in order.
EvenCallIntact ==
    (pc = "called" /\ argc % 2 = 0 /\ StackWords(call) <= argc)
        => \A i \in 0..(StackWords(call) - 1) : seen[i] = i + 1

\* When the count is odd, the routine lowers sp by the padding word but pushes from
\* x19: the last argument overwrites the padding, the callee's first word is one that
\* nobody wrote, and every other word is the one before it.
OddCallShifted ==
    (pc = "called" /\ argc % 2 = 1 /\ StackWords(call) <= argc)
        => \A i \in 0..(StackWords(call) - 1) : seen[i] = IF i = 0 THEN Unset ELSE i

\* What the routine hands to the callee: an aligned stack with everything pushed
\* above sp and, when the count covers the callee's stack arguments, these in place
\* for an even count and one place too far for an odd one.  The slots with "..."
\* have the count 0 (jni_env_hook.cpp:99): their arguments past the registers are
\* lost, and only the first two parts speak of them.
CallRouted == StackAligned /\ PushedAboveSp /\ EvenCallIntact /\ OddCallShifted

\* Neither hook_native_func nor, for formats without variable widths,
\* hook_libc_func asks for fewer words than the callee takes, however the arguments
\* divide into integer and floating-point ones.
CountCovers ==
    \/ pc = "idle"
    \/ call.hook = "call"
    \/ call.hook = "watch" /\ call.stars > 0
    \/ StackWords(call) <= argc

\* The state of the frame while the loop runs, from which the properties
\* above follow: word i of the arguments is at i - argc, sp is the last word
\* pushed or, for an odd count, one below it, and nothing else was written.
FrameInv ==
    /\ pc = "align" => /\ sp = 0
                       /\ \A a \in DOMAIN mem : mem[a] = Unset
    /\ pc \in {"loop", "called"} =>
         /\ x0 \in (-1)..(argc - 1)
         /\ x10 = x0 + 1 - argc
         /\ sp = x10 - (argc % 2)
         /\ \A i \in (x0 + 1)..(argc - 1) : mem[i - argc] = i + 1
         /\ \A a \in DOMAIN mem : mem[a] # Unset => a >= sp /\ (a >= x10 \/ a = -1)
    /\ pc = "called" =>
         /\ x0 = -1
         /\ seen = [i \in 0..(StackWords(call) - 1) |->
                      IF sp + i \in DOMAIN mem THEN mem[sp + i] ELSE Unset]
=============================================================================
