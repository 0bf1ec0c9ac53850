-------------------------- MODULE NativeHookProofs --------------------------
(***************************************************************************)
(* The hooks on native methods, for any number of threads, methods,        *)
(* functions, loads and registrations.  The inductive invariant NInv says  *)
(* which infos a hook may carry and what every thread inside a hook holds. *)
(***************************************************************************)
EXTENDS NativeHook, TLAPS, FiniteSetTheorems, SequenceTheorems, WellFoundedInduction

\* An info, of those in is, that a hook carries: its original is stored.
GoodHook(is, i) == i \in DOMAIN is /\ is[i].origin_call

\* Entry point e leads to function f.
Leads(is, e, f) == IF e.id = 0 THEN e.fn = f ELSE GoodHook(is, e.id) /\ is[e.id].addr = f

\* init_jni_hook hooks with the infos it has just made.
StaticsRight == init.pc = "hook" => \A f \in StaticFunc : static_jni_func_infos[f] # 0
PatchesRight == \A f \in Func : patched[f] # 0 => GoodHook(infos, patched[f])

EntryRight(m) ==
    /\ Leads(infos, entry[m], asked[m].fn)
    /\ asked[m].via = "hook" /\ entry[m].id = 0 => <<m, entry[m].fn>> \in reported
EntriesRight == \A m \in Method : EntryRight(m)

\* A row of the table that hook_RegisterNatives hands to the runtime.
FakeRight(is, log, r) ==
    /\ Leads(is, r.to, r.fn)
    /\ r.to.id = 0 => <<r.method, r.to.fn>> \in log

InHook == {"check", "parse", "assign", "route"}
InRegister == {"scan", "create", "store"}

\* What a thread holds: k is its state, is the infos, log what was reported.
RowRight(is, log, k) ==
    /\ k.pc \in InHook => GoodHook(is, k.ctx)
    /\ k.pc \in {"parse", "assign"} => k.rest # {} /\ k.rest \subseteq Overloads(is[k.ctx].method)
    /\ k.pc = "create" => k.todo # <<>>
    /\ \A j \in DOMAIN k.fake : FakeRight(is, log, k.fake[j])
    /\ k.vec \subseteq DOMAIN is
ThreadsRight == \A t \in Thread : RowRight(infos, reported, thr[t])

\* Until a second load no info is destroyed, and without the module nothing is hooked.
AllLive == \A i \in DOMAIN infos : infos[i].live
Bare == /\ infos = <<>> /\ ~init.patched /\ init.pc \in {"unloaded", "failed"}
        /\ \A t \in Thread : thr[t].pc \in {"java", "raw"}
FirstLoad ==
    /\ loads = 0 => init.pc = "unloaded" /\ ~g_tar_module
    /\ loads <= 1 => AllLive
    /\ loads <= 1 /\ init.pc \in {"unloaded", "enum"} =>
          \A f \in StaticFunc : static_jni_func_infos[f] = 0
    /\ loads <= 1 /\ ~g_tar_module => Bare

\* Unless two threads raced, one at a time registers, and loses no element.
OneRegisters ==
    ~raced => \A t \in Thread :
        /\ \A s \in Thread : Registering(t) /\ Registering(s) => s = t
        /\ thr[t].pc = "store" => reg_jni_func_infos \subseteq thr[t].vec

\* Only a clash leaves an info torn.
TornClashed == \A i \in DOMAIN infos : infos[i].torn => clashed

NInv == /\ TypeOK /\ StaticsRight /\ PatchesRight /\ EntriesRight /\ ThreadsRight
        /\ ArgsSettled /\ TornClashed /\ FirstLoad /\ OneRegisters /\ CrashExplained

\* What any step leaves of the infos and of the log.
Grows ==
    /\ infos' \in Seq(Info)
    /\ \A i \in DOMAIN infos :
          /\ i \in DOMAIN infos'
          /\ infos'[i].method = infos[i].method /\ infos'[i].addr = infos[i].addr
          /\ infos[i].origin_call => infos'[i].origin_call
    /\ \A i \in DOMAIN infos' : infos'[i].torn => clashed' \/ (i \in DOMAIN infos /\ infos[i].torn)
    /\ clashed => clashed'
    /\ reported \subseteq reported'

InitState == [pc: {"unloaded", "enum", "hook", "done", "failed"},
              todo: SUBSET StaticFunc, patched: BOOLEAN, onload: BOOLEAN]
Asked == [fn: Func \cup {NoFunc}, via: {"none", "symbol", "hook", "raw"}]

-----------------------------------------------------------------------------
(* Numbers, the symbol table and the overloads.                            *)

\* A set of numbers up to n that is not empty has a largest element.
LEMMA LargestExists ==
    ASSUME NEW n \in Nat, NEW S, S \subseteq 1..n, S # {}
    PROVE  \E i \in S : \A j \in S : j <= i
  <1> DEFINE R == OpToRel(<, Nat)
             T == {n - i : i \in S}
  <1>1. T \subseteq Nat /\ T # {}
    <2>1. \A i \in S : n - i \in Nat
      OBVIOUS
    <2> QED
      BY <2>1
  <1>2. \E x \in T : \A y \in T : ~ (<<y, x>> \in R)
    BY <1>1, WFMin, NatLessThanWellFounded, Zenon
  <1>3. \A x, y \in Nat : y < x => <<y, x>> \in R
    BY DEF OpToRel
  <1> HIDE DEF R
  <1>4. PICK x \in T : \A y \in T : ~ (<<y, x>> \in R)
    BY <1>2
  <1>5. \A y \in T : x \in Nat /\ y \in Nat /\ ~ (y < x)
    BY <1>1, <1>3, <1>4
  <1>6. PICK i \in S : x = n - i
    BY <1>4
  <1>7. ASSUME NEW j \in S PROVE j <= i
    <2>1. n - j \in T
      OBVIOUS
    <2>2. ~ (n - j < n - i) /\ i \in Int /\ j \in Int
      BY <1>5, <1>6, <2>1
    <2> QED
      BY <2>2
  <1> QED
    BY <1>7

\* A set of numbers that is not empty has a smallest element.
LEMMA SmallestExists ==
    ASSUME NEW S, S \subseteq Nat, S # {}
    PROVE  \E i \in S : \A j \in S : i <= j
  <1> DEFINE R == OpToRel(<, Nat)
  <1>1. \E x \in S : \A y \in S : ~ (<<y, x>> \in R)
    BY WFMin, NatLessThanWellFounded, Zenon
  <1>2. \A x, y \in Nat : y < x => <<y, x>> \in R
    BY DEF OpToRel
  <1> HIDE DEF R
  <1>3. PICK x \in S : \A y \in S : ~ (<<y, x>> \in R)
    BY <1>1
  <1>4. \A y \in S : x \in Nat /\ y \in Nat /\ ~ (y < x)
    BY <1>2, <1>3
  <1> QED
    BY <1>4

LEMMA MaxInSet ==
    ASSUME NEW n \in Nat, NEW S, S \subseteq 1..n, S # {} PROVE Max(S) \in S
  <1>1. \A i, j \in S : j <= i => i >= j
    OBVIOUS
  <1>2. \E i \in S : \A j \in S : i >= j
    BY <1>1, LargestExists
  <1> QED
    BY <1>2 DEF Max

LEMMA MinInSet ==
    ASSUME NEW S, S \subseteq Nat, S # {} PROVE Min(S) \in S
  <1>1. \E i \in S : \A j \in S : i =< j
    BY SmallestExists
  <1> QED
    BY <1>1 DEF Min

\* Every method is among the overloads of its name.
LEMMA OverloadsOfMethod ==
    ASSUME NEW m \in Method
    PROVE  /\ Overloads(m) # {} /\ Overloads(m) \subseteq DOMAIN Declared
           /\ \A i \in DOMAIN Declared : i \in Nat /\ Declared[i] \in Method /\ Arity[Declared[i]] \in Nat
           /\ Max(Overloads(m)) \in Overloads(m)
  <1>1. PICK i \in DOMAIN Declared : Declared[i] = m
    BY MethodAssumption DEF ToSet
  <1>2. Overloads(m) # {} /\ Overloads(m) \subseteq DOMAIN Declared
    BY <1>1 DEF Overloads
  <1>3. Len(Declared) \in Nat /\ DOMAIN Declared = 1..Len(Declared)
    BY MethodAssumption
  <1>4. \A j \in DOMAIN Declared : j \in Nat /\ Declared[j] \in Method /\ Arity[Declared[j]] \in Nat
    BY <1>3, MethodAssumption
  <1>5. Max(Overloads(m)) \in Overloads(m)
    BY <1>2, <1>3, MaxInSet
  <1> QED
    BY <1>2, <1>4, <1>5

\* The symbol table lists every exported function.
LEMMA SymbolTable ==
    /\ Symbols \in Seq(StaticFunc)
    /\ DOMAIN Symbols = 1..Len(Symbols)
    /\ \A f \in StaticFunc : SymbolIndex(f) \in 1..Len(Symbols)
  <1> DEFINE n == Cardinality(StaticFunc)
  <1>1. IsFiniteSet(StaticFunc) /\ n \in Nat /\ ExistsBijection(1..n, StaticFunc)
    BY FuncAssumption, FS_CardinalityType
  <1>2. \E g \in [1..n -> StaticFunc] : IsInjective(g)
    BY <1>1 DEF ExistsBijection, Bijection, Injection
  <1>3. Symbols \in [1..n -> StaticFunc] /\ IsInjective(Symbols)
    BY <1>2, Zenon DEF Symbols, SetToSeq
  <1>4. Symbols \in Injection(1..n, StaticFunc)
    BY <1>3 DEF Injection
  <1>5. Cardinality(1..n) = n
    BY <1>1, FS_Interval
  <1>6. Symbols \in Surjection(1..n, StaticFunc)
    BY <1>1, <1>4, <1>5, FS_Injection
  <1> HIDE DEF n
  <1>7. Symbols \in Seq(StaticFunc) /\ Len(Symbols) = n
    BY <1>1, <1>3
  <1>8. ASSUME NEW f \in StaticFunc PROVE SymbolIndex(f) \in 1..Len(Symbols)
    <2>1. \E i \in DOMAIN Symbols : Symbols[i] = f
      BY <1>3, <1>6 DEF Surjection
    <2>2. SymbolIndex(f) \in DOMAIN Symbols
      BY <2>1, Zenon DEF SymbolIndex
    <2> QED
      BY <1>3, <1>7, <2>2
  <1> QED
    BY <1>3, <1>7, <1>8

-----------------------------------------------------------------------------
(* What growing infos leave as it was.                                     *)

LEMMA HooksKept ==
    ASSUME Grows
    PROVE  /\ \A i : GoodHook(infos, i) => GoodHook(infos', i)
           /\ \A e, f : Leads(infos, e, f) => Leads(infos', e, f)
           /\ \A r : FakeRight(infos, reported, r) => FakeRight(infos', reported', r)
  <1>1. \A i : GoodHook(infos, i) => GoodHook(infos', i)
    BY DEF Grows, GoodHook
  <1>2. \A e, f : Leads(infos, e, f) => Leads(infos', e, f)
    BY <1>1 DEF Grows, Leads, GoodHook
  <1> QED
    BY <1>1, <1>2 DEF Grows, FakeRight

LEMMA GrowsIfSame ==
    ASSUME infos \in Seq(Info), infos' = infos, reported \subseteq reported', clashed => clashed'
    PROVE  Grows
  BY DEF Grows

LEMMA TornKept ==
    ASSUME TornClashed, Grows PROVE TornClashed'
  BY DEF TornClashed, Grows

LEMMA EntriesKept ==
    ASSUME EntriesRight, Grows, UNCHANGED <<entry, asked>> PROVE EntriesRight'
  BY HooksKept DEF EntriesRight, EntryRight, Grows

LEMMA PatchesKept ==
    ASSUME PatchesRight, Grows, UNCHANGED patched PROVE PatchesRight'
  BY HooksKept DEF PatchesRight

LEMMA RowKept ==
    ASSUME Grows, NEW k, RowRight(infos, reported, k) PROVE RowRight(infos', reported', k)
  <1>1. k.pc \in InHook => GoodHook(infos', k.ctx)
    BY HooksKept DEF RowRight
  <1>2. k.pc \in {"parse", "assign"} => k.rest # {} /\ k.rest \subseteq Overloads(infos'[k.ctx].method)
    BY DEF RowRight, InHook, GoodHook, Grows
  <1>3. \A j \in DOMAIN k.fake : FakeRight(infos', reported', k.fake[j])
    BY HooksKept DEF RowRight
  <1>4. k.vec \subseteq DOMAIN infos'
    BY DEF RowRight, Grows
  <1> QED
    BY <1>1, <1>2, <1>3, <1>4 DEF RowRight

LEMMA ArgsKept ==
    ASSUME ArgsSettled, infos' = infos, NEW t \in Thread, thr[t].pc # "assign",
           \A s \in Thread : s # t => thr'[s] = thr[s]
    PROVE  ArgsSettled'
  BY DEF ArgsSettled

LEMMA OneRegistersKept ==
    ASSUME OneRegisters, UNCHANGED <<reg_jni_func_infos, raced>>, NEW t \in Thread,
           \A s \in Thread : s # t => thr'[s] = thr[s],
           thr'[t].pc \in InRegister => thr[t].pc \in InRegister,
           thr'[t].pc = "store" => reg_jni_func_infos \subseteq thr'[t].vec
    PROVE  OneRegisters'
  BY DEF OneRegisters, Registering, InRegister

\* Thread t goes from one state to another.
LEMMA ThreadPut ==
    ASSUME TypeOK, NEW t \in Thread, NEW k \in ThreadState, thr' = [thr EXCEPT ![t] = k]
    PROVE  /\ thr' \in [Thread -> ThreadState]
           /\ thr'[t] = k
           /\ \A s \in Thread : s # t => thr'[s] = thr[s]
  BY DEF TypeOK

LEMMA ThreadTyped ==
    ASSUME TypeOK, NEW t \in Thread
    PROVE  /\ thr[t] \in ThreadState
           /\ thr[t].ctx \in Nat /\ thr[t].rest \in SUBSET DOMAIN Declared
           /\ thr[t].todo \in Seq(Method \X Func)
           /\ thr[t].fake \in Seq([method: Method, fn: Func, to: EntryPoint])
           /\ thr[t].vec \in SUBSET Nat
  BY DEF TypeOK, ThreadState

\* Steps of thread t that leave the module's part of the state alone.
LEMMA ThreadFrame ==
    ASSUME NInv, NEW t \in Thread, NEW k \in ThreadState, thr' = [thr EXCEPT ![t] = k],
           ModuleUnchanged, crashed' = crashed,
           init' \in InitState, init'.pc = init.pc, init'.patched = init.patched,
           Grows,
           \A i \in DOMAIN infos' : infos'[i].live \/ (i \in DOMAIN infos /\ ~infos[i].live),
           loads <= 1 /\ ~g_tar_module => infos' = infos,
           reg_jni_func_infos' \subseteq DOMAIN infos',
           reported' \subseteq Method \X Func, regs' \in 0..MaxReg,
           raced' \in BOOLEAN, raced => raced', clashed' \in BOOLEAN,
           entry' \in [Method -> EntryPoint], asked' \in [Method -> Asked],
           EntriesRight', RowRight(infos', reported', k), ArgsSettled', OneRegisters',
           loads <= 1 /\ ~g_tar_module => k.pc \in {"java", "raw"}
    PROVE  NInv'
  <1>0. UNCHANGED <<loads, g_tar_module, static_jni_func_infos, patched, wild>> /\ (clashed => clashed')
    BY DEF ModuleUnchanged, Grows
  <1>1. /\ thr' \in [Thread -> ThreadState] /\ thr'[t] = k
        /\ \A s \in Thread : s # t => thr'[s] = thr[s]
    BY ThreadPut DEF NInv
  <1>2. Len(infos) \in Nat /\ Len(infos') \in Nat /\ DOMAIN infos = 1..Len(infos) /\ DOMAIN infos' = 1..Len(infos')
    BY DEF NInv, TypeOK, Grows
  <1>3. 0..Len(infos) \subseteq 0..Len(infos')
    BY <1>2 DEF Grows
  <1>4. TypeOK'
    <2>1. static_jni_func_infos' \in [StaticFunc -> 0..Len(infos')]
      BY <1>0, <1>3 DEF NInv, TypeOK
    <2>2. patched' \in [Func -> 0..Len(infos')]
      BY <1>0, <1>3 DEF NInv, TypeOK
    <2>3. loads' \in 0..MaxLoads /\ g_tar_module' \in BOOLEAN /\ crashed' \in BOOLEAN /\ wild' \subseteq Override
      BY <1>0 DEF NInv, TypeOK
    <2> QED
      BY <1>1, <2>1, <2>2, <2>3 DEF TypeOK, InitState, Asked, Grows
  <1>5. StaticsRight'
    BY <1>0 DEF NInv, StaticsRight
  <1>6. PatchesRight'
    BY <1>0, PatchesKept DEF NInv
  <1>7. ThreadsRight'
    BY <1>1, RowKept DEF NInv, ThreadsRight
  <1>8. FirstLoad'
    <2>1. loads <= 1 => AllLive'
      BY DEF NInv, FirstLoad, AllLive
    <2>2. loads <= 1 /\ ~g_tar_module => Bare'
      BY <1>1 DEF NInv, FirstLoad, Bare
    <2> QED
      BY <1>0, <2>1, <2>2 DEF NInv, FirstLoad
  <1>9. CrashExplained' /\ TornClashed'
    BY <1>0, TornKept DEF NInv, CrashExplained
  <1> QED
    BY <1>4, <1>5, <1>6, <1>7, <1>8, <1>9 DEF NInv

\* The same, when the thread is not in hook_RegisterNatives and changes nothing else.
LEMMA QuietFrame ==
    ASSUME NInv, NEW t \in Thread, NEW k \in ThreadState, thr' = [thr EXCEPT ![t] = k],
           ModuleUnchanged,
           init' \in InitState, init'.pc = init.pc, init'.patched = init.patched,
           UNCHANGED <<infos, entry, asked, reg_jni_func_infos, reported, regs, raced, crashed>>,
           clashed' \in BOOLEAN, clashed => clashed',
           thr[t].pc # "assign", k.pc \notin InRegister,
           RowRight(infos, reported, k),
           loads <= 1 /\ ~g_tar_module => k.pc \in {"java", "raw"}
    PROVE  NInv'
  <1>1. /\ thr'[t] = k /\ \A s \in Thread : s # t => thr'[s] = thr[s]
    BY ThreadPut DEF NInv
  <1>2. ArgsSettled'
    BY <1>1, ArgsKept DEF NInv
  <1>3. OneRegisters'
    BY <1>1, OneRegistersKept DEF NInv, InRegister
  <1>4. Grows
    BY GrowsIfSame DEF NInv, TypeOK
  <1>5. EntriesRight'
    BY <1>4, EntriesKept DEF NInv
  <1>6. \A i \in DOMAIN infos' : infos'[i].live \/ (i \in DOMAIN infos /\ ~infos[i].live)
    OBVIOUS
  <1>7. /\ reg_jni_func_infos' \subseteq DOMAIN infos'
        /\ reported' \subseteq Method \X Func /\ regs' \in 0..MaxReg /\ raced' \in BOOLEAN
        /\ entry' \in [Method -> EntryPoint] /\ asked' \in [Method -> Asked]
    BY DEF NInv, TypeOK, Asked
  <1> QED
    BY <1>2, <1>3, <1>4, <1>5, <1>6, <1>7, ThreadFrame

\* A step that ends the process and changes nothing that matters.
LEMMA CrashFrame ==
    ASSUME NInv, ModuleUnchanged,
           UNCHANGED <<init, infos, entry, asked, reg_jni_func_infos, reported, thr>>,
           regs' \in 0..MaxReg, raced' \in BOOLEAN, raced => raced',
           clashed' \in BOOLEAN, clashed => clashed',
           crashed' = TRUE, loads > 1 \/ raced' \/ clashed' \/ wild # {}
    PROVE  NInv'
  <1>1. TypeOK'
    BY DEF NInv, TypeOK, ModuleUnchanged
  <1>2. StaticsRight' /\ PatchesRight' /\ FirstLoad'
    BY DEF NInv, StaticsRight, PatchesRight, FirstLoad, AllLive, Bare, ModuleUnchanged
  <1>3. EntriesRight' /\ ThreadsRight' /\ ArgsSettled'
    BY DEF NInv, EntriesRight, EntryRight, ThreadsRight, ArgsSettled
  <1>4. OneRegisters'
    BY DEF NInv, OneRegisters, Registering
  <1>5. CrashExplained' /\ TornClashed'
    BY DEF NInv, CrashExplained, ModuleUnchanged, TornClashed
  <1> QED
    BY <1>1, <1>2, <1>3, <1>4, <1>5 DEF NInv

-----------------------------------------------------------------------------
(* Calls.                                                                  *)

LEMMA InfoTyped ==
    ASSUME TypeOK, NEW i \in DOMAIN infos
    PROVE  /\ i \in Nat /\ i # 0 /\ infos[i] \in Info
           /\ infos[i].method \in Method /\ infos[i].addr \in Func /\ infos[i].args \in Nat
  <1>1. i \in 1..Len(infos) /\ Len(infos) \in Nat /\ infos[i] \in Info
    BY DEF TypeOK
  <1> QED
    BY <1>1 DEF Info

\* Wherever control gets at an address, it meets a hook that may be called.
LEMMA AtAddressRight ==
    ASSUME NInv, NEW f \in Func
    PROVE  LET a == AtAddress(f)
           IN  /\ a.pc \in {"check", "raw"} /\ a.ctx \in Nat
               /\ a.pc = "check" => GoodHook(infos, a.ctx)
  BY DEF NInv, TypeOK, PatchesRight, AtAddress

LEMMA JavaCallKeeps ==
    ASSUME NInv, NEW t \in Thread, NEW m \in Method, JavaCall(t, m) PROVE NInv'
  <1> DEFINE g == IF entry[m].id # 0 THEN [pc |-> "check", ctx |-> entry[m].id]
                  ELSE AtAddress(entry[m].fn)
  <1>1. /\ thr[t].pc = "java" /\ entry[m] # Unbound
        /\ thr' = [thr EXCEPT ![t].pc = g.pc, ![t].ctx = g.ctx]
        /\ ModuleUnchanged
        /\ UNCHANGED <<init, infos, entry, asked, reg_jni_func_infos, reported, regs, raced, clashed, crashed>>
    BY DEF JavaCall, CallUnchanged
  <1>2. entry[m] \in EntryPoint /\ Leads(infos, entry[m], asked[m].fn)
    BY DEF NInv, TypeOK, EntriesRight, EntryRight
  <1>3. g.pc \in {"check", "raw"} /\ g.ctx \in Nat /\ (g.pc = "check" => GoodHook(infos, g.ctx))
    <2>1. CASE entry[m].id # 0
      BY <1>2, <2>1 DEF EntryPoint, Leads
    <2>2. CASE entry[m].id = 0
      <3>1. entry[m].fn \in Func
        BY <1>1, <1>2, <2>2 DEF EntryPoint, Unbound, Raw
      <3> QED
        BY <2>2, <3>1, AtAddressRight
    <2> QED
      BY <2>1, <2>2
  <1> HIDE DEF g
  <1> DEFINE k == [thr[t] EXCEPT !.pc = g.pc, !.ctx = g.ctx]
  <1>4. /\ k \in ThreadState
        /\ k.pc = g.pc /\ k.ctx = g.ctx /\ k.fake = thr[t].fake /\ k.vec = thr[t].vec
        /\ thr' = [thr EXCEPT ![t] = k]
    <2>1. thr \in [Thread -> ThreadState] /\ thr[t] \in ThreadState
      BY DEF NInv, TypeOK
    <2>2. k \in ThreadState
      BY <1>1, <1>3, <2>1 DEF ThreadState
    <2>3. /\ k.pc = g.pc /\ k.ctx = g.ctx /\ k.fake = thr[t].fake /\ k.vec = thr[t].vec
      BY <2>1 DEF ThreadState
    <2>4. thr' = [thr EXCEPT ![t] = k]
      BY <1>1, <1>3, <2>1
    <2> QED
      BY <2>2, <2>3, <2>4
  <1> HIDE DEF k
  <1>5. RowRight(infos, reported, thr[t])
    BY DEF NInv, ThreadsRight
  <1>6. RowRight(infos, reported, k)
    BY <1>3, <1>4, <1>5 DEF RowRight, InHook
  <1>7. loads <= 1 /\ ~g_tar_module => k.pc \in {"java", "raw"}
    BY <1>3, <1>4 DEF NInv, FirstLoad, Bare, GoodHook
  <1>8. init \in InitState /\ k.pc \notin InRegister /\ clashed' \in BOOLEAN
    BY <1>1, <1>3, <1>4 DEF NInv, TypeOK, InitState, InRegister
  <1> QED
    BY <1>1, <1>4, <1>6, <1>7, <1>8, QuietFrame

\* k is the state of thread t at another place with other overloads left to parse.
Placed(t, p, r, k) ==
    /\ thr' = [thr EXCEPT ![t] = k]
    /\ k.pc = p /\ k.ctx = thr[t].ctx /\ k.rest = r
    /\ k.fake = thr[t].fake /\ k.vec = thr[t].vec

LEMMA PlacePut ==
    ASSUME TypeOK, NEW t \in Thread, NEW p \in {"route", "parse"}, NEW r \in SUBSET DOMAIN Declared,
           thr' = [thr EXCEPT ![t].pc = p, ![t].rest = r]
    PROVE  \E k \in ThreadState : Placed(t, p, r, k)
  <1> DEFINE k == [thr[t] EXCEPT !.pc = p, !.rest = r]
  <1>1. thr \in [Thread -> ThreadState] /\ thr[t] \in ThreadState
    BY DEF TypeOK
  <1>2. k \in ThreadState
    BY <1>1 DEF ThreadState
  <1>3. /\ k.pc = p /\ k.ctx = thr[t].ctx /\ k.rest = r
        /\ k.fake = thr[t].fake /\ k.vec = thr[t].vec
    BY <1>1 DEF ThreadState
  <1>4. thr' = [thr EXCEPT ![t] = k]
    BY <1>1
  <1> QED
    BY <1>2, <1>3, <1>4 DEF Placed

\* Using an info others rewrite is noticed.
LEMMA UsesNoticed ==
    ASSUME NInv, NEW t \in Thread, Uses(t)
    PROVE  clashed' \in BOOLEAN /\ (clashed => clashed') /\ (Writers(t) # {} => clashed')
  BY DEF Uses

\* An info is destroyed only by a second load, and torn only by a clash.
LEMMA UnsoundMeans ==
    ASSUME NInv, NEW t \in Thread, thr[t].ctx \in DOMAIN infos, Uses(t), Unsound(t)
    PROVE  loads > 1 \/ clashed'
  <1>1. loads \in Nat
    BY BoundAssumption DEF NInv, TypeOK
  <1>2. CASE ~infos[thr[t].ctx].live
    BY <1>1, <1>2 DEF NInv, FirstLoad, AllLive
  <1>3. CASE infos[thr[t].ctx].torn
    BY <1>3, UsesNoticed DEF NInv, TornClashed
  <1>4. CASE Writers(t) # {}
    BY <1>4, UsesNoticed
  <1> QED
    BY <1>2, <1>3, <1>4 DEF Unsound

\* A call dies of an unsound info.
LEMMA UnsoundKeeps ==
    ASSUME NInv, NEW t \in Thread, thr[t].pc \in InHook, Uses(t), Unsound(t),
           ModuleUnchanged, crashed' = TRUE,
           UNCHANGED <<init, infos, entry, asked, reg_jni_func_infos, reported, regs, raced, thr>>
    PROVE  NInv'
  <1>1. thr[t].ctx \in DOMAIN infos
    BY DEF NInv, ThreadsRight, RowRight, GoodHook
  <1>2. loads > 1 \/ clashed'
    BY <1>1, UnsoundMeans
  <1>3. regs' \in 0..MaxReg /\ raced' \in BOOLEAN
    BY DEF NInv, TypeOK
  <1> QED
    BY <1>2, <1>3, UsesNoticed, CrashFrame

\* A call goes on to another place of hook_native_func, and only the thread moves.
LEMMA PlaceKeeps ==
    ASSUME NInv, NEW t \in Thread, thr[t].pc \in {"check", "parse"},
           NEW p \in {"route", "parse"}, NEW r \in SUBSET DOMAIN Declared,
           thr' = [thr EXCEPT ![t].pc = p, ![t].rest = r],
           p = "parse" => r # {} /\ r \subseteq Overloads(infos[thr[t].ctx].method),
           clashed' \in BOOLEAN, clashed => clashed', ModuleUnchanged,
           UNCHANGED <<init, infos, entry, asked, reg_jni_func_infos, reported, regs, raced, crashed>>
    PROVE  NInv'
  <1>0. PICK k \in ThreadState : Placed(t, p, r, k)
    <2>1. TypeOK
      BY DEF NInv
    <2> QED
      BY <2>1, PlacePut
  <1>1. /\ thr' = [thr EXCEPT ![t] = k]
        /\ k.pc = p /\ k.ctx = thr[t].ctx /\ k.rest = r
        /\ k.fake = thr[t].fake /\ k.vec = thr[t].vec
    BY <1>0 DEF Placed
  <1>2. RowRight(infos, reported, thr[t])
    BY DEF NInv, ThreadsRight
  <1>3. RowRight(infos, reported, k)
    BY <1>1, <1>2 DEF RowRight, InHook
  <1>4. loads <= 1 /\ ~g_tar_module => k.pc \in {"java", "raw"}
    BY DEF NInv, FirstLoad, Bare
  <1>5. init \in InitState /\ k.pc \notin InRegister
    BY <1>1 DEF NInv, TypeOK, InitState, InRegister
  <1> QED
    BY <1>1, <1>3, <1>4, <1>5, QuietFrame

\* hook_native_func looks at the info of the hook the thread is in.
LEMMA CheckKeeps ==
    ASSUME NInv, NEW t \in Thread, hook_native_func(t) PROVE NInv'
  <1>1. /\ thr[t].pc = "check" /\ ModuleUnchanged
        /\ UNCHANGED <<init, infos, entry, asked, reg_jni_func_infos, reported, regs, raced>>
    BY DEF hook_native_func, CallUnchanged
  <1>2. RowRight(infos, reported, thr[t])
    BY DEF NInv, ThreadsRight
  <1>3. thr[t].ctx \in DOMAIN infos
    BY <1>1, <1>2 DEF RowRight, InHook, GoodHook
  <1>4. infos[thr[t].ctx].method \in Method
    BY <1>3, InfoTyped DEF NInv
  <1>5. CASE thr' = [thr EXCEPT ![t].pc = "route"] /\ UNCHANGED <<clashed, crashed>>
    <2>1. thr[t].rest \in SUBSET DOMAIN Declared /\ clashed' \in BOOLEAN
      BY <1>5, ThreadTyped DEF NInv, TypeOK
    <2>2. thr' = [thr EXCEPT ![t].pc = "route", ![t].rest = thr[t].rest]
      <3>1. thr \in [Thread -> ThreadState] /\ thr[t] \in ThreadState
        BY DEF NInv, TypeOK
      <3>2. [thr[t] EXCEPT !.pc = "route"] = [thr[t] EXCEPT !.pc = "route", !.rest = thr[t].rest]
        BY <3>1 DEF ThreadState
      <3> QED
        BY <1>5, <3>1, <3>2
    <2> QED
      BY <1>1, <1>5, <2>1, <2>2, PlaceKeeps
  <1>6. ASSUME NEW found \in BOOLEAN, Uses(t), UNCHANGED crashed,
               thr' = [thr EXCEPT ![t].pc = IF found THEN "parse" ELSE "route",
                                  ![t].rest = IF found THEN Overloads(infos[thr[t].ctx].method) ELSE {}]
        PROVE  NInv'
    <2>1. PICK p, r : /\ thr' = [thr EXCEPT ![t].pc = p, ![t].rest = r]
                      /\ \/ p = "route" /\ r = {}
                         \/ p = "parse" /\ r = Overloads(infos[thr[t].ctx].method)
      BY <1>6
    <2>2. /\ p \in {"route", "parse"} /\ r \in SUBSET DOMAIN Declared
          /\ p = "parse" => r # {} /\ r \subseteq Overloads(infos[thr[t].ctx].method)
      BY <1>4, <2>1, OverloadsOfMethod
    <2>3. clashed' \in BOOLEAN /\ (clashed => clashed')
      BY <1>6, UsesNoticed
    <2> QED
      BY <1>1, <1>6, <2>1, <2>2, <2>3, PlaceKeeps
  <1>7. CASE Unsound(t) /\ Uses(t) /\ Crash /\ UNCHANGED thr
    BY <1>1, <1>7, UnsoundKeeps DEF InHook, Crash
  <1> QED
    BY <1>5, <1>6, <1>7 DEF hook_native_func

\* The overload to be parsed next is one of those that are left.
LEMMA NextOverload ==
    ASSUME NInv, NEW t \in Thread, thr[t].pc \in {"parse", "assign"}
    PROVE  /\ thr[t].ctx \in DOMAIN infos /\ GoodHook(infos, thr[t].ctx)
           /\ thr[t].rest \in SUBSET DOMAIN Declared
           /\ thr[t].rest \subseteq Overloads(infos[thr[t].ctx].method)
           /\ Min(thr[t].rest) \in thr[t].rest
           /\ Arity[Declared[Min(thr[t].rest)]] \in Nat
  <1>1. RowRight(infos, reported, thr[t])
    BY DEF NInv, ThreadsRight
  <1>2. /\ thr[t].ctx \in DOMAIN infos /\ GoodHook(infos, thr[t].ctx) /\ thr[t].rest # {}
        /\ thr[t].rest \subseteq Overloads(infos[thr[t].ctx].method)
    BY <1>1 DEF RowRight, InHook, GoodHook
  <1>3. infos[thr[t].ctx].method \in Method
    BY <1>2, InfoTyped DEF NInv
  <1>4. /\ \A i \in thr[t].rest : i \in Nat /\ Arity[Declared[i]] \in Nat
        /\ thr[t].rest \in SUBSET DOMAIN Declared
    BY <1>2, <1>3, OverloadsOfMethod
  <1>5. Min(thr[t].rest) \in thr[t].rest
    BY <1>2, <1>4, MinInSet
  <1> QED
    BY <1>2, <1>4, <1>5

\* A declaration is skipped.
LEMMA MisreadKeeps ==
    ASSUME NInv, NEW t \in Thread, update_method_info_misread(t) PROVE NInv'
  <1>1. PICK n : n = Min(thr[t].rest)
    OBVIOUS
  <1>2. /\ thr[t].pc = "parse" /\ clashed' = TRUE /\ ModuleUnchanged
        /\ thr' = [thr EXCEPT ![t].rest = @ \ {n},
                              ![t].pc = IF thr[t].rest = {n} THEN "route" ELSE "parse"]
        /\ UNCHANGED <<init, infos, entry, asked, reg_jni_func_infos, reported, regs, raced, crashed>>
    BY <1>1 DEF update_method_info_misread, CallUnchanged
  <1>3. /\ thr[t].rest \in SUBSET DOMAIN Declared /\ n \in thr[t].rest
        /\ thr[t].rest \subseteq Overloads(infos[thr[t].ctx].method)
    BY <1>1, <1>2, NextOverload
  <1>4. PICK p \in {"route", "parse"}, r \in SUBSET DOMAIN Declared :
           /\ p = IF thr[t].rest = {n} THEN "route" ELSE "parse"
           /\ r = thr[t].rest \ {n}
           /\ p = "parse" => r # {} /\ r \subseteq Overloads(infos[thr[t].ctx].method)
    <2>1. PICK r \in SUBSET DOMAIN Declared : r = thr[t].rest \ {n}
      BY <1>3
    <2>2. r \subseteq Overloads(infos[thr[t].ctx].method) /\ (thr[t].rest # {n} => r # {})
      BY <1>3, <2>1
    <2>3. PICK p \in {"route", "parse"} : p = IF thr[t].rest = {n} THEN "route" ELSE "parse"
      OBVIOUS
    <2>4. p = "parse" => r # {} /\ r \subseteq Overloads(infos[thr[t].ctx].method)
      BY <2>2, <2>3
    <2> QED
      BY <2>1, <2>3, <2>4, Zenon
  <1>5. thr' = [thr EXCEPT ![t].pc = p, ![t].rest = r]
    <2>1. thr \in [Thread -> ThreadState] /\ thr[t] \in ThreadState
      BY DEF NInv, TypeOK
    <2>2. [thr[t] EXCEPT !.rest = r, !.pc = p] = [thr[t] EXCEPT !.pc = p, !.rest = r]
      BY <2>1 DEF ThreadState
    <2>3. thr' = [thr EXCEPT ![t] = [thr[t] EXCEPT !.rest = r, !.pc = p]]
      BY <1>2, <1>4, <2>1
    <2> QED
      BY <2>1, <2>2, <2>3
  <1>6. thr[t].pc \in {"check", "parse"} /\ clashed' \in BOOLEAN /\ (clashed => clashed')
    BY <1>2
  <1>7. p = "parse" => r # {} /\ r \subseteq Overloads(infos[thr[t].ctx].method)
    BY <1>4
  <1> QED
    BY <1>2, <1>5, <1>6, <1>7, PlaceKeeps, Zenon

\* A hook routes only to an original that is stored; g_tar_module is null only
\* after a second load.
LEMMA RouteKeeps ==
    ASSUME NInv, NEW t \in Thread, hook_native_func_route(t) PROVE NInv'
  <1>1. /\ thr[t].pc = "route" /\ ModuleUnchanged /\ Uses(t)
        /\ UNCHANGED <<init, infos, entry, asked, reg_jni_func_infos, reported, regs, raced>>
    BY DEF hook_native_func_route, CallUnchanged
  <1>2. RowRight(infos, reported, thr[t])
    BY DEF NInv, ThreadsRight
  <1>3. thr[t].ctx \in DOMAIN infos /\ infos[thr[t].ctx].origin_call
    BY <1>1, <1>2 DEF RowRight, InHook, GoodHook
  <1>0. clashed' \in BOOLEAN /\ (clashed => clashed')
    BY <1>1, UsesNoticed
  <1>4. CASE /\ ~g_tar_module \/ ~infos[thr[t].ctx].origin_call \/ Unsound(t)
             /\ Crash /\ UNCHANGED thr
    <2>1. loads > 1 \/ clashed'
      <3>1. CASE ~g_tar_module
        BY <1>1, <3>1 DEF NInv, TypeOK, FirstLoad, Bare
      <3>2. CASE Unsound(t)
        BY <1>1, <1>3, <3>2, UnsoundMeans
      <3> QED
        BY <1>3, <1>4, <3>1, <3>2
    <2>2. regs' \in 0..MaxReg /\ raced' \in BOOLEAN
      BY <1>1 DEF NInv, TypeOK
    <2> QED
      BY <1>0, <1>1, <1>4, <2>1, <2>2, CrashFrame DEF Crash
  <1> DEFINE g == OriginCall(thr[t].ctx)
  <1>5. CASE thr' = [thr EXCEPT ![t].pc = g.pc, ![t].ctx = g.ctx] /\ g_tar_module /\ UNCHANGED crashed
    <2>1. thr' = [thr EXCEPT ![t].pc = g.pc, ![t].ctx = g.ctx] /\ crashed' = crashed
      BY <1>5
    <2>2. infos[thr[t].ctx].addr \in Func
      BY <1>3, InfoTyped DEF NInv
    <2>3. g.pc \in {"check", "raw", "body"} /\ g.ctx \in Nat /\ (g.pc = "check" => GoodHook(infos, g.ctx))
      BY <2>2, AtAddressRight DEF OriginCall
    <2> HIDE DEF g
    <2> DEFINE k == [thr[t] EXCEPT !.pc = g.pc, !.ctx = g.ctx]
    <2>4. /\ k \in ThreadState
          /\ k.pc = g.pc /\ k.ctx = g.ctx /\ k.fake = thr[t].fake /\ k.vec = thr[t].vec
          /\ thr' = [thr EXCEPT ![t] = k]
      <3>1. thr \in [Thread -> ThreadState] /\ thr[t] \in ThreadState
        BY DEF NInv, TypeOK
      <3>2. k \in ThreadState
        BY <2>1, <2>3, <3>1 DEF ThreadState
      <3>3. /\ k.pc = g.pc /\ k.ctx = g.ctx /\ k.fake = thr[t].fake /\ k.vec = thr[t].vec
        BY <3>1 DEF ThreadState
      <3>4. thr' = [thr EXCEPT ![t] = k]
        BY <2>1, <2>3, <3>1
      <3> QED
        BY <3>2, <3>3, <3>4
    <2> HIDE DEF k
    <2>5. RowRight(infos, reported, k)
      BY <1>2, <2>3, <2>4 DEF RowRight, InHook
    <2>6. init \in InitState /\ k.pc \notin InRegister
      BY <2>3, <2>4 DEF NInv, TypeOK, InitState, InRegister
    <2> QED
      BY <1>0, <1>1, <1>5, <2>1, <2>4, <2>5, <2>6, QuietFrame
  <1> QED
    BY <1>4, <1>5 DEF hook_native_func_route

LEMMA ReturnKeeps ==
    ASSUME NInv, NEW t \in Thread, native_return(t) PROVE NInv'
  <1>1. /\ thr[t].pc \in {"body", "raw"} /\ thr' = [thr EXCEPT ![t] = IdleThread] /\ ModuleUnchanged
        /\ UNCHANGED <<init, infos, entry, asked, reg_jni_func_infos, reported, regs, raced, clashed, crashed>>
    BY DEF native_return, CallUnchanged
  <1>2. IdleThread \in ThreadState
    BY DEF IdleThread, ThreadState
  <1>3. RowRight(infos, reported, IdleThread)
    BY DEF RowRight, IdleThread, InHook
  <1>4. init \in InitState /\ IdleThread.pc = "java" /\ IdleThread.pc \notin InRegister /\ clashed' \in BOOLEAN
    BY <1>1 DEF NInv, TypeOK, InitState, InRegister, IdleThread
  <1> QED
    BY <1>1, <1>2, <1>3, <1>4, QuietFrame

LEMMA OnLoadKeeps ==
    ASSUME NInv, NEW t \in Thread, hook_jni_onload(t) PROVE NInv'
  <1>1. /\ thr[t].pc = "java" /\ init' = [init EXCEPT !.onload = TRUE]
        /\ thr' = [thr EXCEPT ![t].pc = IF init.patched THEN "body" ELSE "raw"] /\ ModuleUnchanged
        /\ UNCHANGED <<infos, entry, asked, reg_jni_func_infos, reported, regs, raced, clashed, crashed>>
    BY DEF hook_jni_onload
  <1>2. PICK p \in {"body", "raw"} : thr' = [thr EXCEPT ![t].pc = p] /\ (p = "body" => init.patched)
    BY <1>1
  <1> DEFINE k == [thr[t] EXCEPT !.pc = p]
  <1>3. /\ k \in ThreadState
        /\ k.pc = p /\ k.fake = thr[t].fake /\ k.vec = thr[t].vec
        /\ thr' = [thr EXCEPT ![t] = k]
    <2>1. thr \in [Thread -> ThreadState] /\ thr[t] \in ThreadState
      BY DEF NInv, TypeOK
    <2>2. k \in ThreadState
      BY <1>2, <2>1 DEF ThreadState
    <2>3. /\ k.pc = p /\ k.fake = thr[t].fake /\ k.vec = thr[t].vec
      BY <2>1 DEF ThreadState
    <2>4. thr' = [thr EXCEPT ![t] = k]
      BY <1>2, <2>1
    <2> QED
      BY <2>2, <2>3, <2>4
  <1> HIDE DEF k
  <1>4. RowRight(infos, reported, thr[t])
    BY DEF NInv, ThreadsRight
  <1>5. RowRight(infos, reported, k)
    BY <1>3, <1>4 DEF RowRight, InHook
  <1>6. init' \in InitState /\ init'.pc = init.pc /\ init'.patched = init.patched
    BY <1>1 DEF NInv, TypeOK, InitState
  <1>7. loads <= 1 /\ ~g_tar_module => k.pc \in {"java", "raw"}
    BY <1>2, <1>3 DEF NInv, FirstLoad, Bare
  <1>8. k.pc \notin InRegister /\ clashed' \in BOOLEAN
    BY <1>1, <1>3 DEF NInv, TypeOK, InRegister
  <1> QED
    BY <1>1, <1>3, <1>5, <1>6, <1>7, <1>8, QuietFrame

\* A hook that a thread is in exists only with the module, until a second load.
LEMMA InsideModule ==
    ASSUME NInv, NEW t \in Thread, thr[t].pc \notin {"java", "raw"}
    PROVE  loads > 1 \/ g_tar_module
  BY DEF NInv, TypeOK, FirstLoad, Bare

\* The same for a thread that is inside a hook and binds no method.
LEMMA InsideFrame ==
    ASSUME NInv, NEW t \in Thread, thr[t].pc \notin {"java", "raw"},
           NEW k \in ThreadState, thr' = [thr EXCEPT ![t] = k],
           ModuleUnchanged, UNCHANGED <<init, entry, asked, regs, raced, crashed>>,
           Grows, clashed' \in BOOLEAN,
           \A i \in DOMAIN infos' : infos'[i].live \/ (i \in DOMAIN infos /\ ~infos[i].live),
           reg_jni_func_infos' \subseteq DOMAIN infos', reported' \subseteq Method \X Func,
           RowRight(infos', reported', k), ArgsSettled', OneRegisters'
    PROVE  NInv'
  <1>1. ~(loads <= 1 /\ ~g_tar_module)
    BY InsideModule DEF NInv, TypeOK
  <1>2. EntriesRight'
    BY EntriesKept DEF NInv
  <1>3. /\ regs' \in 0..MaxReg /\ raced' \in BOOLEAN /\ init' \in InitState
        /\ entry' \in [Method -> EntryPoint] /\ asked' \in [Method -> Asked]
    BY DEF NInv, TypeOK, Asked, InitState
  <1> QED
    BY <1>1, <1>2, <1>3, ThreadFrame

\* One info is replaced by another state of it.
LEMMA InfoPut ==
    ASSUME TypeOK, NEW i \in DOMAIN infos, NEW x \in Info, infos' = [infos EXCEPT ![i] = x],
           x.method = infos[i].method, x.addr = infos[i].addr, x.live = infos[i].live,
           infos[i].origin_call => x.origin_call, reported \subseteq reported',
           clashed => clashed', x.torn => infos[i].torn \/ clashed'
    PROVE  /\ Grows /\ DOMAIN infos' = DOMAIN infos
           /\ infos'[i] = x /\ \A j \in DOMAIN infos : j # i => infos'[j] = infos[j]
           /\ \A j \in DOMAIN infos' : infos'[j].live \/ (j \in DOMAIN infos /\ ~infos[j].live)
  <1>1. infos' \in Seq(Info) /\ DOMAIN infos' = DOMAIN infos
    BY DEF TypeOK
  <1>2. infos'[i] = x /\ \A j \in DOMAIN infos : j # i => infos'[j] = infos[j]
    BY DEF TypeOK
  <1>3. Grows
    BY <1>1, <1>2 DEF Grows
  <1> QED
    BY <1>1, <1>2, <1>3

\* One info changes while nobody else assigns it, and it is settled as long as nobody does.
LEMMA ArgsKeptElsewhere ==
    ASSUME NInv, NEW t \in Thread, NEW c \in DOMAIN infos, c = thr[t].ctx,
           DOMAIN infos' = DOMAIN infos,
           \A j \in DOMAIN infos : j # c => infos'[j] = infos[j],
           thr'[t].ctx = c, \A s \in Thread : s # t => thr'[s] = thr[s],
           \/ thr'[t].pc = "assign"
           \/ infos'[c].available /\ ~infos'[c].torn =>
                 infos'[c].args \in {Arity[Declared[d]] : d \in Overloads(infos'[c].method)}
    PROVE  ArgsSettled'
  <1> SUFFICES ASSUME NEW i \in DOMAIN infos', infos'[i].available, ~infos'[i].torn,
                      \A s \in Thread : ~(thr'[s].ctx = i /\ thr'[s].pc = "assign")
               PROVE  infos'[i].args \in {Arity[Declared[d]] : d \in Overloads(infos'[i].method)}
    BY DEF ArgsSettled
  <1>1. CASE i = c
    BY <1>1
  <1>2. CASE i # c
    <2>1. infos'[i] = infos[i] /\ i \in DOMAIN infos
      BY <1>2
    <2>2. \A s \in Thread : ~(thr[s].ctx = i /\ thr[s].pc = "assign")
      BY <1>2
    <2> QED
      BY <2>1, <2>2 DEF NInv, ArgsSettled
  <1> QED
    BY <1>1, <1>2

\* The old argument list is released.
LEMMA ReleaseKeeps ==
    ASSUME NInv, NEW t \in Thread, update_method_info_release(t) PROVE NInv'
  <1>1. /\ thr[t].pc = "parse" /\ ModuleUnchanged /\ Uses(t)
        /\ UNCHANGED <<init, entry, asked, reg_jni_func_infos, reported, regs, raced>>
    BY DEF update_method_info_release, CallUnchanged
  <1>2. CASE Unsound(t) /\ Crash /\ UNCHANGED <<infos, thr>>
    BY <1>1, <1>2, UnsoundKeeps DEF InHook, Crash
  <1>3. CASE /\ infos' = [infos EXCEPT ![thr[t].ctx].args = 0, ![thr[t].ctx].torn = Writers(t) # {}]
             /\ thr' = [thr EXCEPT ![t].pc = "assign"]
             /\ UNCHANGED crashed
    <2>0. PICK c \in DOMAIN infos : c = thr[t].ctx /\ GoodHook(infos, c)
      BY <1>1, NextOverload
    <2>1. PICK w \in BOOLEAN : w = (Writers(t) # {})
      OBVIOUS
    <2> DEFINE x == [infos[c] EXCEPT !.args = 0, !.torn = w]
    <2>2. infos[c] \in Info /\ infos \in Seq(Info)
      BY InfoTyped DEF NInv, TypeOK
    <2>3. /\ x \in Info /\ x.method = infos[c].method /\ x.addr = infos[c].addr
          /\ x.live = infos[c].live /\ x.origin_call = infos[c].origin_call /\ x.torn = w
      BY <2>2 DEF Info
    <2>4. infos' = [infos EXCEPT ![c] = x]
      BY <1>3, <2>0, <2>1, <2>2
    <2> HIDE DEF x
    <2>5. clashed' \in BOOLEAN /\ (clashed => clashed') /\ (w => clashed')
      BY <1>1, <2>1, UsesNoticed
    <2>6. /\ Grows /\ DOMAIN infos' = DOMAIN infos
          /\ infos'[c] = x /\ \A j \in DOMAIN infos : j # c => infos'[j] = infos[j]
          /\ \A j \in DOMAIN infos' : infos'[j].live \/ (j \in DOMAIN infos /\ ~infos[j].live)
      BY <1>1, <2>3, <2>4, <2>5, InfoPut DEF NInv
    <2> DEFINE k == [thr[t] EXCEPT !.pc = "assign"]
    <2>7. /\ k \in ThreadState /\ k.pc = "assign" /\ k.ctx = c /\ k.rest = thr[t].rest
          /\ k.fake = thr[t].fake /\ k.vec = thr[t].vec
          /\ thr' = [thr EXCEPT ![t] = k]
      <3>1. thr \in [Thread -> ThreadState] /\ thr[t] \in ThreadState
        BY DEF NInv, TypeOK
      <3>2. k \in ThreadState
        BY <3>1 DEF ThreadState
      <3>3. /\ k.pc = "assign" /\ k.ctx = c /\ k.rest = thr[t].rest
            /\ k.fake = thr[t].fake /\ k.vec = thr[t].vec
        BY <2>0, <3>1 DEF ThreadState
      <3>4. thr' = [thr EXCEPT ![t] = k]
        BY <1>3, <3>1
      <3> QED
        BY <3>2, <3>3, <3>4
    <2> HIDE DEF k
    <2>8. /\ thr'[t] = k /\ \A s \in Thread : s # t => thr'[s] = thr[s]
      BY <2>7, ThreadPut DEF NInv
    <2>9. RowRight(infos, reported, thr[t])
      BY DEF NInv, ThreadsRight
    <2>10. RowRight(infos, reported, k)
      BY <1>1, <2>0, <2>7, <2>9 DEF RowRight, InHook
    <2>11. RowRight(infos', reported', k)
      BY <2>6, <2>10, RowKept
    <2>12. ArgsSettled'
      BY <2>0, <2>6, <2>7, <2>8, ArgsKeptElsewhere
    <2>13. OneRegisters'
      BY <1>1, <2>7, <2>8, OneRegistersKept DEF NInv, InRegister
    <2>14. reg_jni_func_infos' \subseteq DOMAIN infos' /\ reported' \subseteq Method \X Func
      BY <1>1, <2>6 DEF NInv, TypeOK
    <2> QED
      BY <1>1, <1>3, <2>5, <2>6, <2>7, <2>11, <2>12, <2>13, <2>14, InsideFrame
  <1> QED
    BY <1>2, <1>3 DEF update_method_info_release

\* What is assigned is the argument list of a declared method with the name; of an info
\* that two assign at once anything may be left.
LEMMA AssignKeeps ==
    ASSUME NInv, NEW t \in Thread, update_method_info_assign(t) PROVE NInv'
  <1>0. PICK n : n = Min(thr[t].rest)
    OBVIOUS
  <1>1. /\ thr[t].pc = "assign" /\ ModuleUnchanged /\ Uses(t)
        /\ UNCHANGED <<init, entry, asked, reg_jni_func_infos, reported, regs, raced>>
    BY DEF update_method_info_assign, CallUnchanged
  <1>2. CASE Unsound(t) /\ Crash /\ UNCHANGED <<infos, thr>>
    BY <1>1, <1>2, UnsoundKeeps DEF InHook, Crash
  <1>3. PICK c \in DOMAIN infos :
           /\ c = thr[t].ctx /\ GoodHook(infos, c)
           /\ thr[t].rest \subseteq Overloads(infos[c].method)
    BY <1>1, NextOverload
  <1>4. infos[c] \in Info /\ infos \in Seq(Info) /\ infos[c].method \in Method
    BY InfoTyped DEF NInv, TypeOK
  <1>5. /\ n \in thr[t].rest /\ n \in Overloads(infos[c].method) /\ Arity[Declared[n]] \in Nat
    BY <1>0, <1>1, <1>3, NextOverload
  <1>6. ASSUME NEW whole \in BOOLEAN, whole \/ infos[c].torn,
               infos' = [infos EXCEPT ![c].args = IF whole THEN ParsedArgs(c, Declared[n]) ELSE 0,
                                      ![c].available = @ \/ whole],
               thr' = [thr EXCEPT ![t].rest = @ \ {n},
                                  ![t].pc = IF thr[t].rest = {n} THEN "route" ELSE "parse"],
               UNCHANGED crashed
        PROVE  NInv'
    <2>1. PICK a \in Nat, v \in BOOLEAN :
             /\ a = IF whole THEN ParsedArgs(c, Declared[n]) ELSE 0
             /\ v = (infos[c].available \/ whole)
      BY <1>5 DEF ParsedArgs
    <2>2. whole => a = Arity[Declared[n]]
      BY <2>1 DEF ParsedArgs
    <2> DEFINE x == [infos[c] EXCEPT !.args = a, !.available = v]
    <2>3. /\ x \in Info /\ x.method = infos[c].method /\ x.addr = infos[c].addr
          /\ x.live = infos[c].live /\ x.origin_call = infos[c].origin_call
          /\ x.args = a /\ x.torn = infos[c].torn
      BY <1>4 DEF Info
    <2>4. infos' = [infos EXCEPT ![c] = x]
      BY <1>4, <1>6, <2>1
    <2> HIDE DEF x
    <2>5. clashed' \in BOOLEAN /\ (clashed => clashed')
      BY <1>1, UsesNoticed
    <2>6. /\ Grows /\ DOMAIN infos' = DOMAIN infos
          /\ infos'[c] = x /\ \A j \in DOMAIN infos : j # c => infos'[j] = infos[j]
          /\ \A j \in DOMAIN infos' : infos'[j].live \/ (j \in DOMAIN infos /\ ~infos[j].live)
      BY <1>1, <2>3, <2>4, <2>5, InfoPut DEF NInv
    <2>7. PICK p \in {"route", "parse"} :
              /\ p = IF thr[t].rest = {n} THEN "route" ELSE "parse"
              /\ p = "parse" => thr[t].rest \ {n} # {}
      BY <1>5
    <2> DEFINE k == [thr[t] EXCEPT !.rest = @ \ {n}, !.pc = p]
    <2>8. /\ k \in ThreadState /\ k.pc = p /\ k.ctx = c /\ k.rest = thr[t].rest \ {n}
          /\ k.fake = thr[t].fake /\ k.vec = thr[t].vec
          /\ thr' = [thr EXCEPT ![t] = k]
      <3>1. thr \in [Thread -> ThreadState] /\ thr[t] \in ThreadState
        BY DEF NInv, TypeOK
      <3>2. k \in ThreadState
        BY <3>1 DEF ThreadState
      <3>3. /\ k.pc = p /\ k.ctx = c /\ k.rest = thr[t].rest \ {n}
            /\ k.fake = thr[t].fake /\ k.vec = thr[t].vec
        BY <1>3, <3>1 DEF ThreadState
      <3>4. thr' = [thr EXCEPT ![t] = k]
        BY <1>6, <2>7, <3>1
      <3> QED
        BY <3>2, <3>3, <3>4
    <2> HIDE DEF k
    <2>9. /\ thr'[t] = k /\ \A s \in Thread : s # t => thr'[s] = thr[s]
      BY <2>8, ThreadPut DEF NInv
    <2>10. RowRight(infos, reported, thr[t])
      BY DEF NInv, ThreadsRight
    <2>11. RowRight(infos, reported, k)
      BY <1>3, <2>7, <2>8, <2>10 DEF RowRight, InHook
    <2>12. RowRight(infos', reported', k)
      BY <2>6, <2>11, RowKept
    <2>13. infos'[c].available /\ ~infos'[c].torn =>
              infos'[c].args \in {Arity[Declared[d]] : d \in Overloads(infos'[c].method)}
      BY <1>5, <1>6, <2>2, <2>3, <2>6
    <2>14. ArgsSettled'
      BY <1>3, <2>6, <2>8, <2>9, <2>13, ArgsKeptElsewhere
    <2>15. OneRegisters'
      BY <1>1, <2>7, <2>8, <2>9, OneRegistersKept DEF NInv, InRegister
    <2>16. reg_jni_func_infos' \subseteq DOMAIN infos' /\ reported' \subseteq Method \X Func
      BY <1>1, <2>6 DEF NInv, TypeOK
    <2> QED
      BY <1>1, <1>6, <2>5, <2>6, <2>8, <2>12, <2>14, <2>15, <2>16, InsideFrame
  <1> QED
    BY <1>0, <1>2, <1>3, <1>6 DEF update_method_info_assign

-----------------------------------------------------------------------------
(* RegisterNatives.                                                        *)

\* A second thread that comes in is noticed.
LEMMA RegisterKeeps ==
    ASSUME NInv, NEW t \in Thread, RegisterNatives(t) PROVE NInv'
  <1>1. /\ thr[t].pc = "body"
        /\ raced' = (raced \/ \E s \in Thread : Registering(s))
        /\ UNCHANGED <<init, infos, entry, asked, reg_jni_func_infos, reported, clashed>>
        /\ ModuleUnchanged
    BY DEF RegisterNatives
  <1>0. PICK b \in Batch :
           /\ regs' = regs + Len(b)
           /\ IF g_tar_module
              THEN thr' = [thr EXCEPT ![t].pc = "scan", ![t].todo = b] /\ UNCHANGED crashed
              ELSE Crash /\ UNCHANGED thr
    BY DEF RegisterNatives
  <1>2. regs' \in 0..MaxReg /\ b \in Seq(Method \X Func)
    <2>1. PICK n \in 1..MaxReg : b \in [1..n -> Method \X Func] /\ regs + n <= MaxReg
      BY DEF Batch
    <2>2. b \in Seq(Method \X Func) /\ Len(b) = n
      BY <2>1, BoundAssumption
    <2> QED
      BY <1>0, <2>1, <2>2, BoundAssumption DEF NInv, TypeOK
  <1>3. raced' \in BOOLEAN /\ (raced => raced') /\ clashed' \in BOOLEAN
    BY <1>1 DEF NInv, TypeOK
  <1>4. loads > 1 \/ g_tar_module
    BY <1>1, InsideModule
  <1>5. CASE ~g_tar_module
    BY <1>0, <1>1, <1>2, <1>3, <1>4, <1>5, CrashFrame DEF Crash
  <1>6. CASE g_tar_module
    <2>1. thr' = [thr EXCEPT ![t].pc = "scan", ![t].todo = b]
      BY <1>0, <1>6
    <2>2. b \in Seq(Method \X Func)
      BY <1>2
    <2> DEFINE k == [thr[t] EXCEPT !.pc = "scan", !.todo = b]
    <2>3. /\ k \in ThreadState /\ k.pc = "scan" /\ k.fake = thr[t].fake /\ k.vec = thr[t].vec
          /\ thr' = [thr EXCEPT ![t] = k]
      <3>1. thr \in [Thread -> ThreadState] /\ thr[t] \in ThreadState
        BY DEF NInv, TypeOK
      <3>2. k \in ThreadState
        BY <2>2, <3>1 DEF ThreadState
      <3>3. k.pc = "scan" /\ k.fake = thr[t].fake /\ k.vec = thr[t].vec
        BY <3>1 DEF ThreadState
      <3>4. thr' = [thr EXCEPT ![t] = k]
        BY <2>1, <3>1
      <3> QED
        BY <3>2, <3>3, <3>4
    <2> HIDE DEF k
    <2>4. /\ thr'[t] = k /\ \A s \in Thread : s # t => thr'[s] = thr[s]
      BY <2>3, ThreadPut DEF NInv
    <2>5. RowRight(infos, reported, thr[t])
      BY DEF NInv, ThreadsRight
    <2>6. RowRight(infos', reported', k)
      BY <1>1, <2>3, <2>5 DEF RowRight, InHook
    <2>7. ArgsSettled'
      BY <1>1, <2>4, ArgsKept DEF NInv
    <2>8. OneRegisters'
      <3>1. ~raced' => ~raced /\ \A s \in Thread : ~Registering(s)
        BY <1>1
      <3>2. ~raced' => \A s \in Thread : s # t => thr'[s].pc \notin InRegister
        BY <2>4, <3>1 DEF Registering, InRegister
      <3> QED
        BY <2>3, <2>4, <3>2 DEF OneRegisters, Registering, InRegister
    <2>9. Grows
      BY <1>1, GrowsIfSame DEF NInv, TypeOK
    <2>10. EntriesRight'
      BY <1>1, <2>9, EntriesKept DEF NInv
    <2>11. /\ init' \in InitState /\ reg_jni_func_infos' \subseteq DOMAIN infos'
           /\ reported' \subseteq Method \X Func
           /\ entry' \in [Method -> EntryPoint] /\ asked' \in [Method -> Asked]
      BY <1>1 DEF NInv, TypeOK, Asked, InitState
    <2>12. \A i \in DOMAIN infos' : infos'[i].live \/ (i \in DOMAIN infos /\ ~infos[i].live)
      BY <1>1
    <2>13. crashed' = crashed
      BY <1>0, <1>6
    <2> QED
      BY <1>1, <1>2, <1>3, <1>6, <2>3, <2>6, <2>7, <2>8, <2>9, <2>10, <2>11, <2>12, <2>13,
         ThreadFrame
  <1> QED
    BY <1>5, <1>6

\* The row of the table a thread works on.
LEMMA TodoTyped ==
    ASSUME NInv, NEW t \in Thread, thr[t].todo # <<>>
    PROVE  /\ Head(thr[t].todo)[1] \in Method /\ Head(thr[t].todo)[2] \in Func
           /\ Tail(thr[t].todo) \in Seq(Method \X Func)
  <1>1. thr[t].todo \in Seq(Method \X Func)
    BY ThreadTyped DEF NInv
  <1>2. Head(thr[t].todo) \in Method \X Func /\ Tail(thr[t].todo) \in Seq(Method \X Func)
    BY <1>1
  <1> QED
    BY <1>2

Row == [method: Method, fn: Func, to: EntryPoint]

\* A right row goes to the end of right rows.
LEMMA FakeAppended ==
    ASSUME NEW is, NEW log, NEW fake \in Seq(Row), NEW r \in Row,
           \A j \in DOMAIN fake : FakeRight(is, log, fake[j]), FakeRight(is, log, r)
    PROVE  /\ Append(fake, r) \in Seq(Row)
           /\ \A j \in DOMAIN Append(fake, r) : FakeRight(is, log, Append(fake, r)[j])
  <1>1. Append(fake, r) \in Seq(Row)
    OBVIOUS
  <1>2. \A j \in DOMAIN Append(fake, r) :
            (j \in DOMAIN fake /\ Append(fake, r)[j] = fake[j]) \/ Append(fake, r)[j] = r
    OBVIOUS
  <1> QED
    BY <1>1, <1>2

\* A row that is refused is reported; a scan meets a store only after a race.
LEMMA ScanKeeps ==
    ASSUME NInv, NEW t \in Thread, hook_RegisterNatives_scan(t) PROVE NInv'
  <1>1. /\ thr[t].pc = "scan" /\ thr[t].todo # <<>>
        /\ UNCHANGED <<init, infos, entry, asked, reg_jni_func_infos, regs, raced, clashed>>
        /\ ModuleUnchanged
    BY DEF hook_RegisterNatives_scan, RegUnchanged
  <1>2. PICK m \in Method, f \in Func, tl \in Seq(Method \X Func) :
           m = Head(thr[t].todo)[1] /\ f = Head(thr[t].todo)[2] /\ tl = Tail(thr[t].todo)
    BY <1>1, TodoTyped
  <1>3. RowRight(infos, reported, thr[t])
    BY DEF NInv, ThreadsRight
  <1>4. thr \in [Thread -> ThreadState] /\ thr[t] \in ThreadState /\ infos \in Seq(Info)
    BY DEF NInv, TypeOK
  <1>5. /\ \A i \in DOMAIN infos' : infos'[i].live \/ (i \in DOMAIN infos /\ ~infos[i].live)
        /\ reg_jni_func_infos' \subseteq DOMAIN infos' /\ clashed' \in BOOLEAN
    BY <1>1 DEF NInv, TypeOK
  <1>6. CASE /\ LogRefused(m, f)
             /\ thr' = [thr EXCEPT ![t].todo = Tail(@),
                                   ![t].fake = Append(@, [method |-> m, fn |-> f, to |-> Raw(f)])]
             /\ UNCHANGED crashed
    <2> DEFINE r == [method |-> m, fn |-> f, to |-> Raw(f)]
               fk == Append(thr[t].fake, r)
    <2>1. reported' = reported \cup {<<m, f>>}
      BY <1>6 DEF LogRefused
    <2>2. reported' \subseteq Method \X Func /\ reported \subseteq reported'
      BY <2>1 DEF NInv, TypeOK
    <2>3. Grows
      BY <1>1, <2>2, GrowsIfSame DEF NInv, TypeOK
    <2>4. r \in Row /\ FakeRight(infos', reported', r)
      BY <2>1 DEF Row, EntryPoint, Raw, FakeRight, Leads
    <2>5. RowRight(infos', reported', thr[t])
      BY <1>3, <2>3, RowKept
    <2> HIDE DEF r
    <2>6. thr[t].fake \in Seq(Row)
      BY ThreadTyped DEF NInv, Row
    <2>7. /\ fk \in Seq(Row)
          /\ \A j \in DOMAIN fk : FakeRight(infos', reported', fk[j])
      BY <2>4, <2>5, <2>6, FakeAppended DEF RowRight
    <2> HIDE DEF fk
    <2> DEFINE k == [thr[t] EXCEPT !.todo = tl, !.fake = fk]
    <2>8. /\ k \in ThreadState /\ k.pc = "scan" /\ k.fake = fk /\ k.vec = thr[t].vec
          /\ thr' = [thr EXCEPT ![t] = k]
      <3>1. k \in ThreadState
        BY <1>4, <2>7 DEF ThreadState, Row
      <3>2. k.pc = "scan" /\ k.fake = fk /\ k.vec = thr[t].vec
        BY <1>1, <1>4 DEF ThreadState
      <3>3. thr' = [thr EXCEPT ![t] = k]
        BY <1>2, <1>4, <1>6 DEF fk, r
      <3> QED
        BY <3>1, <3>2, <3>3
    <2> HIDE DEF k
    <2>9. /\ thr'[t] = k /\ \A s \in Thread : s # t => thr'[s] = thr[s]
      BY <2>8, ThreadPut DEF NInv
    <2>10. RowRight(infos', reported', k)
      BY <2>5, <2>7, <2>8 DEF RowRight, InHook
    <2>11. ArgsSettled'
      BY <1>1, <2>9, ArgsKept DEF NInv
    <2>12. OneRegisters'
      BY <1>1, <2>8, <2>9, OneRegistersKept DEF NInv, InRegister
    <2> QED
      BY <1>1, <1>5, <1>6, <2>2, <2>3, <2>8, <2>10, <2>11, <2>12, InsideFrame
  <1>7. CASE thr' = [thr EXCEPT ![t].pc = "create"] /\ UNCHANGED <<reported, crashed>>
    <2> DEFINE k == [thr[t] EXCEPT !.pc = "create"]
    <2>1. /\ k \in ThreadState /\ k.pc = "create" /\ k.todo = thr[t].todo /\ k.fake = thr[t].fake
          /\ k.vec = thr[t].vec /\ thr' = [thr EXCEPT ![t] = k]
      <3>1. k \in ThreadState
        BY <1>4 DEF ThreadState
      <3>2. /\ k.pc = "create" /\ k.todo = thr[t].todo /\ k.fake = thr[t].fake
            /\ k.vec = thr[t].vec
        BY <1>4 DEF ThreadState
      <3>3. thr' = [thr EXCEPT ![t] = k]
        BY <1>4, <1>7
      <3> QED
        BY <3>1, <3>2, <3>3
    <2> HIDE DEF k
    <2>2. /\ thr'[t] = k /\ \A s \in Thread : s # t => thr'[s] = thr[s]
      BY <2>1, ThreadPut DEF NInv
    <2>3. RowRight(infos', reported', k)
      BY <1>1, <1>3, <1>7, <2>1 DEF RowRight, InHook
    <2>4. ArgsSettled'
      BY <1>1, <2>2, ArgsKept DEF NInv
    <2>5. OneRegisters'
      BY <1>1, <2>1, <2>2, OneRegistersKept DEF NInv, InRegister
    <2>6. Grows /\ reported' \subseteq Method \X Func
      BY <1>1, <1>7, GrowsIfSame DEF NInv, TypeOK
    <2> QED
      BY <1>1, <1>5, <1>7, <2>1, <2>3, <2>4, <2>5, <2>6, InsideFrame
  <1>8. CASE /\ \E s \in Thread \ {t} : thr[s].pc = "store"
             /\ Crash /\ UNCHANGED <<reported, thr>>
    <2>1. raced
      BY <1>1, <1>8 DEF NInv, OneRegisters, Registering
    <2>2. regs' \in 0..MaxReg /\ raced' \in BOOLEAN
      BY <1>1 DEF NInv, TypeOK
    <2> QED
      BY <1>1, <1>5, <1>8, <2>1, <2>2, CrashFrame DEF Crash
  <1> QED
    BY <1>2, <1>6, <1>7, <1>8 DEF hook_RegisterNatives_scan

\* The new info is hooked from the start, and remembered in the thread's vector.
LEMMA CreateKeeps ==
    ASSUME NInv, NEW t \in Thread, hook_RegisterNatives_create(t) PROVE NInv'
  <1>1. /\ thr[t].pc = "create" /\ g_tar_module
        /\ UNCHANGED <<init, entry, asked, reg_jni_func_infos, reported, regs, raced, clashed, crashed>>
        /\ ModuleUnchanged
    BY DEF hook_RegisterNatives_create, RegUnchanged
  <1>2. RowRight(infos, reported, thr[t])
    BY DEF NInv, ThreadsRight
  <1>3. PICK m \in Method, f \in Func, tl \in Seq(Method \X Func) :
           m = Head(thr[t].todo)[1] /\ f = Head(thr[t].todo)[2] /\ tl = Tail(thr[t].todo)
    BY <1>1, <1>2, TodoTyped DEF RowRight
  <1>4. thr \in [Thread -> ThreadState] /\ thr[t] \in ThreadState /\ infos \in Seq(Info)
    BY DEF NInv, TypeOK
  <1>5. PICK n \in Nat : n = Len(infos) + 1
    BY <1>4
  <1> DEFINE x == [method |-> m, addr |-> f, args |-> Arity[m],
                   available |-> FALSE, origin_call |-> TRUE, live |-> TRUE,
                   torn |-> FALSE]
             r == [method |-> m, fn |-> f, to |-> Hook(n)]
             fk == Append(thr[t].fake, r)
             v == reg_jni_func_infos \cup {n}
  <1>6. /\ infos' = Append(infos, x)
        /\ thr' = [thr EXCEPT ![t].pc = "store", ![t].todo = Tail(@), ![t].vec = v,
                              ![t].fake = Append(@, r)]
    BY <1>3, <1>5 DEF hook_RegisterNatives_create, NewInfo
  <1>7. /\ x \in Info /\ x.addr = f /\ x.origin_call /\ ~x.available /\ x.live /\ ~x.torn
    BY MethodAssumption DEF Info
  <1> HIDE DEF x
  <1>8. /\ infos' \in Seq(Info) /\ DOMAIN infos' = DOMAIN infos \cup {n} /\ n \notin DOMAIN infos
        /\ infos'[n] = x /\ \A i \in DOMAIN infos : infos'[i] = infos[i]
    BY <1>4, <1>5, <1>6, <1>7
  <1>9. Grows
    BY <1>1, <1>7, <1>8 DEF Grows
  <1>10. \A i \in DOMAIN infos' : infos'[i].live \/ (i \in DOMAIN infos /\ ~infos[i].live)
    BY <1>7, <1>8
  <1>11. RowRight(infos', reported', thr[t])
    BY <1>2, <1>9, RowKept
  <1>12. r \in Row /\ FakeRight(infos', reported', r)
    <2>1. Hook(n) \in EntryPoint /\ Hook(n).id = n /\ n # 0
      BY <1>4, <1>5 DEF Hook, EntryPoint
    <2>2. r \in Row /\ r.to = Hook(n) /\ r.fn = f
      BY <2>1 DEF Row
    <2>3. GoodHook(infos', n) /\ infos'[n].addr = f
      BY <1>7, <1>8 DEF GoodHook
    <2> QED
      BY <2>1, <2>2, <2>3 DEF FakeRight, Leads
  <1> HIDE DEF r
  <1>13. thr[t].fake \in Seq(Row)
    BY ThreadTyped DEF NInv, Row
  <1>14. /\ fk \in Seq(Row)
         /\ \A j \in DOMAIN fk : FakeRight(infos', reported', fk[j])
    BY <1>11, <1>12, <1>13, FakeAppended DEF RowRight
  <1> HIDE DEF fk
  <1>15. v \subseteq DOMAIN infos' /\ v \in SUBSET Nat
    BY <1>4, <1>8 DEF NInv, TypeOK
  <1>16. reg_jni_func_infos \subseteq v /\ reg_jni_func_infos' \subseteq DOMAIN infos'
    BY <1>1, <1>15
  <1> HIDE DEF v
  <1> DEFINE k == [thr[t] EXCEPT !.pc = "store", !.todo = tl, !.vec = v, !.fake = fk]
  <1>17. /\ k \in ThreadState /\ k.pc = "store" /\ k.fake = fk /\ k.vec = v
         /\ thr' = [thr EXCEPT ![t] = k]
    <2>1. k \in ThreadState
      BY <1>4, <1>14, <1>15 DEF ThreadState, Row
    <2>2. k.pc = "store" /\ k.fake = fk /\ k.vec = v
      BY <1>4 DEF ThreadState
    <2>3. thr' = [thr EXCEPT ![t] = k]
      BY <1>3, <1>4, <1>6 DEF fk
    <2> QED
      BY <2>1, <2>2, <2>3
  <1> HIDE DEF k
  <1>18. /\ thr'[t] = k /\ \A s \in Thread : s # t => thr'[s] = thr[s]
    BY <1>17, ThreadPut DEF NInv
  <1>19. RowRight(infos', reported', k)
    BY <1>14, <1>15, <1>17 DEF RowRight, InHook
  <1>20. ArgsSettled'
    <2> SUFFICES ASSUME NEW i \in DOMAIN infos', infos'[i].available, ~infos'[i].torn,
                        \A s \in Thread : ~(thr'[s].ctx = i /\ thr'[s].pc = "assign")
                 PROVE  infos'[i].args \in {Arity[Declared[d]] : d \in Overloads(infos'[i].method)}
      BY DEF ArgsSettled
    <2>1. infos'[i] = infos[i] /\ i \in DOMAIN infos
      BY <1>7, <1>8
    <2>2. \A s \in Thread : ~(thr[s].ctx = i /\ thr[s].pc = "assign")
      BY <1>1, <1>18
    <2> QED
      BY <2>1, <2>2 DEF NInv, ArgsSettled
  <1>21. OneRegisters'
    BY <1>1, <1>16, <1>17, <1>18, OneRegistersKept DEF NInv, InRegister
  <1>22. reported' \subseteq Method \X Func /\ clashed' \in BOOLEAN
    BY <1>1 DEF NInv, TypeOK
  <1> QED
    BY <1>1, <1>9, <1>10, <1>16, <1>17, <1>19, <1>20, <1>21, <1>22, InsideFrame

LEMMA NoModuleKeeps ==
    ASSUME NInv, NEW t \in Thread, hook_RegisterNatives_no_module(t) PROVE NInv'
  <1>1. /\ thr[t].pc = "create" /\ ~g_tar_module /\ crashed' = TRUE /\ ModuleUnchanged
        /\ UNCHANGED <<init, infos, entry, asked, reg_jni_func_infos, reported, thr, regs, raced, clashed>>
    BY DEF hook_RegisterNatives_no_module, RegUnchanged, Crash
  <1>2. loads > 1 /\ regs' \in 0..MaxReg /\ raced' \in BOOLEAN /\ clashed' \in BOOLEAN
    BY <1>1, InsideModule DEF NInv, TypeOK
  <1> QED
    BY <1>1, <1>2, CrashFrame

\* A store loses an element of another thread only after a race.
LEMMA StoreKeeps ==
    ASSUME NInv, NEW t \in Thread, hook_RegisterNatives_store(t) PROVE NInv'
  <1>1. /\ thr[t].pc = "store" /\ ModuleUnchanged
        /\ UNCHANGED <<init, infos, entry, asked, reported, regs, raced, clashed>>
    BY DEF hook_RegisterNatives_store, RegUnchanged
  <1>0. clashed' \in BOOLEAN
    BY <1>1 DEF NInv, TypeOK
  <1>2. CASE ~(reg_jni_func_infos \subseteq thr[t].vec) /\ Crash /\ UNCHANGED <<reg_jni_func_infos, thr>>
    <2>1. raced
      BY <1>1, <1>2 DEF NInv, OneRegisters
    <2>2. regs' \in 0..MaxReg /\ raced' \in BOOLEAN
      BY <1>1 DEF NInv, TypeOK
    <2> QED
      BY <1>0, <1>1, <1>2, <2>1, <2>2, CrashFrame DEF Crash
  <1>3. CASE /\ reg_jni_func_infos' = thr[t].vec
             /\ thr' = [thr EXCEPT ![t].pc = "scan", ![t].vec = {}]
             /\ UNCHANGED crashed
    <2>1. thr \in [Thread -> ThreadState] /\ thr[t] \in ThreadState /\ infos \in Seq(Info)
      BY DEF NInv, TypeOK
    <2> DEFINE k == [thr[t] EXCEPT !.pc = "scan", !.vec = {}]
    <2>2. /\ k \in ThreadState /\ k.pc = "scan" /\ k.fake = thr[t].fake /\ k.vec = {}
          /\ thr' = [thr EXCEPT ![t] = k]
      <3>1. k \in ThreadState
        BY <2>1 DEF ThreadState
      <3>2. k.pc = "scan" /\ k.fake = thr[t].fake /\ k.vec = {}
        BY <2>1 DEF ThreadState
      <3>3. thr' = [thr EXCEPT ![t] = k]
        BY <1>3, <2>1
      <3> QED
        BY <3>1, <3>2, <3>3
    <2> HIDE DEF k
    <2>3. /\ thr'[t] = k /\ \A s \in Thread : s # t => thr'[s] = thr[s]
      BY <2>2, ThreadPut DEF NInv
    <2>4. RowRight(infos, reported, thr[t])
      BY DEF NInv, ThreadsRight
    <2>5. RowRight(infos', reported', k)
      BY <1>1, <2>2, <2>4 DEF RowRight, InHook
    <2>6. ArgsSettled'
      BY <1>1, <2>3, ArgsKept DEF NInv
    <2>7. OneRegisters'
      <3>1. ~raced => \A s \in Thread : s # t => ~Registering(s)
        BY <1>1 DEF NInv, OneRegisters, Registering
      <3>2. ~raced => \A s \in Thread : s # t => thr'[s].pc \notin InRegister
        BY <2>3, <3>1 DEF Registering, InRegister
      <3> QED
        BY <1>1, <2>2, <2>3, <3>2 DEF OneRegisters, Registering, InRegister
    <2>8. Grows /\ reported' \subseteq Method \X Func
      BY <1>1, GrowsIfSame DEF NInv, TypeOK
    <2>9. /\ \A i \in DOMAIN infos' : infos'[i].live \/ (i \in DOMAIN infos /\ ~infos[i].live)
          /\ reg_jni_func_infos' \subseteq DOMAIN infos'
      BY <1>1, <1>3, <2>4 DEF RowRight
    <2> QED
      BY <1>0, <1>1, <1>3, <2>2, <2>5, <2>6, <2>7, <2>8, <2>9, InsideFrame
  <1> QED
    BY <1>2, <1>3 DEF hook_RegisterNatives_store

\* The last of the first n rows for m.
LEMMA LastBoundRight ==
    ASSUME NEW fake \in Seq(Row), NEW n \in 0..Len(fake), NEW m, Bound(fake, n, m) # {}
    PROVE  \E i \in DOMAIN fake : LastBound(fake, n, m) = fake[i] /\ fake[i].method = m
  <1>1. n \in Nat /\ Len(fake) \in Nat /\ Bound(fake, n, m) \subseteq 1..n
    BY DEF Bound
  <1>2. \E i \in Bound(fake, n, m) : \A j \in Bound(fake, n, m) : j <= i
    BY <1>1, LargestExists
  <1>3. PICK k : k = CHOOSE i \in Bound(fake, n, m) : \A j \in Bound(fake, n, m) : j <= i
    OBVIOUS
  <1>4. k \in Bound(fake, n, m)
    BY <1>2, <1>3, Zenon
  <1>5. k \in DOMAIN fake /\ fake[k].method = m
    BY <1>1, <1>4 DEF Bound
  <1>6. LastBound(fake, n, m) = fake[k]
    BY <1>3 DEF LastBound
  <1> QED
    BY <1>5, <1>6

\* The runtime binds each method to the last row for it.
LEMMA OriginKeeps ==
    ASSUME NInv, NEW t \in Thread, hook_RegisterNatives_origin(t) PROVE NInv'
  <1>1. /\ thr[t].pc = "scan" /\ thr' = [thr EXCEPT ![t].pc = "body", ![t].fake = <<>>]
        /\ UNCHANGED <<init, infos, reg_jni_func_infos, reported, regs, raced, clashed, crashed>>
        /\ ModuleUnchanged
    BY DEF hook_RegisterNatives_origin, RegUnchanged
  <1> DEFINE fake == thr[t].fake
  <1>2. fake \in Seq(Row)
    BY ThreadTyped DEF NInv, Row
  <1>3. PICK n \in 0..Len(fake) :
           /\ entry' = [m \in Method |-> IF Bound(fake, n, m) = {} THEN entry[m]
                                         ELSE LastBound(fake, n, m).to]
           /\ asked' = [m \in Method |-> IF Bound(fake, n, m) = {} THEN asked[m]
                                         ELSE [fn |-> LastBound(fake, n, m).fn, via |-> "hook"]]
    BY Zenon DEF hook_RegisterNatives_origin
  <1>4. RowRight(infos, reported, thr[t])
    BY DEF NInv, ThreadsRight
  <1>5. ASSUME NEW m \in Method
        PROVE  entry'[m] \in EntryPoint /\ asked'[m] \in Asked /\ EntryRight(m)'
    <2>1. CASE Bound(fake, n, m) = {}
      <3>1. entry'[m] = entry[m] /\ asked'[m] = asked[m]
        BY <1>3, <2>1
      <3>2. EntryRight(m) /\ entry[m] \in EntryPoint /\ asked[m] \in Asked
        BY DEF NInv, EntriesRight, TypeOK, Asked
      <3> QED
        BY <1>1, <3>1, <3>2 DEF EntryRight
    <2>2. CASE Bound(fake, n, m) # {}
      <3>1. PICK i \in DOMAIN fake : LastBound(fake, n, m) = fake[i] /\ fake[i].method = m
        BY <1>2, <2>2, LastBoundRight
      <3>2. fake[i] \in Row /\ FakeRight(infos, reported, fake[i])
        BY <1>2, <1>4 DEF RowRight
      <3>3. entry'[m] = fake[i].to /\ asked'[m] = [fn |-> fake[i].fn, via |-> "hook"]
        BY <1>3, <2>2, <3>1
      <3>4. fake[i].to \in EntryPoint /\ fake[i].fn \in Func
        BY <3>2 DEF Row
      <3>5. asked'[m] \in Asked /\ asked'[m].fn = fake[i].fn
        BY <3>3, <3>4 DEF Asked
      <3>6. EntryRight(m)'
        BY <1>1, <3>1, <3>2, <3>3, <3>5 DEF EntryRight, FakeRight
      <3> QED
        BY <3>3, <3>4, <3>5, <3>6
    <2> QED
      BY <2>1, <2>2
  <1>6. entry' \in [Method -> EntryPoint] /\ asked' \in [Method -> Asked] /\ EntriesRight'
    <2>1. entry' \in [Method -> EntryPoint]
      <3>1. entry' = [m \in Method |-> entry'[m]]
        BY <1>3
      <3> QED
        BY <1>5, <3>1
    <2>2. asked' \in [Method -> Asked]
      <3>1. asked' = [m \in Method |-> asked'[m]]
        BY <1>3
      <3> QED
        BY <1>5, <3>1
    <2> QED
      BY <1>5, <2>1, <2>2 DEF EntriesRight
  <1> DEFINE k == [thr[t] EXCEPT !.pc = "body", !.fake = <<>>]
  <1>7. /\ k \in ThreadState /\ k.pc = "body" /\ k.fake = <<>> /\ k.vec = thr[t].vec
        /\ thr' = [thr EXCEPT ![t] = k]
    <2>1. thr \in [Thread -> ThreadState] /\ thr[t] \in ThreadState
      BY DEF NInv, TypeOK
    <2>2. k \in ThreadState
      <3>1. <<>> \in Seq(Row)
        OBVIOUS
      <3> HIDE DEF fake
      <3> QED
        BY <2>1, <3>1 DEF ThreadState, Row
    <2>3. k.pc = "body" /\ k.fake = <<>> /\ k.vec = thr[t].vec
      BY <2>1 DEF ThreadState
    <2>4. thr' = [thr EXCEPT ![t] = k]
      BY <1>1, <2>1
    <2> QED
      BY <2>2, <2>3, <2>4
  <1> HIDE DEF k
  <1>8. /\ thr'[t] = k /\ \A s \in Thread : s # t => thr'[s] = thr[s]
    BY <1>7, ThreadPut DEF NInv
  <1>9. RowRight(infos', reported', k)
    BY <1>1, <1>4, <1>7 DEF RowRight, InHook
  <1>10. ArgsSettled'
    BY <1>1, <1>8, ArgsKept DEF NInv
  <1>11. OneRegisters'
    BY <1>1, <1>7, <1>8, OneRegistersKept DEF NInv, InRegister
  <1>12. Grows
    BY <1>1, GrowsIfSame DEF NInv, TypeOK
  <1>13. ~(loads <= 1 /\ ~g_tar_module)
    <2>1. loads > 1 \/ g_tar_module
      BY <1>1, InsideModule
    <2>2. loads \in Nat
      BY BoundAssumption DEF NInv, TypeOK
    <2> QED
      BY <2>1, <2>2
  <1>14. /\ init' \in InitState /\ reg_jni_func_infos' \subseteq DOMAIN infos'
         /\ reported' \subseteq Method \X Func /\ regs' \in 0..MaxReg /\ raced' \in BOOLEAN
         /\ clashed' \in BOOLEAN
    BY <1>1 DEF NInv, TypeOK, InitState
  <1>15. \A i \in DOMAIN infos' : infos'[i].live \/ (i \in DOMAIN infos /\ ~infos[i].live)
    BY <1>1
  <1> QED
    BY <1>1, <1>6, <1>7, <1>9, <1>10, <1>11, <1>12, <1>13, <1>14, <1>15, ThreadFrame

\* A method is bound to a function of the module without a hook.
LEMMA BindRawKeeps ==
    ASSUME NInv, NEW m \in Method, NEW f \in Func, NEW v \in {"symbol", "raw"},
           entry' = [entry EXCEPT ![m] = Raw(f)],
           asked' = [asked EXCEPT ![m] = [fn |-> f, via |-> v]],
           regs' \in 0..MaxReg, ModuleUnchanged,
           UNCHANGED <<init, infos, reg_jni_func_infos, reported, thr, raced, clashed, crashed>>
    PROVE  NInv'
  <1>1. Raw(f) \in EntryPoint /\ [fn |-> f, via |-> v] \in [fn: Func \cup {NoFunc},
                             via: {"none", "symbol", "hook", "raw"}]
    BY DEF Raw, EntryPoint
  <1>2. TypeOK'
    <2>1. entry' \in [Method -> EntryPoint]
      BY <1>1 DEF NInv, TypeOK
    <2>2. asked' \in [Method -> [fn: Func \cup {NoFunc}, via: {"none", "symbol", "hook", "raw"}]]
      BY <1>1 DEF NInv, TypeOK
    <2> QED
      BY <2>1, <2>2 DEF NInv, TypeOK, ModuleUnchanged
  <1>3. StaticsRight' /\ PatchesRight' /\ FirstLoad'
    BY DEF NInv, StaticsRight, PatchesRight, FirstLoad, AllLive, Bare, ModuleUnchanged
  <1>4. ThreadsRight' /\ ArgsSettled'
    BY DEF NInv, ThreadsRight, ArgsSettled
  <1>5. OneRegisters' /\ CrashExplained' /\ TornClashed'
    BY DEF NInv, OneRegisters, Registering, CrashExplained, ModuleUnchanged, TornClashed
  <1>6. EntriesRight'
    <2>1. /\ entry'[m] = Raw(f) /\ asked'[m] = [fn |-> f, via |-> v]
          /\ \A d \in Method : d # m => entry'[d] = entry[d] /\ asked'[d] = asked[d]
      BY DEF NInv, TypeOK
    <2>2. EntryRight(m)'
      BY <2>1 DEF EntryRight, Leads, Raw
    <2>3. \A d \in Method : d # m => EntryRight(d)'
      BY <2>1 DEF NInv, EntriesRight, EntryRight
    <2> QED
      BY <2>2, <2>3 DEF EntriesRight
  <1> QED
    BY <1>2, <1>3, <1>4, <1>5, <1>6 DEF NInv

LEMMA LinkKeeps ==
    ASSUME NInv, NEW m \in Method, LinkNative(m) PROVE NInv'
  <1>1. PICK f \in StaticFunc :
           /\ entry' = [entry EXCEPT ![m] = Raw(f)]
           /\ asked' = [asked EXCEPT ![m] = [fn |-> f, via |-> "symbol"]]
    BY DEF LinkNative
  <1>2. ModuleUnchanged /\ UNCHANGED <<init, infos, reg_jni_func_infos, reported, thr, regs, raced, clashed, crashed>>
    BY DEF LinkNative, CallUnchanged
  <1>3. f \in Func /\ regs' \in 0..MaxReg
    BY <1>2, FuncAssumption DEF NInv, TypeOK
  <1> QED
    BY <1>1, <1>2, <1>3, BindRawKeeps

LEMMA RawRegisterKeeps ==
    ASSUME NInv, NEW t \in Thread, RegisterNatives_raw(t) PROVE NInv'
  <1>1. PICK m \in Method, f \in Func :
           /\ entry' = [entry EXCEPT ![m] = Raw(f)]
           /\ asked' = [asked EXCEPT ![m] = [fn |-> f, via |-> "raw"]]
    BY DEF RegisterNatives_raw
  <1>2. /\ regs < MaxReg /\ regs' = regs + 1 /\ ModuleUnchanged
        /\ UNCHANGED <<init, infos, reg_jni_func_infos, reported, thr, raced, clashed, crashed>>
    BY DEF RegisterNatives_raw
  <1>3. regs' \in 0..MaxReg
    BY <1>2, BoundAssumption DEF NInv, TypeOK
  <1> QED
    BY <1>1, <1>2, <1>3, BindRawKeeps

-----------------------------------------------------------------------------
(* init_jni_hook.                                                          *)

\* Its steps leave the calls alone.
LEMMA InitFrame ==
    ASSUME NInv, InitUnchanged, Grows,
           init' \in InitState, loads' \in 0..MaxLoads, loads' >= loads, g_tar_module' \in BOOLEAN,
           static_jni_func_infos' \in [StaticFunc -> 0..Len(infos')],
           patched' \in [Func -> 0..Len(infos')],
           StaticsRight', PatchesRight', ArgsSettled', FirstLoad'
    PROVE  NInv'
  <1>0. UNCHANGED <<reg_jni_func_infos, entry, asked, reported, thr, regs, raced, wild, clashed, crashed>>
    BY DEF InitUnchanged, HooksUnchanged
  <1>1. TypeOK'
    <2>1. reg_jni_func_infos' \subseteq DOMAIN infos' /\ infos' \in Seq(Info)
      BY <1>0 DEF NInv, TypeOK, Grows
    <2>2. /\ entry' \in [Method -> EntryPoint] /\ reported' \subseteq Method \X Func
          /\ asked' \in [Method -> [fn: Func \cup {NoFunc}, via: {"none", "symbol", "hook", "raw"}]]
          /\ thr' \in [Thread -> ThreadState] /\ regs' \in 0..MaxReg
          /\ raced' \in BOOLEAN /\ crashed' \in BOOLEAN
          /\ wild' \subseteq Override /\ clashed' \in BOOLEAN
      BY <1>0 DEF NInv, TypeOK
    <2> QED
      BY <2>1, <2>2 DEF TypeOK, InitState
  <1>2. EntriesRight'
    BY <1>0, EntriesKept DEF NInv
  <1>3. ThreadsRight'
    BY <1>0, RowKept DEF NInv, ThreadsRight
  <1>4. OneRegisters'
    BY <1>0 DEF NInv, OneRegisters, Registering
  <1>5. CrashExplained' /\ TornClashed'
    BY <1>0, BoundAssumption, TornKept DEF NInv, TypeOK, CrashExplained
  <1> QED
    BY <1>1, <1>2, <1>3, <1>4, <1>5 DEF NInv

LEMMA LoadKeeps ==
    ASSUME NInv, init_jni_hook PROVE NInv'
  <1>1. /\ init.pc \in {"unloaded", "failed", "done"} /\ loads < MaxLoads /\ loads' = loads + 1
        /\ UNCHANGED <<infos, static_jni_func_infos, patched>> /\ InitUnchanged
    BY DEF init_jni_hook
  <1>2. PICK opened \in BOOLEAN :
           /\ g_tar_module' = opened
           /\ init' = [init EXCEPT !.pc = IF opened THEN "enum" ELSE "failed"]
    BY DEF init_jni_hook
  <1>3. reported' = reported /\ thr' = thr /\ clashed' = clashed
    BY <1>1 DEF InitUnchanged, HooksUnchanged
  <1>4. loads \in Nat /\ loads' \in 0..MaxLoads /\ loads' >= loads
    BY <1>1, BoundAssumption DEF NInv, TypeOK
  <1>5. /\ init' \in InitState /\ init'.patched = init.patched
        /\ init'.pc = IF opened THEN "enum" ELSE "failed"
    BY <1>2 DEF NInv, TypeOK, InitState
  <1>6. Grows
    BY <1>1, <1>3, GrowsIfSame DEF NInv, TypeOK
  <1>7. StaticsRight' /\ ArgsSettled'
    BY <1>1, <1>3, <1>5 DEF NInv, StaticsRight, ArgsSettled
  <1>8. PatchesRight'
    BY <1>1, <1>6, PatchesKept DEF NInv
  <1>9. FirstLoad'
    <2>1. loads' <= 1 => loads = 0
      BY <1>1, <1>4
    <2>2. loads = 0 => /\ Bare /\ AllLive
                       /\ \A f \in StaticFunc : static_jni_func_infos[f] = 0
      BY DEF NInv, FirstLoad
    <2>3. loads' # 0
      BY <1>1, <1>4
    <2>4. loads = 0 => AllLive' /\ \A f \in StaticFunc : static_jni_func_infos'[f] = 0
      BY <1>1, <2>2 DEF AllLive
    <2>5. loads = 0 /\ ~g_tar_module' => Bare'
      BY <1>1, <1>2, <1>3, <1>5, <2>2 DEF Bare
    <2> QED
      BY <2>1, <2>3, <2>4, <2>5 DEF FirstLoad
  <1>10. /\ g_tar_module' \in BOOLEAN
         /\ static_jni_func_infos' \in [StaticFunc -> 0..Len(infos')]
         /\ patched' \in [Func -> 0..Len(infos')]
    BY <1>1, <1>2 DEF NInv, TypeOK
  <1> QED
    BY <1>1, <1>4, <1>5, <1>6, <1>7, <1>8, <1>9, <1>10, InitFrame

\* The info of an exported function speaks of a declared method, if it speaks at all.
LEMMA StaticInfoRight ==
    ASSUME NEW f \in StaticFunc, NEW found \in BOOLEAN
    PROVE  LET x == StaticInfo(f, found)
           IN  /\ x \in Info /\ x.live /\ ~x.torn
               /\ x.available => x.args \in {Arity[Declared[d]] : d \in Overloads(x.method)}
  <1>1. PICK m \in Method : m = StaticOf[f]
    BY FuncAssumption
  <1>2. PICK a : a = Arity[Declared[Max(Overloads(m))]]
    OBVIOUS
  <1>3. a \in Nat /\ Arity[m] \in Nat /\ a \in {Arity[Declared[d]] : d \in Overloads(m)}
    BY <1>2, OverloadsOfMethod, MethodAssumption
  <1> DEFINE x == StaticInfo(f, found)
             args == CASE f \in Override \ wild -> Arity[m]
                       [] f \notin Override /\ found -> a
                       [] OTHER -> 0
             av == f \notin Override /\ found
  <1>4. x = [method |-> m, addr |-> f, origin_call |-> FALSE, live |-> TRUE, torn |-> FALSE,
             args |-> args, available |-> av]
    BY <1>1, <1>2 DEF StaticInfo
  <1>5. args \in Nat /\ av \in BOOLEAN /\ (av => args = a) /\ f \in Func
    <2>1. CASE f \in Override
      <3>1. CASE f \in wild
        BY <1>3, <2>1, <3>1, FuncAssumption
      <3>2. CASE f \notin wild
        BY <1>3, <2>1, <3>2, FuncAssumption
      <3> QED
        BY <3>1, <3>2
    <2>2. CASE f \notin Override /\ found
      BY <1>3, <2>2, FuncAssumption
    <2>3. CASE f \notin Override /\ ~found
      BY <2>3, FuncAssumption
    <2> QED
      BY <2>1, <2>2, <2>3
  <1> HIDE DEF x, args, av
  <1>6. x \in Info
    BY <1>4, <1>5 DEF Info
  <1>7. x.live /\ ~x.torn /\ x.method = m /\ (x.available => x.args = a)
    BY <1>4, <1>5
  <1> QED
    BY <1>3, <1>6, <1>7 DEF x

\* The old infos stay, destroyed, and the new ones follow.
LEMMA EnumKeeps ==
    ASSUME NInv, enum_static_jni_func PROVE NInv'
  <1>1. /\ init.pc = "enum"
        /\ static_jni_func_infos' = [f \in StaticFunc |-> Len(infos) + SymbolIndex(f)]
        /\ UNCHANGED <<loads, g_tar_module, patched>> /\ InitUnchanged
    BY DEF enum_static_jni_func
  <1>0. PICK refused \in SUBSET wild : init' = [init EXCEPT !.pc = "hook", !.todo = StaticFunc \ refused]
    BY DEF enum_static_jni_func
  <1>2. UNCHANGED <<reported, thr, clashed>>
    BY <1>1 DEF InitUnchanged, HooksUnchanged
  <1> DEFINE Old == {static_jni_func_infos[f] : f \in StaticFunc}
             kept == [i \in DOMAIN infos |-> [infos[i] EXCEPT !.live = @ /\ i \notin Old]]
  <1>3. PICK found \in BOOLEAN :
           infos' = kept \o [i \in DOMAIN Symbols |-> StaticInfo(Symbols[i], found)]
    BY DEF enum_static_jni_func
  <1>4. PICK new : new = [i \in DOMAIN Symbols |-> StaticInfo(Symbols[i], found)]
    OBVIOUS
  <1>5. infos \in Seq(Info) /\ Len(infos) \in Nat /\ DOMAIN infos = 1..Len(infos)
    BY DEF NInv, TypeOK
  <1>6. ASSUME NEW i \in DOMAIN infos
        PROVE  /\ kept[i] \in Info /\ kept[i].method = infos[i].method /\ kept[i].addr = infos[i].addr
               /\ kept[i].args = infos[i].args /\ kept[i].available = infos[i].available
               /\ kept[i].origin_call = infos[i].origin_call /\ kept[i].torn = infos[i].torn
               /\ infos[i].live /\ i \notin Old => kept[i].live
    <2>1. infos[i] \in Info
      BY <1>5
    <2>2. PICK l \in BOOLEAN : l = (infos[i].live /\ i \notin Old)
      OBVIOUS
    <2>3. kept[i] = [infos[i] EXCEPT !.live = l]
      BY <2>2
    <2> HIDE DEF kept
    <2> QED
      BY <2>1, <2>2, <2>3 DEF Info
  <1>7. kept \in Seq(Info) /\ Len(kept) = Len(infos)
    <2>1. kept = [i \in 1..Len(infos) |-> kept[i]]
      BY <1>5
    <2> HIDE DEF kept
    <2>2. kept \in [1..Len(infos) -> Info]
      BY <1>5, <1>6, <2>1
    <2> QED
      BY <1>5, <2>2
  <1>8. ASSUME NEW i \in 1..Len(Symbols)
        PROVE  /\ new[i] \in Info /\ new[i].live /\ ~new[i].torn
               /\ new[i].available => new[i].args \in {Arity[Declared[d]] : d \in Overloads(new[i].method)}
    <2>1. Symbols[i] \in StaticFunc /\ new[i] = StaticInfo(Symbols[i], found)
      BY <1>4, SymbolTable
    <2> QED
      BY <2>1, StaticInfoRight
  <1>9. new \in Seq(Info) /\ Len(new) = Len(Symbols) /\ Len(Symbols) \in Nat
    <2>1. Len(Symbols) \in Nat /\ DOMAIN new = 1..Len(Symbols) /\ new = [i \in 1..Len(Symbols) |-> new[i]]
      BY <1>4, SymbolTable
    <2>2. new \in [1..Len(Symbols) -> Info]
      BY <1>8, <2>1
    <2> QED
      BY <2>1, <2>2
  <1>10. infos' = kept \o new
    BY <1>3, <1>4
  <1> HIDE DEF kept
  <1>11. /\ infos' \in Seq(Info) /\ Len(infos') = Len(infos) + Len(Symbols)
         /\ DOMAIN infos' = 1..(Len(infos) + Len(Symbols))
         /\ \A i \in DOMAIN infos : i \in DOMAIN infos' /\ infos'[i] = kept[i]
         /\ \A i \in DOMAIN infos' : i \notin DOMAIN infos =>
               \E j \in 1..Len(Symbols) : infos'[i] = new[j]
    <2>1. infos' \in Seq(Info) /\ Len(infos') = Len(infos) + Len(Symbols)
      <3>1. infos' \in Seq(Info) /\ Len(infos') = Len(kept) + Len(new)
        BY <1>7, <1>9, <1>10, ConcatProperties, Zenon
      <3> QED
        BY <1>7, <1>9, <3>1
    <2>2. DOMAIN infos' = 1..(Len(infos) + Len(Symbols))
      BY <2>1
    <2>3. ASSUME NEW i \in DOMAIN infos PROVE i \in DOMAIN infos' /\ infos'[i] = kept[i]
      BY <1>5, <1>7, <1>9, <1>10, <2>2
    <2>4. ASSUME NEW i \in DOMAIN infos', i \notin DOMAIN infos
          PROVE  \E j \in 1..Len(Symbols) : infos'[i] = new[j]
      <3>1. i - Len(infos) \in 1..Len(Symbols) /\ infos'[i] = new[i - Len(infos)]
        BY <1>5, <1>7, <1>9, <1>10, <2>2, <2>4
      <3> QED
        BY <3>1
    <2> QED
      BY <2>1, <2>2, <2>3, <2>4
  <1>12. Grows
    <2>1. \A i \in DOMAIN infos' : infos'[i].torn => i \in DOMAIN infos /\ infos[i].torn
      BY <1>6, <1>8, <1>11
    <2> QED
      BY <1>2, <1>6, <1>11, <2>1 DEF Grows
  <1>13. init' \in InitState /\ init'.pc = "hook" /\ init'.patched = init.patched
    BY <1>0 DEF NInv, TypeOK, InitState
  <1>14. ASSUME NEW f \in StaticFunc
         PROVE  static_jni_func_infos'[f] \in 0..Len(infos') /\ static_jni_func_infos'[f] # 0
    <2>1. SymbolIndex(f) \in 1..Len(Symbols) /\ static_jni_func_infos'[f] = Len(infos) + SymbolIndex(f)
      BY <1>1, SymbolTable
    <2> QED
      BY <1>5, <1>9, <1>11, <2>1
  <1>15. static_jni_func_infos' \in [StaticFunc -> 0..Len(infos')]
    <2>1. static_jni_func_infos' = [f \in StaticFunc |-> static_jni_func_infos'[f]]
      BY <1>1
    <2> QED
      BY <1>14, <2>1
  <1>16. patched' \in [Func -> 0..Len(infos')]
    BY <1>1, <1>5, <1>9, <1>11 DEF NInv, TypeOK
  <1>17. StaticsRight'
    BY <1>14 DEF StaticsRight
  <1>18. PatchesRight'
    BY <1>1, <1>12, PatchesKept DEF NInv
  <1>19. ArgsSettled'
    <2> SUFFICES ASSUME NEW i \in DOMAIN infos', infos'[i].available, ~infos'[i].torn,
                        \A s \in Thread : ~(thr'[s].ctx = i /\ thr'[s].pc = "assign")
                 PROVE  infos'[i].args \in {Arity[Declared[d]] : d \in Overloads(infos'[i].method)}
      BY DEF ArgsSettled
    <2>1. CASE i \in DOMAIN infos
      BY <1>2, <1>6, <1>11, <2>1 DEF NInv, ArgsSettled
    <2>2. CASE i \notin DOMAIN infos
      BY <1>8, <1>11, <2>2
    <2> QED
      BY <2>1, <2>2
  <1>20. FirstLoad'
    <2>1. loads # 0 /\ (loads <= 1 => g_tar_module)
      BY <1>1 DEF NInv, FirstLoad, Bare
    <2>2. ASSUME loads <= 1 PROVE AllLive'
      <3>1. \A f \in StaticFunc : static_jni_func_infos[f] = 0
        BY <1>1, <2>2 DEF NInv, FirstLoad
      <3>2. \A i \in DOMAIN infos : i \notin Old /\ infos[i].live
        BY <1>5, <2>2, <3>1 DEF NInv, FirstLoad, AllLive
      <3> QED
        BY <1>6, <1>8, <1>11, <3>2 DEF AllLive
    <2> QED
      BY <1>1, <1>13, <2>1, <2>2 DEF FirstLoad
  <1>21. loads' \in 0..MaxLoads /\ loads' >= loads /\ g_tar_module' \in BOOLEAN
    BY <1>1, BoundAssumption DEF NInv, TypeOK
  <1> QED
    BY <1>1, <1>12, <1>13, <1>15, <1>16, <1>17, <1>18, <1>19, <1>20, <1>21, InitFrame

\* What lies behind a wild symbol may end the process.
LEMMA WildKeeps ==
    ASSUME NInv, enum_static_jni_func_wild PROVE NInv'
  <1>1. /\ wild # {} /\ crashed' = TRUE /\ ModuleUnchanged
        /\ UNCHANGED <<init, infos, entry, asked, reg_jni_func_infos, reported, thr, regs, raced, clashed>>
    BY DEF enum_static_jni_func_wild, HooksUnchanged, ModuleUnchanged, Crash
  <1>2. regs' \in 0..MaxReg /\ raced' \in BOOLEAN /\ clashed' \in BOOLEAN
    BY <1>1 DEF NInv, TypeOK
  <1> QED
    BY <1>1, <1>2, CrashFrame

\* Steps of init_jni_hook that change only its progress.
LEMMA ProgressKeeps ==
    ASSUME NInv, InitUnchanged, init.pc = "hook",
           init' \in InitState, init'.pc \in {"hook", "done"},
           UNCHANGED <<loads, g_tar_module, infos, static_jni_func_infos>>,
           patched' \in [Func -> 0..Len(infos')], PatchesRight'
    PROVE  NInv'
  <1>1. UNCHANGED <<reported, thr, clashed>>
    BY DEF InitUnchanged, HooksUnchanged
  <1>2. Grows
    BY <1>1, GrowsIfSame DEF NInv, TypeOK
  <1>3. StaticsRight' /\ ArgsSettled'
    BY <1>1 DEF NInv, StaticsRight, ArgsSettled
  <1>4. FirstLoad'
    BY DEF NInv, FirstLoad, AllLive, Bare
  <1>5. /\ loads' \in 0..MaxLoads /\ loads' >= loads /\ g_tar_module' \in BOOLEAN
        /\ static_jni_func_infos' \in [StaticFunc -> 0..Len(infos')]
    BY BoundAssumption DEF NInv, TypeOK
  <1> QED
    BY <1>2, <1>3, <1>4, <1>5, InitFrame

LEMMA RefuseKeeps ==
    ASSUME NInv, NEW f \in StaticFunc, DobbyHook_refuse(f) PROVE NInv'
  <1>1. /\ init.pc = "hook" /\ InitUnchanged /\ init' = [init EXCEPT !.todo = @ \ {f}]
        /\ UNCHANGED <<loads, g_tar_module, infos, static_jni_func_infos, patched>>
    BY DEF DobbyHook_refuse
  <1>2. init' \in InitState /\ init'.pc = "hook"
    BY <1>1 DEF NInv, TypeOK, InitState
  <1>3. patched' \in [Func -> 0..Len(infos')] /\ PatchesRight'
    BY <1>1 DEF NInv, TypeOK, PatchesRight
  <1> QED
    BY <1>1, <1>2, <1>3, ProgressKeeps

LEMMA OnloadHookKeeps ==
    ASSUME NInv, hook_onload PROVE NInv'
  <1>1. /\ init.pc = "hook" /\ InitUnchanged
        /\ init' = [init EXCEPT !.pc = "done", !.patched = TRUE]
        /\ UNCHANGED <<loads, g_tar_module, infos, static_jni_func_infos, patched>>
    BY DEF hook_onload
  <1>2. init' \in InitState /\ init'.pc = "done"
    BY <1>1 DEF NInv, TypeOK, InitState
  <1>3. patched' \in [Func -> 0..Len(infos')] /\ PatchesRight'
    BY <1>1 DEF NInv, TypeOK, PatchesRight
  <1> QED
    BY <1>1, <1>2, <1>3, ProgressKeeps

\* The patch goes live with an info whose original is stored.
LEMMA CommitKeeps ==
    ASSUME NInv, NEW f \in StaticFunc, DobbyHook_commit(f) PROVE NInv'
  <1>1. /\ init.pc = "hook" /\ infos[static_jni_func_infos[f]].origin_call
        /\ patched' = [patched EXCEPT ![f] = static_jni_func_infos[f]]
        /\ init' = [init EXCEPT !.todo = @ \ {f}] /\ InitUnchanged
        /\ UNCHANGED <<loads, g_tar_module, infos, static_jni_func_infos>>
    BY DEF DobbyHook_commit
  <1>2. init' \in InitState /\ init'.pc = "hook"
    BY <1>1 DEF NInv, TypeOK, InitState
  <1>3. static_jni_func_infos[f] \in 0..Len(infos) /\ static_jni_func_infos[f] # 0
    BY <1>1 DEF NInv, TypeOK, StaticsRight
  <1>4. GoodHook(infos, static_jni_func_infos[f])
    BY <1>1, <1>3 DEF NInv, TypeOK, GoodHook
  <1>5. patched' \in [Func -> 0..Len(infos')]
    BY <1>1, <1>3 DEF NInv, TypeOK
  <1>6. \A g \in Func : patched'[g] = patched[g] \/ patched'[g] = static_jni_func_infos[f]
    BY <1>1 DEF NInv, TypeOK
  <1>7. PatchesRight'
    BY <1>1, <1>4, <1>6 DEF NInv, PatchesRight
  <1> QED
    BY <1>1, <1>2, <1>5, <1>7, ProgressKeeps

LEMMA OriginStoredKeeps ==
    ASSUME NInv, NEW f \in StaticFunc, DobbyHook_origin(f) PROVE NInv'
  <1>1. /\ init.pc = "hook"
        /\ infos' = [infos EXCEPT ![static_jni_func_infos[f]].origin_call = TRUE]
        /\ UNCHANGED <<init, loads, g_tar_module, static_jni_func_infos, patched>> /\ InitUnchanged
    BY DEF DobbyHook_origin
  <1>2. UNCHANGED <<reported, thr, clashed>>
    BY <1>1 DEF InitUnchanged, HooksUnchanged
  <1>3. static_jni_func_infos[f] \in 0..Len(infos) /\ static_jni_func_infos[f] # 0
    BY <1>1 DEF NInv, TypeOK, StaticsRight
  <1>4. PICK c \in DOMAIN infos : c = static_jni_func_infos[f]
    BY <1>3 DEF NInv, TypeOK
  <1> DEFINE x == [infos[c] EXCEPT !.origin_call = TRUE]
  <1>5. infos[c] \in Info /\ infos \in Seq(Info)
    BY InfoTyped DEF NInv, TypeOK
  <1>6. /\ x \in Info /\ x.method = infos[c].method /\ x.addr = infos[c].addr
        /\ x.live = infos[c].live /\ x.origin_call
        /\ x.args = infos[c].args /\ x.available = infos[c].available /\ x.torn = infos[c].torn
    BY <1>5 DEF Info
  <1>7. infos' = [infos EXCEPT ![c] = x]
    BY <1>1, <1>4, <1>5
  <1> HIDE DEF x
  <1>8. /\ Grows /\ DOMAIN infos' = DOMAIN infos
        /\ infos'[c] = x /\ \A j \in DOMAIN infos : j # c => infos'[j] = infos[j]
        /\ \A j \in DOMAIN infos' : infos'[j].live \/ (j \in DOMAIN infos /\ ~infos[j].live)
    BY <1>2, <1>6, <1>7, InfoPut DEF NInv
  <1>9. Len(infos') = Len(infos)
    BY <1>5, <1>7
  <1>10. ArgsSettled'
    <2> SUFFICES ASSUME NEW i \in DOMAIN infos', infos'[i].available, ~infos'[i].torn,
                        \A s \in Thread : ~(thr'[s].ctx = i /\ thr'[s].pc = "assign")
                 PROVE  infos'[i].args \in {Arity[Declared[d]] : d \in Overloads(infos'[i].method)}
      BY DEF ArgsSettled
    <2>1. /\ i \in DOMAIN infos /\ infos'[i].args = infos[i].args /\ infos'[i].torn = infos[i].torn
          /\ infos'[i].available = infos[i].available /\ infos'[i].method = infos[i].method
      BY <1>6, <1>8
    <2> QED
      BY <1>2, <2>1 DEF NInv, ArgsSettled
  <1>11. PatchesRight'
    BY <1>1, <1>8, PatchesKept DEF NInv
  <1>12. FirstLoad'
    <2>1. loads <= 1 => AllLive'
      BY <1>8 DEF NInv, FirstLoad, AllLive
    <2>2. loads <= 1 => g_tar_module
      BY <1>1 DEF NInv, FirstLoad, Bare
    <2> QED
      BY <1>1, <2>1, <2>2 DEF NInv, FirstLoad
  <1>13. StaticsRight' /\ init' \in InitState
    BY <1>1 DEF NInv, StaticsRight, TypeOK, InitState
  <1>14. /\ loads' \in 0..MaxLoads /\ loads' >= loads /\ g_tar_module' \in BOOLEAN
         /\ static_jni_func_infos' \in [StaticFunc -> 0..Len(infos')]
         /\ patched' \in [Func -> 0..Len(infos')]
    BY <1>1, <1>9, BoundAssumption DEF NInv, TypeOK
  <1> QED
    BY <1>1, <1>8, <1>10, <1>11, <1>12, <1>13, <1>14, InitFrame

-----------------------------------------------------------------------------
(* The theorems.                                                           *)

\* Before the module is loaded there is nothing to hook.
LEMMA NInvInit == Init => NInv
  <1> SUFFICES ASSUME Init PROVE NInv
    OBVIOUS
  <1>1. /\ IdleThread \in ThreadState /\ Unbound \in EntryPoint
        /\ infos = <<>> /\ Len(infos) = 0 /\ infos \in Seq(Info) /\ DOMAIN infos = {}
    BY DEF Init, IdleThread, ThreadState, Unbound, Raw, EntryPoint
  <1>2. TypeOK
    <2>1. init \in [pc: {"unloaded", "enum", "hook", "done", "failed"},
                    todo: SUBSET StaticFunc, patched: BOOLEAN, onload: BOOLEAN]
      BY DEF Init
    <2>2. /\ loads \in 0..MaxLoads /\ regs \in 0..MaxReg
          /\ g_tar_module = FALSE /\ raced = FALSE /\ crashed = FALSE
          /\ wild \subseteq Override /\ clashed = FALSE
          /\ reg_jni_func_infos \subseteq DOMAIN infos /\ reported \subseteq Method \X Func
      BY BoundAssumption DEF Init
    <2>3. /\ static_jni_func_infos \in [StaticFunc -> 0..Len(infos)]
          /\ patched \in [Func -> 0..Len(infos)]
      BY <1>1 DEF Init
    <2>4. /\ entry \in [Method -> EntryPoint]
          /\ thr \in [Thread -> ThreadState]
          /\ asked \in [Method -> [fn: Func \cup {NoFunc}, via: {"none", "symbol", "hook", "raw"}]]
      BY <1>1 DEF Init
    <2> QED
      BY <1>1, <2>1, <2>2, <2>3, <2>4 DEF TypeOK
  <1>3. StaticsRight /\ PatchesRight /\ FirstLoad
    BY <1>1 DEF Init, StaticsRight, PatchesRight, FirstLoad, AllLive, Bare, IdleThread
  <1>4. EntriesRight
    BY DEF Init, EntriesRight, EntryRight, Leads, Unbound, Raw
  <1>5. ThreadsRight
    <2>1. RowRight(infos, reported, IdleThread)
      BY DEF RowRight, IdleThread, InHook
    <2> QED
      BY <2>1 DEF Init, ThreadsRight
  <1>6. ArgsSettled /\ TornClashed /\ CrashExplained
    BY <1>1 DEF Init, ArgsSettled, TornClashed, CrashExplained
  <1>7. OneRegisters
    BY DEF Init, OneRegisters, Registering, IdleThread
  <1> QED
    BY <1>2, <1>3, <1>4, <1>5, <1>6, <1>7 DEF NInv

LEMMA NInvStutter == NInv /\ UNCHANGED vars => NInv'
  <1> SUFFICES ASSUME NInv, UNCHANGED vars PROVE NInv'
    OBVIOUS
  <1>1. UNCHANGED <<init, loads, g_tar_module, infos, static_jni_func_infos, patched,
                    reg_jni_func_infos, entry, asked, reported, thr, regs, raced, wild,
                    clashed, crashed>>
    BY DEF vars
  <1>2. TypeOK'
    BY <1>1 DEF NInv, TypeOK
  <1>3. StaticsRight' /\ PatchesRight' /\ FirstLoad'
    BY <1>1 DEF NInv, StaticsRight, PatchesRight, FirstLoad, AllLive, Bare
  <1>4. EntriesRight' /\ ThreadsRight' /\ ArgsSettled'
    BY <1>1 DEF NInv, EntriesRight, EntryRight, ThreadsRight, ArgsSettled
  <1>5. OneRegisters' /\ TornClashed' /\ CrashExplained'
    BY <1>1 DEF NInv, OneRegisters, Registering, TornClashed, CrashExplained
  <1> QED
    BY <1>2, <1>3, <1>4, <1>5 DEF NInv

LEMMA NInvStep == NInv /\ [Next]_vars => NInv'
  <1> SUFFICES ASSUME NInv, [Next]_vars PROVE NInv'
    OBVIOUS
  <1>1. CASE InitStep
    <2>1. CASE init_jni_hook
      BY <2>1, LoadKeeps
    <2>2. CASE enum_static_jni_func
      BY <2>2, EnumKeeps
    <2>3. ASSUME NEW f \in StaticFunc, DobbyHook_refuse(f) \/ DobbyHook_origin(f) \/ DobbyHook_commit(f)
          PROVE  NInv'
      BY <2>3, RefuseKeeps, OriginStoredKeeps, CommitKeeps
    <2>4. CASE hook_onload
      BY <2>4, OnloadHookKeeps
    <2>5. CASE enum_static_jni_func_wild
      BY <2>5, WildKeeps
    <2> QED
      BY <1>1, <2>1, <2>2, <2>3, <2>4, <2>5 DEF InitStep
  <1>2. ASSUME NEW m \in Method, LinkNative(m) PROVE NInv'
    BY <1>2, LinkKeeps
  <1>3. ASSUME NEW t \in Thread, CallStep(t) PROVE NInv'
    BY <1>3, CheckKeeps, MisreadKeeps, ReleaseKeeps, AssignKeeps, RouteKeeps, ScanKeeps, CreateKeeps,
       NoModuleKeeps, StoreKeeps, OriginKeeps DEF CallStep
  <1>4. ASSUME NEW t \in Thread,
               \/ \E m \in Method : JavaCall(t, m)
               \/ native_return(t) \/ hook_jni_onload(t)
               \/ RegisterNatives(t) \/ RegisterNatives_raw(t)
        PROVE  NInv'
    BY <1>4, JavaCallKeeps, ReturnKeeps, OnLoadKeeps, RegisterKeeps, RawRegisterKeeps
  <1> QED
    BY <1>1, <1>2, <1>3, <1>4, NInvStutter DEF Next

LEMMA NInvAlways == Spec => []NInv
  BY NInvInit, NInvStep, PTL DEF Spec

\* The state stays well formed: the indices that patches, entry points, vectors and
\* threads carry name infos that were created, whatever is loaded and registered.
THEOREM TypeCorrect == Spec => []TypeOK
  <1>1. NInv => TypeOK
    BY DEF NInv
  <1> QED
    BY <1>1, NInvAlways, PTL

\* Hooking is transparent: the entry point of a method leads to the function the
\* module bound it to last, and a method that RegisterNatives left unhooked is in
\* the log.
THEOREM BindingsStayRight == Spec => []BindingsRight
  <1>1. ASSUME NInv PROVE BindingsRight
    <2>1. \A m \in Method : EntryRight(m)
      BY <1>1 DEF NInv, EntriesRight
    <2> QED
      BY <2>1 DEF BindingsRight, HookTransparent, GapReported, Implements, EntryRight, Leads
  <1> QED
    BY <1>1, NInvAlways, PTL

\* An info that update_method_info or get_method_info has filled in carries the
\* arguments of a declared method of its name, unless a thread is just assigning it
\* or the last to assign it were two at once.
THEOREM ArgsStaySettled == Spec => []ArgsSettled
  <1>1. NInv => ArgsSettled
    BY DEF NInv
  <1> QED
    BY <1>1, NInvAlways, PTL

\* No hook calls an original that is not stored, dereferences a null g_tar_module, works
\* on a freed vector or on a destroyed info, unless the module was loaded a second time,
\* two threads were in hook_RegisterNatives at once, a thread used an info that another
\* was rewriting, or a symbol of the module ends where its argument types would begin.
THEOREM NoOtherCrash == Spec => []CrashExplained
  <1>1. NInv => CrashExplained
    BY DEF NInv
  <1> QED
    BY <1>1, NInvAlways, PTL
=============================================================================
