---------------------------- MODULE XHookProofs ----------------------------
(***************************************************************************)
(* libxhook for any number of threads, workers, ELFs, hooks and exceptions *)
(* and without symmetry.  XInv, the inductive invariant, has a part for    *)
(* the calls in progress, the "once" flags and the worker, the fault       *)
(* handler, the list of hooks, the walk, the chains of old functions, the  *)
(* ELFs that a walk knows, and what it leaves in their slots.              *)
(***************************************************************************)
EXTENDS XHook, TLAPS, FiniteSetTheorems, SequenceTheorems, WellFoundedInduction

\* The labels of a walk in the middle of an ELF, and of a clear.
Inside == {"header", "hook", "replace"}
Clearing == {"stop", "join", "joining", "reset_async", "reset", "free", "freeing"}

\* Where the walk is: there is at most one.
Phase(l) == \E t \in Runner : pc[t] = l
Stage == IF Phase("header") THEN "header"
         ELSE IF Phase("hook") THEN "hook"
         ELSE IF Phase("replace") THEN "replace" ELSE "scan"

\* What the calls in progress hold.
CallInv ==
    /\ TypeOK
    /\ pc \in [Runner -> Labels \cup WorkerLabels]
    /\ \A t \in Thread :
           /\ pc[t] = "enter" => arg[t] \in Hook \cup Ignore
           /\ pc[t] \in {"initing", "create", "freeing"} => mutex = t
           /\ pc[t] \in {"stop", "join"} => tid \in Worker
           /\ pc[t] = "joining" => crashed \/ arg[t] \in Worker
    /\ async_init_ok => tid \in Worker

\* Until the library is cleared the "once" functions run once, and nobody comes by
\* them before they are through.
OnceInv ==
    ~cleared =>
        /\ \A t \in Thread : pc[t] \notin Clearing
        /\ inited \/ ~init_ok
        /\ \A t \in Thread : pc[t] = "initing" => ~init_ok /\ inited
        /\ \A t \in Thread : pc[t] = "create" => async_inited /\ \A w \in Worker : pc[w] = "none"
        /\ async_inited \/ \A w \in Worker : pc[w] = "none"
        /\ \A v, w \in Worker : pc[v] # "none" /\ pc[w] # "none" => v = w
        /\ \A t \in Thread : pc[t] \in {"ainit", "create", "aready", "lock"} \cup Walking => init_ok
        /\ \A w \in Worker : pc[w] # "none" => init_ok

\* Until it is lifted the protection is there for the walk.
ProtectInv ==
    /\ crashed => exposed \/ cleared
    /\ ~exposed /\ ~cleared =>
           /\ enable
           /\ init_ok => handler = "xhook"
           /\ Stage \in Inside => flag

\* No hook is entered twice.
ListInv ==
    /\ \A i, j \in 1..Len(hook_info) : hook_info[i] = hook_info[j] => i = j
    /\ \A t \in Thread : pc[t] = "enter" => arg[t] \notin Entries(hook_info)
    /\ \A t, u \in Thread : t # u /\ pc[t] = "enter" /\ pc[u] = "enter" => arg[t] # arg[u]

\* The ELF the walk is in.
WalkInv ==
    ~crashed =>
        /\ Stage \in Inside => /\ refresh_mutex # None
                               /\ walk.path \in Path \ walk.todo /\ walk.base \in Base
        /\ Stage \in {"hook", "replace"} => /\ walk.refreshed[walk.path] = walk.base
                                            /\ map_info[walk.path] # walk.base
        /\ Stage = "replace" => /\ walk.next <= Len(hook_info)
                                /\ walk.path \in Match[hook_info[walk.next]]
                                /\ walk.path \notin Faulty
                                /\ old[hook_info[walk.next]] # None
        /\ Stage \notin {"hook", "replace"} => walk.next = 1

\* A hook that can be called has an old function.
ChainInv ==
    /\ \A p \in Path, s \in Symbol : slot[p][s] \in Hook => old[slot[p][s]] # None
    /\ \A h \in Hook : old[h] \in Hook => old[old[h]] # None

\* Until the library is cleared the old function of a hook stands before it in the
\* list, since an ELF is hooked in the order of the list, from original slots on.
OrderInv ==
    ~cleared =>
        /\ \A p \in Path, s \in Symbol :
               slot[p][s] \in Hook => /\ slot[p][s] \in Entries(hook_info)
                                      /\ p \in Match[slot[p][s]]
        /\ \A h \in Hook : old[h] \in Hook =>
               \E i \in 1..Len(hook_info) : \E j \in 1..(i - 1) :
                   hook_info[i] = h /\ hook_info[j] = old[h]
        /\ ~crashed /\ Stage \in {"hook", "replace"} /\ mapped[walk.path] = walk.base =>
               \A s \in Symbol : slot[walk.path][s] \in Hook =>
                   \E j \in 1..Len(hook_info) : j < walk.next /\ hook_info[j] = slot[walk.path][s]

\* A path that no walk will take up: the first hook that matches it is ignored.
Never(p) == ~PathMatches(p) /\ \E i \in 1..Len(hook_info) : p \in Match[hook_info[i]]
HookedElf(p) == mapped[p] # None /\ \E s \in Symbol : slot[p][s] \in Hook

\* An ELF with hooks in it is known with its address, to the last walk or the present
\* one, so that it is never hooked on top of its own hooks.
KnownInv ==
    ~cleared /\ ~crashed => \A p \in Path : HookedElf(p) =>
        /\ refresh_mutex = None \/ p \in walk.todo => map_info[p] = mapped[p] \/ Never(p)
        /\ Stage = "header" /\ walk.path = p => walk.base = mapped[p] /\ map_info[p] = mapped[p]
        /\ refresh_mutex # None /\ p \notin walk.todo /\ ~(Stage = "header" /\ walk.path = p) =>
               walk.refreshed[p] = mapped[p] \/ Never(p)

\* Addresses that the library knows were used.
UsedInv ==
    \A p \in Path :
        /\ mapped[p] \in used[p] \cup {None}
        /\ map_info[p] \in used[p] \cup {None}
        /\ walk.refreshed[p] \in used[p] \cup {None}
        /\ walk.path = p => walk.base \in used[p]

\* What RefreshHooks says of a slot, and the same of the hooks before the n-th.
Before(p, s, n) ==
    \/ slot[p][s] \in late
    \/ slot[p][s] = Orig /\ \A j \in Wanted(p, s) : j >= n
    \/ \E i \in Wanted(p, s) : slot[p][s] = hook_info[i] /\ \A j \in Wanted(p, s) : j < n => j <= i
Right(p, s) ==
    \/ slot[p][s] \in late
    \/ slot[p][s] = Orig /\ Wanted(p, s) = {}
    \/ \E i \in Wanted(p, s) : slot[p][s] = hook_info[i] /\ \A j \in Wanted(p, s) : j <= i

\* The slots of the ELFs that the last walk and the present one have done, and of the
\* one in progress.
SlotInv ==
    ~cleared /\ ~crashed =>
        /\ inited \/ (refresh_mutex = None /\ \A p \in Path : map_info[p] = None)
        /\ \A p \in Path \ Faulty : (mapped[p] # None /\ fresh[p]) => \A s \in Symbol :
               /\ map_info[p] = mapped[p] => Right(p, s)
               /\ /\ refresh_mutex # None /\ walk.refreshed[p] = mapped[p]
                  /\ ~(Stage \in {"hook", "replace"} /\ walk.path = p)
                  => Right(p, s)
               /\ Stage \in {"hook", "replace"} /\ walk.path = p /\ walk.base = mapped[p] =>
                      Before(p, s, walk.next)
        /\ Stage = "replace" => \/ hook_info[walk.next] \in late
                                \/ walk.next \in Wanted(walk.path, SymOf[hook_info[walk.next]])

\* The replacements that failed in the ELF in progress are of hooks that were passed.
MissInv ==
    ~cleared /\ ~crashed /\ Stage \in {"hook", "replace"} =>
        \A h \in missed[walk.path] :
            \E j \in 1..Len(hook_info) : j < walk.next /\ hook_info[j] = h

XInv == /\ CallInv /\ OnceInv /\ ProtectInv /\ ListInv /\ WalkInv /\ ChainInv /\ OrderInv
        /\ KnownInv /\ UsedInv /\ SlotInv /\ MissInv

-----------------------------------------------------------------------------
(* The calls in progress.                                                  *)

\* None is no thread and no address, and every hook has a symbol.
LEMMA Values ==
    /\ None \notin Runner /\ None \notin Base /\ None \notin Path /\ None \notin Hook
    /\ Orig \notin Hook /\ Orig # None
    /\ \A h \in Hook : SymOf[h] \in Symbol /\ Match[h] \subseteq Path
    /\ Thread \cap Worker = {} /\ Thread \subseteq Runner /\ Worker \subseteq Runner
  BY SetAssumption DEF Runner

\* A thread goes to another label and the others stay where they are.
LEMMA Moved ==
    ASSUME pc \in [Runner -> Labels \cup WorkerLabels], NEW t \in Runner,
           NEW l \in Labels \cup WorkerLabels, Goto(t, l)
    PROVE  /\ pc' \in [Runner -> Labels \cup WorkerLabels] /\ pc'[t] = l
           /\ \A u \in Runner : u # t => pc'[u] = pc[u]
  BY DEF Goto

\* The walk is where the walking thread is.
LEMMA StageOf ==
    ASSUME CallInv, NEW t \in Runner, pc[t] \in Walking
    PROVE  Stage = pc[t] /\ refresh_mutex = t /\ \A u \in Runner : pc[u] \in Walking => u = t
  <1>1. \A u \in Runner : pc[u] \in Walking => u = t
    BY DEF CallInv, TypeOK
  <1>2. \A l \in Walking : Phase(l) <=> pc[t] = l
    BY <1>1 DEF Phase
  <1> QED
    BY <1>1, <1>2 DEF Stage, Walking, CallInv, TypeOK

\* Nobody walks while the refresh mutex is free.
LEMMA NoStage ==
    ASSUME CallInv, refresh_mutex = None
    PROVE  Stage = "scan" /\ \A u \in Runner : pc[u] \notin Walking
  <1>1. \A u \in Runner : pc[u] \notin Walking
    BY Values DEF CallInv, TypeOK
  <1> QED
    BY <1>1 DEF Stage, Phase, Walking

\* The walk is inside an ELF only if its thread is.
LEMMA StageIs ==
    ASSUME NEW l \in Inside, Stage = l
    PROVE  \E t \in Runner : pc[t] = l
  BY DEF Stage, Phase, Inside

\* What is said of the walk does not change with the steps outside of it.
LEMMA StageStays ==
    ASSUME \A u \in Runner : pc[u] \in Inside \/ pc'[u] \in Inside => pc'[u] = pc[u]
    PROVE  Stage' = Stage
  <1>1. \A l \in Inside : Phase(l)' <=> Phase(l)
    BY DEF Phase
  <1> QED
    BY <1>1 DEF Stage, Inside

\* The part of CallInv that concerns labels and arguments.
FlowInv ==
    /\ pc \in [Runner -> Labels \cup WorkerLabels]
    /\ \A t \in Thread : pc[t] \in Labels
    /\ \A w \in Worker : pc[w] \in WorkerLabels
    /\ arg \in [Thread -> Hook \cup Ignore \cup {"sync", "async", None} \cup Worker]
    /\ \A t \in Runner : pc[t] \in Walking => refresh_mutex = t
    /\ \A t \in Thread :
           /\ pc[t] = "enter" => arg[t] \in Hook \cup Ignore
           /\ pc[t] \in {"initing", "create", "freeing"} => mutex = t
           /\ pc[t] \in {"stop", "join"} => tid \in Worker
           /\ pc[t] = "joining" => crashed \/ arg[t] \in Worker
    /\ async_init_ok => tid \in Worker

\* The rest: the types of the data.
DataInv ==
    /\ hook_info \in Seq(Hook) /\ ignore_info \in Seq(Ignore) /\ late \subseteq Hook
    /\ {inited, init_ok, async_inited, async_init_ok, running, do} \subseteq BOOLEAN
    /\ tid \in Worker \cup {None}
    /\ mutex \in Thread \cup {None} /\ refresh_mutex \in Runner \cup {None}
    /\ map_info \in [Path -> Base \cup {None}]
    /\ walk \in [todo : SUBSET Path, path : Path \cup {None}, base : Base \cup {None},
                 next : Nat \ {0}, refreshed : [Path -> Base \cup {None}]]
    /\ missed \in [Path -> SUBSET Hook]
    /\ handler \in {"app", "xhook", "default"}
    /\ {flag, enable, once, exposed, cleared, crashed} \subseteq BOOLEAN
    /\ mapped \in [Path -> Base \cup {None}]
    /\ used \in [Path -> SUBSET Base] /\ fresh \in [Path -> BOOLEAN]
    /\ slot \in [Path -> [Symbol -> Hook \cup {Orig}]]
    /\ old \in [Hook -> Hook \cup {Orig, None}]

LEMMA CallParts == CallInv <=> DataInv /\ FlowInv
  BY Zenon DEF CallInv, TypeOK, DataInv, FlowInv

\* A thread moves on outside of the walk, and its argument with it.
LEMMA FlowMove ==
    ASSUME FlowInv, ~crashed, NEW t \in Thread, NEW l \in Labels \ Walking, Goto(t, l),
           refresh_mutex' = refresh_mutex,
           NEW a \in Hook \cup Ignore \cup {"sync", "async", None} \cup Worker,
           arg' = [arg EXCEPT ![t] = a],
           l = "enter" => a \in Hook \cup Ignore, l = "joining" => a \in Worker,
           l \in {"stop", "join"} => tid \in Worker,
           l \in {"initing", "create", "freeing"} => mutex' = t,
           \A u \in Thread \ {t} : mutex = u => mutex' = u,
           tid \in Worker => tid' \in Worker,
           async_init_ok' => tid' \in Worker
    PROVE  FlowInv'
  <1>1. /\ pc' \in [Runner -> Labels \cup WorkerLabels] /\ pc'[t] = l
        /\ \A u \in Runner : u # t => pc'[u] = pc[u]
    BY Moved, Values DEF FlowInv
  <1>2. /\ arg' \in [Thread -> Hook \cup Ignore \cup {"sync", "async", None} \cup Worker]
        /\ arg'[t] = a /\ \A u \in Thread : u # t => arg'[u] = arg[u]
    BY DEF FlowInv
  <1>3. \A u \in Thread : pc'[u] \in Labels
    BY <1>1, Values DEF FlowInv
  <1>4. \A w \in Worker : pc'[w] \in WorkerLabels
    BY <1>1, Values DEF FlowInv
  <1>5. \A u \in Runner : pc'[u] \in Walking => refresh_mutex' = u
    BY <1>1 DEF FlowInv
  <1>6. \A u \in Thread :
           /\ pc'[u] = "enter" => arg'[u] \in Hook \cup Ignore
           /\ pc'[u] \in {"initing", "create", "freeing"} => mutex' = u
           /\ pc'[u] \in {"stop", "join"} => tid' \in Worker
           /\ pc'[u] = "joining" => crashed' \/ arg'[u] \in Worker
    BY <1>1, <1>2, Values DEF FlowInv
  <1> QED
    BY <1>1, <1>2, <1>3, <1>4, <1>5, <1>6 DEF FlowInv

LEMMA CallJoin ==
    ASSUME DataInv', FlowInv' PROVE CallInv'
  BY DEF CallInv, TypeOK, DataInv, FlowInv

\* The steps of a thread outside of the walk.
LEMMA CallCheck ==
    ASSUME CallInv, NEW t \in Thread, NEW x \in Hook \cup Ignore, xh_core_register_check(t, x)
    PROVE  CallInv'
  <1> USE DEF xh_core_register_check, lists, inits, async, locks, walks, signals, linker, code
  <1>1. DataInv'
    BY CallParts DEF DataInv
  <1>2. "enter" \in Labels \ Walking
    BY DEF Labels, Walking
  <1>3. FlowInv /\ ~crashed /\ (async_init_ok' => tid' \in Worker)
    BY CallParts DEF FlowInv, On
  <1>4. FlowInv'
    BY <1>2, <1>3, FlowMove
  <1> QED
    BY <1>1, <1>4, CallJoin

LEMMA CallRefresh ==
    ASSUME CallInv, NEW t \in Thread, xh_core_refresh(t) PROVE CallInv'
  <1> USE DEF xh_core_refresh, lists, inits, async, locks, walks, signals, linker, code
  <1>1. DataInv'
    BY CallParts DEF DataInv
  <1>2. PICK m \in {"sync", "async"} : arg' = [arg EXCEPT ![t] = m]
    OBVIOUS
  <1>3. PICK l \in {"ready", "init"} : Goto(t, l)
    OBVIOUS
  <1>4. l \in Labels \ Walking /\ l \notin {"enter", "joining", "stop", "join", "initing", "create", "freeing"}
    BY DEF Labels, Walking
  <1>5. FlowInv /\ ~crashed /\ (async_init_ok' => tid' \in Worker) /\ mutex' = mutex /\ tid' = tid
        /\ refresh_mutex' = refresh_mutex
    BY CallParts DEF FlowInv, On
  <1>6. FlowInv'
    BY <1>2, <1>3, <1>4, <1>5, FlowMove
  <1> QED
    BY <1>1, <1>6, CallJoin

LEMMA CallInitLock ==
    ASSUME CallInv, NEW t \in Thread, xh_core_init_once_lock(t) PROVE CallInv'
  <1> USE DEF xh_core_init_once_lock, lists, inits, async, locks, walks, signals, linker, code
  <1>1. DataInv'
    BY CallParts DEF DataInv
  <1>2. PICK l \in {"ready", "initing"} : Goto(t, l)
    OBVIOUS
  <1>3. l \in Labels \ Walking /\ l \notin {"enter", "joining", "stop", "join", "create", "freeing"}
    BY DEF Labels, Walking
  <1>4. arg' = [arg EXCEPT ![t] = arg[t]] /\ arg[t] \in Hook \cup Ignore \cup {"sync", "async", None} \cup Worker
    BY CallParts DEF FlowInv
  <1>5. /\ FlowInv
        /\ ~crashed
        /\ refresh_mutex' = refresh_mutex
        /\ (async_init_ok' => tid' \in Worker)
        /\ (tid \in Worker => tid' \in Worker)
        /\ (\A u \in Thread \ {t} : mutex = u => mutex' = u)
        /\ (l \in {"initing", "create", "freeing"} => mutex' = t)
    BY <1>2, CallParts, Values DEF FlowInv, Goto, On
  <1>6. FlowInv'
    BY <1>2, <1>3, <1>4, <1>5, FlowMove
  <1> QED
    BY <1>1, <1>6, CallJoin

LEMMA CallHandler ==
    ASSUME CallInv, NEW t \in Thread, xh_core_add_sigsegv_handler(t) PROVE CallInv'
  <1> USE DEF xh_core_add_sigsegv_handler, lists, inits, async, locks, walks, signals, linker, code
  <1>1. DataInv'
    BY CallParts DEF DataInv
  <1>2. PICK l \in {"ready"} : Goto(t, l)
    OBVIOUS
  <1>3. l \in Labels \ Walking /\ l \notin {"enter", "joining", "stop", "join", "initing", "create", "freeing"}
    BY DEF Labels, Walking
  <1>4. arg' = [arg EXCEPT ![t] = arg[t]] /\ arg[t] \in Hook \cup Ignore \cup {"sync", "async", None} \cup Worker
    BY CallParts DEF FlowInv
  <1>5. /\ FlowInv
        /\ ~crashed
        /\ refresh_mutex' = refresh_mutex
        /\ (async_init_ok' => tid' \in Worker)
        /\ (tid \in Worker => tid' \in Worker)
        /\ (\A u \in Thread \ {t} : mutex = u => mutex' = u)
    BY <1>2, CallParts, Values DEF FlowInv, Goto, On
  <1>6. FlowInv'
    BY <1>2, <1>3, <1>4, <1>5, FlowMove
  <1> QED
    BY <1>1, <1>6, CallJoin

LEMMA CallAsyncLock ==
    ASSUME CallInv, NEW t \in Thread, xh_core_init_async_once_lock(t) PROVE CallInv'
  <1> USE DEF xh_core_init_async_once_lock, lists, inits, async, locks, walks, signals, linker, code, AsyncInited
  <1>1. DataInv'
    BY CallParts DEF DataInv
  <1>2. PICK l \in {"aready", "create"} : Goto(t, l)
    OBVIOUS
  <1>3. l \in Labels \ Walking /\ l \notin {"enter", "joining", "stop", "join", "initing", "freeing"}
    BY DEF Labels, Walking
  <1>4. arg' = [arg EXCEPT ![t] = arg[t]] /\ arg[t] \in Hook \cup Ignore \cup {"sync", "async", None} \cup Worker
    BY CallParts DEF FlowInv
  <1>5. /\ FlowInv
        /\ ~crashed
        /\ refresh_mutex' = refresh_mutex
        /\ (async_init_ok' => tid' \in Worker)
        /\ (tid \in Worker => tid' \in Worker)
        /\ (\A u \in Thread \ {t} : mutex = u => mutex' = u)
        /\ (l \in {"initing", "create", "freeing"} => mutex' = t)
    BY <1>2, CallParts, Values DEF FlowInv, Goto, On
  <1>6. FlowInv'
    BY <1>2, <1>3, <1>4, <1>5, FlowMove
  <1> QED
    BY <1>1, <1>6, CallJoin

LEMMA CallClear ==
    ASSUME CallInv, NEW t \in Thread, xh_core_clear(t) PROVE CallInv'
  <1> USE DEF xh_core_clear, lists, inits, async, locks, walks, signals, linker, code
  <1>1. DataInv'
    BY CallParts DEF DataInv
  <1>2. PICK l \in {"stop", "reset_async"} : Goto(t, l)
    OBVIOUS
  <1>3. l \in Labels \ Walking /\ l \notin {"enter", "joining", "join", "initing", "create", "freeing"}
    BY DEF Labels, Walking
  <1>4. arg' = [arg EXCEPT ![t] = arg[t]] /\ arg[t] \in Hook \cup Ignore \cup {"sync", "async", None} \cup Worker
    BY CallParts DEF FlowInv
  <1>5. /\ FlowInv
        /\ ~crashed
        /\ refresh_mutex' = refresh_mutex
        /\ (async_init_ok' => tid' \in Worker)
        /\ (tid \in Worker => tid' \in Worker)
        /\ (\A u \in Thread \ {t} : mutex = u => mutex' = u)
        /\ (l \in {"stop", "join"} => tid \in Worker)
    BY <1>2, CallParts, Values DEF FlowInv, Goto, On
  <1>6. FlowInv'
    BY <1>2, <1>3, <1>4, <1>5, FlowMove
  <1> QED
    BY <1>1, <1>6, CallJoin

LEMMA CallResetAsync ==
    ASSUME CallInv, NEW t \in Thread, clear_reset_async(t) PROVE CallInv'
  <1> USE DEF clear_reset_async, lists, inits, async, locks, walks, signals, linker, code
  <1>1. DataInv'
    BY CallParts DEF DataInv
  <1>2. PICK l \in {"reset"} : Goto(t, l)
    OBVIOUS
  <1>3. l \in Labels \ Walking /\ l \notin {"enter", "joining", "stop", "join", "initing", "create", "freeing"}
    BY DEF Labels, Walking
  <1>4. arg' = [arg EXCEPT ![t] = arg[t]] /\ arg[t] \in Hook \cup Ignore \cup {"sync", "async", None} \cup Worker
    BY CallParts DEF FlowInv
  <1>5. /\ FlowInv
        /\ ~crashed
        /\ refresh_mutex' = refresh_mutex
        /\ (async_init_ok' => tid' \in Worker)
        /\ (tid \in Worker => tid' \in Worker)
        /\ (\A u \in Thread \ {t} : mutex = u => mutex' = u)
    BY <1>2, CallParts, Values DEF FlowInv, Goto, On
  <1>6. FlowInv'
    BY <1>2, <1>3, <1>4, <1>5, FlowMove
  <1> QED
    BY <1>1, <1>6, CallJoin

LEMMA CallReset ==
    ASSUME CallInv, NEW t \in Thread, xh_core_del_sigsegv_handler(t) PROVE CallInv'
  <1> USE DEF xh_core_del_sigsegv_handler, lists, inits, async, locks, walks, signals, linker, code
  <1>1. DataInv'
    BY CallParts DEF DataInv
  <1>2. PICK l \in {"free"} : Goto(t, l)
    OBVIOUS
  <1>3. l \in Labels \ Walking /\ l \notin {"enter", "joining", "stop", "join", "initing", "create", "freeing"}
    BY DEF Labels, Walking
  <1>4. arg' = [arg EXCEPT ![t] = arg[t]] /\ arg[t] \in Hook \cup Ignore \cup {"sync", "async", None} \cup Worker
    BY CallParts DEF FlowInv
  <1>5. /\ FlowInv
        /\ ~crashed
        /\ refresh_mutex' = refresh_mutex
        /\ (async_init_ok' => tid' \in Worker)
        /\ (tid \in Worker => tid' \in Worker)
        /\ (\A u \in Thread \ {t} : mutex = u => mutex' = u)
    BY <1>2, CallParts, Values DEF FlowInv, Goto, On
  <1>6. FlowInv'
    BY <1>2, <1>3, <1>4, <1>5, FlowMove
  <1> QED
    BY <1>1, <1>6, CallJoin

LEMMA CallClearLock ==
    ASSUME CallInv, NEW t \in Thread, clear_lock(t) PROVE CallInv'
  <1> USE DEF clear_lock, lists, inits, async, locks, walks, signals, linker, code
  <1>1. DataInv'
    BY CallParts DEF DataInv
  <1>2. PICK l \in {"freeing"} : Goto(t, l)
    OBVIOUS
  <1>3. l \in Labels \ Walking /\ l \notin {"enter", "joining", "stop", "join", "initing", "create"}
    BY DEF Labels, Walking
  <1>4. arg' = [arg EXCEPT ![t] = arg[t]] /\ arg[t] \in Hook \cup Ignore \cup {"sync", "async", None} \cup Worker
    BY CallParts DEF FlowInv
  <1>5. /\ FlowInv
        /\ ~crashed
        /\ refresh_mutex' = refresh_mutex
        /\ (async_init_ok' => tid' \in Worker)
        /\ (tid \in Worker => tid' \in Worker)
        /\ (\A u \in Thread \ {t} : mutex = u => mutex' = u)
        /\ (l \in {"initing", "create", "freeing"} => mutex' = t)
    BY <1>2, CallParts, Values DEF FlowInv, Goto, On
  <1>6. FlowInv'
    BY <1>2, <1>3, <1>4, <1>5, FlowMove
  <1> QED
    BY <1>1, <1>6, CallJoin

LEMMA CallFree ==
    ASSUME CallInv, NEW t \in Thread, clear_free(t) PROVE CallInv'
  <1> USE DEF clear_free, lists, inits, async, locks, walks, signals, linker, code
  <1>1. DataInv'
    BY CallParts DEF DataInv
  <1>2. PICK l \in {"idle"} : Goto(t, l)
    OBVIOUS
  <1>3. l \in Labels \ Walking /\ l \notin {"enter", "joining", "stop", "join", "initing", "create", "freeing"}
    BY DEF Labels, Walking
  <1>4. arg' = [arg EXCEPT ![t] = arg[t]] /\ arg[t] \in Hook \cup Ignore \cup {"sync", "async", None} \cup Worker
    BY CallParts DEF FlowInv
  <1>5. /\ FlowInv
        /\ ~crashed
        /\ refresh_mutex' = refresh_mutex
        /\ (async_init_ok' => tid' \in Worker)
        /\ (tid \in Worker => tid' \in Worker)
        /\ (\A u \in Thread \ {t} : mutex = u => mutex' = u)
    BY <1>2, CallParts, Values DEF FlowInv, Goto, On
  <1>6. FlowInv'
    BY <1>2, <1>3, <1>4, <1>5, FlowMove
  <1> QED
    BY <1>1, <1>6, CallJoin

LEMMA CallInsert ==
    ASSUME CallInv, NEW t \in Thread, xh_core_register_insert(t) PROVE CallInv'
  <1> USE DEF xh_core_register_insert, lists, inits, async, locks, walks, signals, linker, code
  <1>1. DataInv'
    <2>1. CASE arg[t] \in Hook
      <3>1. hook_info \in Seq(Hook) /\ late \subseteq Hook
        BY CallParts DEF DataInv
      <3>2. hook_info' = Append(hook_info, arg[t]) /\ ignore_info' = ignore_info
        BY <2>1
      <3>3. late' = late \/ late' = late \cup {arg[t]}
        BY <2>1
      <3>4. hook_info' \in Seq(Hook) /\ late' \subseteq Hook
        BY <2>1, <3>1, <3>2, <3>3
      <3> QED
        BY <3>2, <3>4, CallParts DEF DataInv
    <2>2. CASE arg[t] \notin Hook
      <3>1. arg[t] \in Ignore
        BY <2>2, CallParts DEF FlowInv, On
      <3>2. ignore_info \in Seq(Ignore) /\ late \subseteq Hook
        BY CallParts DEF DataInv
      <3>3. ignore_info' = Append(ignore_info, arg[t]) /\ hook_info' = hook_info
        BY <2>2
      <3>4. late' = late \/ late' = late \cup Hook
        BY <2>2
      <3>5. ignore_info' \in Seq(Ignore) /\ late' \subseteq Hook
        BY <3>1, <3>2, <3>3, <3>4
      <3> QED
        BY <3>3, <3>5, CallParts DEF DataInv
    <2> QED
      BY <2>1, <2>2
  <1>2. PICK l \in {"idle"} : Goto(t, l)
    OBVIOUS
  <1>3. l \in Labels \ Walking /\ l \notin {"enter", "joining", "stop", "join", "initing", "create", "freeing"}
    BY DEF Labels, Walking
  <1>4. arg' = [arg EXCEPT ![t] = None]
    OBVIOUS
  <1>5. /\ FlowInv
        /\ ~crashed
        /\ refresh_mutex' = refresh_mutex
        /\ (async_init_ok' => tid' \in Worker)
        /\ (tid \in Worker => tid' \in Worker)
        /\ (\A u \in Thread \ {t} : mutex = u => mutex' = u)
    BY <1>2, CallParts, Values DEF FlowInv, Goto, On
  <1>6. FlowInv'
    BY <1>2, <1>3, <1>4, <1>5, FlowMove
  <1> QED
    BY <1>1, <1>6, CallJoin

\* A step that wakes the worker up.
LEMMA SignalMoved ==
    ASSUME FlowInv, NEW t \in Thread, NEW l \in Labels, pc' = [Signalled(pc) EXCEPT ![t] = l]
    PROVE  /\ pc' \in [Runner -> Labels \cup WorkerLabels] /\ pc'[t] = l
           /\ \A u \in Thread : u # t => pc'[u] = pc[u]
           /\ \A w \in Worker : pc'[w] = pc[w] \/ (pc[w] = "waiting" /\ pc'[w] = "take")
  <1>1. \A u \in Runner : Signalled(pc)[u] = IF pc[u] = "waiting" THEN "take" ELSE pc[u]
    BY DEF Signalled
  <1>2. "take" \in WorkerLabels /\ "waiting" \notin Labels
    BY DEF WorkerLabels, Labels
  <1>3. \A u \in Runner : Signalled(pc)[u] \in Labels \cup WorkerLabels
    BY <1>1, <1>2 DEF FlowInv
  <1>4. pc' \in [Runner -> Labels \cup WorkerLabels]
    BY <1>3 DEF Signalled
  <1>5. pc'[t] = l /\ \A u \in Runner : u # t => pc'[u] = Signalled(pc)[u]
    BY Values DEF Signalled
  <1>6. \A u \in Thread : u # t => pc'[u] = pc[u]
    BY <1>1, <1>2, <1>5, Values DEF FlowInv
  <1>7. \A w \in Worker : pc'[w] = pc[w] \/ (pc[w] = "waiting" /\ pc'[w] = "take")
    BY <1>1, <1>5, Values
  <1> QED
    BY <1>4, <1>5, <1>6, <1>7

\* As FlowMove, with a worker that starts or is woken up.
LEMMA FlowBoth ==
    ASSUME FlowInv, ~crashed, NEW t \in Thread, NEW l \in Labels \ Walking,
           pc' \in [Runner -> Labels \cup WorkerLabels], pc'[t] = l,
           \A u \in Thread : u # t => pc'[u] = pc[u],
           \A w \in Worker : pc'[w] = pc[w] \/ pc'[w] \in {"loop", "take", "joined"},
           refresh_mutex' = refresh_mutex,
           arg' \in [Thread -> Hook \cup Ignore \cup {"sync", "async", None} \cup Worker],
           \A u \in Thread : u # t => arg'[u] = arg[u],
           l \notin {"enter", "initing", "create", "freeing", "stop"},
           l = "join" => tid \in Worker, l = "joining" => arg'[t] \in Worker,
           \A u \in Thread \ {t} : mutex = u => mutex' = u,
           tid \in Worker => tid' \in Worker,
           async_init_ok' => tid' \in Worker
    PROVE  FlowInv'
  <1>1. {"loop", "take", "joined"} \subseteq WorkerLabels \ Walking
    BY DEF WorkerLabels, Walking
  <1>3. \A u \in Thread : pc'[u] \in Labels
    BY Values DEF FlowInv
  <1>4. \A w \in Worker : pc'[w] \in WorkerLabels
    BY <1>1, Values DEF FlowInv
  <1>5. \A u \in Runner : pc'[u] \in Walking => refresh_mutex' = u
    <2>1. \A u \in Thread : pc'[u] \in Walking => refresh_mutex' = u
      BY Values DEF FlowInv
    <2>2. \A u \in Worker : pc'[u] \in Walking => refresh_mutex' = u
      BY <1>1, Values DEF FlowInv
    <2> QED
      BY <2>1, <2>2 DEF Runner
  <1>6. \A u \in Thread :
           /\ pc'[u] = "enter" => arg'[u] \in Hook \cup Ignore
           /\ pc'[u] \in {"initing", "create", "freeing"} => mutex' = u
           /\ pc'[u] \in {"stop", "join"} => tid' \in Worker
           /\ pc'[u] = "joining" => crashed' \/ arg'[u] \in Worker
    BY Values DEF FlowInv
  <1> QED
    BY <1>3, <1>4, <1>5, <1>6 DEF FlowInv

\* A step of a walk, or of a worker between walks.
LEMMA FlowWalk ==
    ASSUME FlowInv, ~crashed, NEW t \in Runner, NEW l \in Labels \cup WorkerLabels, Goto(t, l),
           t \in Thread => l \in Labels, t \in Worker => l \in WorkerLabels,
           l \notin {"enter", "initing", "create", "freeing", "stop", "join", "joining"},
           l \in Walking => refresh_mutex' = t,
           \A u \in Runner : u # t /\ pc[u] \in Walking => refresh_mutex' = u,
           arg' \in [Thread -> Hook \cup Ignore \cup {"sync", "async", None} \cup Worker],
           \A u \in Thread : u # t => arg'[u] = arg[u],
           mutex' = mutex, tid' = tid, async_init_ok' = async_init_ok
    PROVE  FlowInv'
  <1>1. /\ pc' \in [Runner -> Labels \cup WorkerLabels] /\ pc'[t] = l
        /\ \A u \in Runner : u # t => pc'[u] = pc[u]
    BY Moved DEF FlowInv
  <1>3. \A u \in Thread : pc'[u] \in Labels
    BY <1>1, Values DEF FlowInv
  <1>4. \A w \in Worker : pc'[w] \in WorkerLabels
    BY <1>1, Values DEF FlowInv
  <1>5. \A u \in Runner : pc'[u] \in Walking => refresh_mutex' = u
    BY <1>1 DEF FlowInv
  <1>6. \A u \in Thread :
           /\ pc'[u] = "enter" => arg'[u] \in Hook \cup Ignore
           /\ pc'[u] \in {"initing", "create", "freeing"} => mutex' = u
           /\ pc'[u] \in {"stop", "join"} => tid' \in Worker
           /\ pc'[u] = "joining" => crashed' \/ arg'[u] \in Worker
    BY <1>1, Values DEF FlowInv
  <1> QED
    BY <1>1, <1>3, <1>4, <1>5, <1>6 DEF FlowInv

\* A step of the program, of the linker, or of the switch.
LEMMA FlowSame ==
    ASSUME FlowInv, ~crashed, UNCHANGED <<pc, arg, refresh_mutex, mutex, tid, async_init_ok>>
    PROVE  FlowInv'
  BY DEF FlowInv

LEMMA CallReady ==
    ASSUME CallInv, NEW t \in Thread, xh_core_refresh_ready(t) PROVE CallInv'
  <1> USE DEF xh_core_refresh_ready, lists, inits, async, locks, walks, signals, linker, code
  <1>1. DataInv'
    BY CallParts DEF DataInv
  <1>2. PICK l \in {"idle", "lock", "aready", "ainit"} : Goto(t, l)
    OBVIOUS
  <1>3. l \in Labels \ Walking /\ l \notin {"enter", "joining", "stop", "join", "initing", "create", "freeing"}
    BY DEF Labels, Walking
  <1>4. PICK a : arg' = [arg EXCEPT ![t] = a] /\ (a = arg[t] \/ a = None)
    OBVIOUS
  <1>5. a \in Hook \cup Ignore \cup {"sync", "async", None} \cup Worker
    BY <1>4, CallParts DEF FlowInv
  <1>6. /\ FlowInv /\ ~crashed
        /\ refresh_mutex' = refresh_mutex /\ mutex' = mutex /\ tid' = tid
        /\ (async_init_ok' => tid' \in Worker)
    BY CallParts DEF FlowInv, On
  <1>7. FlowInv'
    BY <1>2, <1>3, <1>4, <1>5, <1>6, FlowMove
  <1> QED
    BY <1>1, <1>7, CallJoin

LEMMA CallCreate ==
    ASSUME CallInv, NEW t \in Thread, xh_core_init_async_once_create(t) PROVE CallInv'
  <1> USE DEF xh_core_init_async_once_create, lists, inits, async, locks, walks, signals, linker, code
  <1>1. DataInv'
    BY CallParts DEF DataInv
  <1>2. /\ pc \in [Runner -> Labels \cup WorkerLabels] /\ ~crashed /\ FlowInv
        /\ {"aready", "loop"} \subseteq Labels \cup WorkerLabels
        /\ "aready" \in Labels \ Walking
    BY CallParts DEF FlowInv, Labels, WorkerLabels, Walking, On
  <1>3. /\ pc' \in [Runner -> Labels \cup WorkerLabels] /\ pc'[t] = "aready"
        /\ \A u \in Thread : u # t => pc'[u] = pc[u]
        /\ \A w \in Worker : pc'[w] = pc[w] \/ pc'[w] \in {"loop", "take", "joined"}
    BY <1>2, Values DEF Goto
  <1>4. /\ arg' \in [Thread -> Hook \cup Ignore \cup {"sync", "async", None} \cup Worker]
        /\ \A u \in Thread : u # t => arg'[u] = arg[u]
    BY CallParts DEF FlowInv
  <1>5. /\ refresh_mutex' = refresh_mutex
        /\ \A u \in Thread \ {t} : mutex = u => mutex' = u
        /\ tid \in Worker => tid' \in Worker
        /\ async_init_ok' => tid' \in Worker
    BY CallParts DEF FlowInv, On
  <1>6. FlowInv'
    BY <1>2, <1>3, <1>4, <1>5, FlowBoth
  <1> QED
    BY <1>1, <1>6, CallJoin

LEMMA CallAsync ==
    ASSUME CallInv, NEW t \in Thread, xh_core_refresh_async(t) PROVE CallInv'
  <1> USE DEF xh_core_refresh_async, lists, inits, async, locks, walks, signals, linker, code
  <1>1. DataInv'
    BY CallParts DEF DataInv
  <1>2. ~crashed /\ FlowInv /\ "idle" \in Labels \ Walking
    BY CallParts DEF Labels, Walking, On
  <1>3. /\ pc' \in [Runner -> Labels \cup WorkerLabels] /\ pc'[t] = "idle"
        /\ \A u \in Thread : u # t => pc'[u] = pc[u]
        /\ \A w \in Worker : pc'[w] = pc[w] \/ pc'[w] \in {"loop", "take", "joined"}
    <2>1. CASE pc' = [Signalled(pc) EXCEPT ![t] = "idle"]
      BY <1>2, <2>1, SignalMoved
    <2>2. CASE Goto(t, "idle")
      BY <1>2, <2>2, Moved, Values DEF FlowInv
    <2> QED
      BY <2>1, <2>2
  <1>4. /\ arg' \in [Thread -> Hook \cup Ignore \cup {"sync", "async", None} \cup Worker]
        /\ \A u \in Thread : u # t => arg'[u] = arg[u]
    BY <1>2 DEF FlowInv
  <1>5. /\ refresh_mutex' = refresh_mutex /\ mutex' = mutex /\ tid' = tid
        /\ async_init_ok' => tid' \in Worker
    BY <1>2 DEF FlowInv
  <1>6. FlowInv'
    BY <1>2, <1>3, <1>4, <1>5, FlowBoth
  <1> QED
    BY <1>1, <1>6, CallJoin

LEMMA CallStop ==
    ASSUME CallInv, NEW t \in Thread, clear_stop(t) PROVE CallInv'
  <1> USE DEF clear_stop, lists, inits, async, locks, walks, signals, linker, code
  <1>1. DataInv'
    BY CallParts DEF DataInv
  <1>2. ~crashed /\ FlowInv /\ "join" \in Labels \ Walking
    BY CallParts DEF Labels, Walking, On
  <1>3. /\ pc' \in [Runner -> Labels \cup WorkerLabels] /\ pc'[t] = "join"
        /\ \A u \in Thread : u # t => pc'[u] = pc[u]
        /\ \A w \in Worker : pc'[w] = pc[w] \/ pc'[w] \in {"loop", "take", "joined"}
    BY <1>2, SignalMoved
  <1>4. /\ arg' \in [Thread -> Hook \cup Ignore \cup {"sync", "async", None} \cup Worker]
        /\ \A u \in Thread : u # t => arg'[u] = arg[u]
    BY <1>2 DEF FlowInv
  <1>5. /\ refresh_mutex' = refresh_mutex /\ mutex' = mutex /\ tid' = tid
        /\ async_init_ok' => tid' \in Worker
        /\ tid \in Worker
    BY <1>2 DEF FlowInv, On
  <1>6. FlowInv'
    BY <1>2, <1>3, <1>4, <1>5, FlowBoth
  <1> QED
    BY <1>1, <1>6, CallJoin

LEMMA CallJoinTid ==
    ASSUME CallInv, NEW t \in Thread, clear_join(t) PROVE CallInv'
  <1> USE DEF clear_join, lists, inits, async, locks, walks, signals, linker, code
  <1>1. DataInv'
    BY CallParts DEF DataInv
  <1>2. "joining" \in Labels \ Walking
    BY DEF Labels, Walking
  <1>3. /\ FlowInv /\ ~crashed /\ tid \in Worker
        /\ refresh_mutex' = refresh_mutex /\ mutex' = mutex /\ tid' = tid
        /\ (async_init_ok' => tid' \in Worker)
    BY CallParts DEF FlowInv, On
  <1>4. FlowInv'
    BY <1>2, <1>3, FlowMove
  <1> QED
    BY <1>1, <1>4, CallJoin

LEMMA CallJoined ==
    ASSUME CallInv, NEW t \in Thread, clear_joined(t) PROVE CallInv'
  <1> USE DEF clear_joined, lists, inits, async, locks, walks, signals, linker, code
  <1>1. DataInv'
    BY CallParts DEF DataInv
  <1>2. /\ ~crashed /\ FlowInv /\ "reset_async" \in Labels \ Walking /\ arg[t] \in Worker
        /\ pc \in [Runner -> Labels \cup WorkerLabels]
        /\ {"joined", "reset_async"} \subseteq Labels \cup WorkerLabels
    BY CallParts DEF FlowInv, Labels, WorkerLabels, Walking, On
  <1>3. /\ arg' \in [Thread -> Hook \cup Ignore \cup {"sync", "async", None} \cup Worker]
        /\ \A u \in Thread : u # t => arg'[u] = arg[u]
    BY <1>2 DEF FlowInv
  <1>4. /\ refresh_mutex' = refresh_mutex /\ mutex' = mutex /\ tid' = tid
        /\ async_init_ok' => tid' \in Worker
    BY <1>2 DEF FlowInv
  <1>5. CASE pc[arg[t]] = "exited"
    <2>1. pc' = [pc EXCEPT ![arg[t]] = "joined", ![t] = "reset_async"]
      BY <1>5
    <2>2. /\ pc' \in [Runner -> Labels \cup WorkerLabels] /\ pc'[t] = "reset_async"
          /\ \A u \in Thread : u # t => pc'[u] = pc[u]
          /\ \A w \in Worker : pc'[w] = pc[w] \/ pc'[w] \in {"loop", "take", "joined"}
      BY <1>2, <2>1, Values
    <2>3. FlowInv'
      BY <1>2, <1>3, <1>4, <2>2, FlowBoth
    <2> QED
      BY <1>1, <2>3, CallJoin
  <1>6. CASE pc[arg[t]] # "exited"
    <2>1. pc' = pc /\ crashed'
      BY <1>6
    <2>2. FlowInv'
      BY <1>2, <1>3, <1>4, <2>1 DEF FlowInv, On
    <2> QED
      BY <1>1, <2>2, CallJoin
  <1> QED
    BY <1>5, <1>6

-----------------------------------------------------------------------------
(* The steps of the walk, of the worker and of the program around.         *)

WalkType == [todo : SUBSET Path, path : Path \cup {None}, base : Base \cup {None},
             next : Nat \ {0}, refreshed : [Path -> Base \cup {None}]]

LEMMA NoWalkIs ==
    /\ NoWalk \in WalkType /\ [NoWalk EXCEPT !.todo = Path] \in WalkType
    /\ NoWalk.todo = {} /\ NoWalk.path = None /\ NoWalk.base = None /\ NoWalk.next = 1
    /\ \A p \in Path : NoWalk.refreshed[p] = None
    /\ [NoWalk EXCEPT !.todo = Path].todo = Path
    /\ [NoWalk EXCEPT !.todo = Path].path = None
    /\ [NoWalk EXCEPT !.todo = Path].next = 1
    /\ \A p \in Path : [NoWalk EXCEPT !.todo = Path].refreshed[p] = None
  BY DEF NoWalk, WalkType

\* The fields of the walk after each of its changes.
LEMMA LineTaken ==
    ASSUME walk \in WalkType, NEW p \in Path, NEW b \in Base \cup {None},
           walk' = [walk EXCEPT !.todo = @ \ {p}, !.path = p, !.base = b]
    PROVE  /\ walk' \in WalkType /\ walk'.todo = walk.todo \ {p} /\ walk'.path = p
           /\ walk'.base = b /\ walk'.next = walk.next /\ walk'.refreshed = walk.refreshed
  BY DEF WalkType

LEMMA LineLeft ==
    ASSUME walk \in WalkType, NEW p \in Path, walk' = [walk EXCEPT !.todo = @ \ {p}]
    PROVE  /\ walk' \in WalkType /\ walk'.todo = walk.todo \ {p} /\ walk'.path = walk.path
           /\ walk'.base = walk.base /\ walk'.next = walk.next
           /\ walk'.refreshed = walk.refreshed
  BY DEF WalkType

LEMMA ElfEnded ==
    ASSUME walk \in WalkType, walk' = EndElf
    PROVE  /\ walk' \in WalkType /\ walk'.todo = walk.todo /\ walk'.path = None
           /\ walk'.base = None /\ walk'.next = 1 /\ walk'.refreshed = walk.refreshed
  <1>1. walk' = [todo |-> walk.todo, path |-> None, base |-> None, next |-> 1,
                 refreshed |-> walk.refreshed]
    BY DEF WalkType, EndElf
  <1>2. walk.todo \in SUBSET Path /\ walk.refreshed \in [Path -> Base \cup {None}]
    BY DEF WalkType
  <1>3. walk' \in WalkType
    BY <1>1, <1>2 DEF WalkType
  <1> QED
    BY <1>1, <1>3

LEMMA ElfEntered ==
    ASSUME walk \in WalkType, walk.path \in Path, NEW q, NEW b,
           q \in {walk.path, None}, b \in {walk.base, None},
           walk' = [walk EXCEPT !.refreshed[walk.path] = walk.base, !.path = q, !.base = b]
    PROVE  /\ walk' \in WalkType /\ walk'.todo = walk.todo /\ walk'.path = q
           /\ walk'.base = b /\ walk'.next = walk.next
           /\ walk'.refreshed[walk.path] = walk.base
           /\ \A p \in Path : p # walk.path => walk'.refreshed[p] = walk.refreshed[p]
  BY DEF WalkType

LEMMA HookPassed ==
    ASSUME walk \in WalkType, walk' = [walk EXCEPT !.next = @ + 1]
    PROVE  /\ walk' \in WalkType /\ walk'.todo = walk.todo /\ walk'.path = walk.path
           /\ walk'.base = walk.base /\ walk'.next = walk.next + 1
           /\ walk'.refreshed = walk.refreshed
  BY DEF WalkType

\* What a step of the walk does to the calls in progress.
LEMMA FlowStep ==
    ASSUME FlowInv, ~crashed, NEW t \in Runner, pc[t] \in Walking, NEW l \in Walking, Goto(t, l),
           UNCHANGED <<arg, refresh_mutex, mutex, tid, async_init_ok>>
    PROVE  FlowInv'
  <1>1. /\ l \in Labels /\ l \in WorkerLabels
        /\ l \notin {"enter", "initing", "create", "freeing", "stop", "join", "joining"}
    BY DEF Walking, Labels, WorkerLabels
  <1>2. refresh_mutex' = t /\ \A u \in Runner : u # t /\ pc[u] \in Walking => refresh_mutex' = u
    BY DEF FlowInv
  <1>3. /\ arg' \in [Thread -> Hook \cup Ignore \cup {"sync", "async", None} \cup Worker]
        /\ \A u \in Thread : u # t => arg'[u] = arg[u]
    BY DEF FlowInv
  <1> QED
    BY <1>1, <1>2, <1>3, FlowWalk

LEMMA CallBegin ==
    ASSUME CallInv, NEW t \in Runner, refresh_begin(t) PROVE CallInv'
  <1> USE DEF refresh_begin, lists, inits, async, locks, walks, signals, linker, code
  <1>1. DataInv'
    BY CallParts, NoWalkIs DEF DataInv, WalkType
  <1>2. /\ ~crashed /\ FlowInv /\ refresh_mutex = None
        /\ \A u \in Runner : pc[u] \notin Walking
    BY CallParts, NoStage DEF On
  <1>3. PICK l \in {"scan", AfterWalk(t)} :
            Goto(t, l) /\ (l \in Walking => refresh_mutex' = t)
    BY DEF AfterWalk, Walking
  <1>4. /\ l \in Labels \cup WorkerLabels
        /\ t \in Thread => l \in Labels
        /\ t \in Worker => l \in WorkerLabels
        /\ l \notin {"enter", "initing", "create", "freeing", "stop", "join", "joining"}
    BY Values DEF AfterWalk, Labels, WorkerLabels
  <1>5. /\ arg' \in [Thread -> Hook \cup Ignore \cup {"sync", "async", None} \cup Worker]
        /\ \A u \in Thread : u # t => arg'[u] = arg[u]
    BY <1>2 DEF FlowInv
  <1>6. FlowInv'
    BY <1>2, <1>3, <1>4, <1>5, FlowWalk
  <1> QED
    BY <1>1, <1>6, CallJoin

LEMMA CallEnd ==
    ASSUME CallInv, NEW t \in Runner, refresh_end(t) PROVE CallInv'
  <1> USE DEF refresh_end, lists, inits, async, locks, walks, signals, linker, code
  <1>1. DataInv'
    BY CallParts, NoWalkIs DEF DataInv, WalkType
  <1>2. /\ ~crashed /\ FlowInv /\ refresh_mutex = t
        /\ \A u \in Runner : u # t => pc[u] \notin Walking
    BY CallParts, StageOf DEF On, Walking
  <1>3. /\ AfterWalk(t) \in Labels \cup WorkerLabels /\ AfterWalk(t) \notin Walking
        /\ t \in Thread => AfterWalk(t) \in Labels
        /\ t \in Worker => AfterWalk(t) \in WorkerLabels
        /\ AfterWalk(t) \notin {"enter", "initing", "create", "freeing", "stop", "join", "joining"}
    BY Values DEF AfterWalk, Labels, WorkerLabels, Walking
  <1>4. /\ arg' \in [Thread -> Hook \cup Ignore \cup {"sync", "async", None} \cup Worker]
        /\ \A u \in Thread : u # t => arg'[u] = arg[u]
    BY <1>2 DEF FlowInv
  <1>5. FlowInv'
    BY <1>2, <1>3, <1>4, FlowWalk
  <1> QED
    BY <1>1, <1>5, CallJoin

LEMMA CallLine ==
    ASSUME CallInv, NEW t \in Runner, NEW p \in Path, refresh_line(t, p) PROVE CallInv'
  <1> USE DEF refresh_line, lists, inits, async, locks, walks, signals, linker, code
  <1>1. /\ ~crashed /\ FlowInv /\ DataInv /\ pc[t] \in Walking /\ "header" \in Walking
        /\ walk \in WalkType
    BY CallParts DEF On, Walking, WalkType, DataInv
  <1>2. CASE mapped[p] # None /\ PathMatches(p)
    <2>1. mapped[p] \in Base \cup {None}
      BY <1>1 DEF DataInv
    <2>2. walk' \in WalkType
      BY <1>2, <2>1, <1>1, LineTaken
    <2>3. flag' \in BOOLEAN
      BY <1>1, <1>2 DEF Protect, DataInv
    <2>4. DataInv'
      BY <1>1, <2>2, <2>3 DEF DataInv, WalkType
    <2>5. FlowInv'
      BY <1>1, <1>2, FlowStep
    <2> QED
      BY <2>4, <2>5, CallJoin
  <1>3. CASE ~(mapped[p] # None /\ PathMatches(p))
    <2>1. walk' \in WalkType
      BY <1>1, <1>3, LineLeft
    <2>2. DataInv'
      BY <1>1, <1>3, <2>1 DEF DataInv, WalkType
    <2>3. FlowInv'
      BY <1>1, <1>3, FlowSame
    <2> QED
      BY <2>2, <2>3, CallJoin
  <1> QED
    BY <1>2, <1>3

\* A fault leaves the ELF; the thread goes on or the process ends.
LEMMA CallFault ==
    ASSUME CallInv, ~crashed, NEW t \in Runner, pc[t] \in Walking, Fault(t),
           UNCHANGED <<lists, inits, async, locks, linker, arg, cleared>>
    PROVE  CallInv'
  <1> USE DEF Fault, lists, inits, async, locks, walks, signals, linker, code
  <1>1. FlowInv /\ DataInv /\ walk \in WalkType /\ "scan" \in Walking
    BY CallParts DEF WalkType, DataInv, Walking
  <1>2. walk' \in WalkType
    BY <1>1, ElfEnded
  <1>3. handler' \in {"app", "xhook", "default"} /\ {exposed', crashed', flag'} \subseteq BOOLEAN
    BY <1>1 DEF DataInv
  <1>4. DataInv'
    BY <1>1, <1>2, <1>3 DEF DataInv, WalkType
  <1>5. CASE handler = "xhook" /\ flag
    <2>1. FlowInv'
      BY <1>1, <1>5, FlowStep
    <2> QED
      BY <1>4, <2>1, CallJoin
  <1>6. CASE ~(handler = "xhook" /\ flag)
    <2>1. FlowInv'
      BY <1>1, <1>6, FlowSame
    <2> QED
      BY <1>4, <2>1, CallJoin
  <1> QED
    BY <1>5, <1>6

LEMMA CheckedWalk ==
    ASSUME walk \in WalkType, walk.path \in Path, NEW t \in Runner, Checked(t)
    PROVE  /\ walk' \in WalkType /\ walk'.todo = walk.todo /\ walk'.next = walk.next
           /\ walk'.refreshed[walk.path] = walk.base
           /\ \A p \in Path : p # walk.path => walk'.refreshed[p] = walk.refreshed[p]
           /\ map_info[walk.path] = walk.base => walk'.path = None /\ walk'.base = None
           /\ map_info[walk.path] # walk.base => walk'.path = walk.path /\ walk'.base = walk.base
  <1>1. CASE map_info[walk.path] = walk.base
    <2>1. walk' = [walk EXCEPT !.refreshed[walk.path] = walk.base, !.path = None, !.base = None]
      BY <1>1 DEF Checked, KnownBase
    <2> QED
      BY <1>1, <2>1, ElfEntered
  <1>2. CASE map_info[walk.path] # walk.base
    <2>1. walk' = [walk EXCEPT !.refreshed[walk.path] = walk.base, !.path = walk.path,
                               !.base = walk.base]
      BY <1>2 DEF Checked, KnownBase
    <2> QED
      BY <1>2, <2>1 DEF WalkType
  <1> QED
    BY <1>1, <1>2

LEMMA CallElfEnd ==
    ASSUME CallInv, ~crashed, NEW t \in Runner, pc[t] \in Walking, EndHook(t),
           UNCHANGED <<lists, inits, async, locks, linker, arg, cleared>>
    PROVE  CallInv'
  <1> USE DEF EndHook, lists, inits, async, locks, walks, signals, linker, code
  <1>1. FlowInv /\ DataInv /\ walk \in WalkType /\ "scan" \in Walking
    BY CallParts DEF WalkType, DataInv, Walking
  <1>2. walk' \in WalkType
    BY <1>1, ElfEnded
  <1>3. DataInv'
    BY <1>1, <1>2 DEF DataInv, WalkType
  <1>4. FlowInv'
    BY <1>1, FlowStep
  <1> QED
    BY <1>3, <1>4, CallJoin

LEMMA CallHeader ==
    ASSUME CallInv, WalkInv, NEW t \in Runner, xh_core_check_elf_header(t) PROVE CallInv'
  <1>1. /\ ~crashed /\ FlowInv /\ DataInv /\ walk \in WalkType /\ pc[t] = "header"
        /\ pc[t] \in Walking /\ "scan" \in Walking /\ "hook" \in Walking
    BY CallParts DEF On, Walking, WalkType, DataInv, xh_core_check_elf_header
  <1>2. walk.path \in Path /\ walk.base \in Base
    BY <1>1, StageOf DEF WalkInv, Inside
  <1>3. CASE Gone
    BY <1>1, <1>3, CallFault DEF xh_core_check_elf_header
  <1>4. CASE ~Gone
    <2> USE <1>4 DEF xh_core_check_elf_header, lists, inits, async, locks, walks, signals, linker, code
    <2>1. CASE Checked(t)
      <3>1. walk' \in WalkType
        BY <1>1, <1>2, <2>1, CheckedWalk
      <3>2. flag' \in BOOLEAN
        BY <1>1, <2>1 DEF Checked, Protect, DataInv
      <3>3. missed' \in [Path -> SUBSET Hook]
        BY <1>1, <1>2, <2>1 DEF Checked, DataInv
      <3>4. DataInv'
        BY <1>1, <2>1, <3>1, <3>2, <3>3 DEF DataInv, WalkType, Checked
      <3>5. FlowInv'
        BY <1>1, <2>1, FlowStep DEF Checked
      <3> QED
        BY <3>4, <3>5, CallJoin
    <2>2. CASE EndHook(t)
      BY <1>1, <2>2, CallElfEnd
    <2> QED
      BY <2>1, <2>2
  <1> QED
    BY <1>3, <1>4

\* The hook at hand, its symbol and the slot it is for.
LEMMA NextHook ==
    ASSUME DataInv, walk.path \in Path, walk.next <= Len(hook_info)
    PROVE  /\ walk.next \in 1..Len(hook_info)
           /\ hook_info[walk.next] \in Hook
           /\ SymOf[hook_info[walk.next]] \in Symbol
           /\ slot[walk.path][SymOf[hook_info[walk.next]]] \in Hook \cup {Orig}
  <1>1. walk.next \in 1..Len(hook_info)
    BY DEF DataInv
  <1>2. hook_info[walk.next] \in Hook
    BY <1>1 DEF DataInv
  <1> QED
    BY <1>1, <1>2, Values DEF DataInv

LEMMA CallHook ==
    ASSUME CallInv, WalkInv, NEW t \in Runner, xh_core_hook(t) PROVE CallInv'
  <1>1. /\ ~crashed /\ FlowInv /\ DataInv /\ walk \in WalkType /\ pc[t] = "hook"
        /\ pc[t] \in Walking /\ "scan" \in Walking /\ "replace" \in Walking
        /\ UNCHANGED <<lists, inits, async, locks, linker, arg, cleared>>
    BY CallParts DEF On, Walking, WalkType, DataInv, xh_core_hook
  <1>2. walk.path \in Path
    BY <1>1, StageOf DEF WalkInv, Inside
  <1>3. CASE Fault(t)
    BY <1>1, <1>3, CallFault
  <1>4. CASE EndHook(t)
    BY <1>1, <1>4, CallElfEnd
  <1>5. CASE /\ ~(walk.next > Len(hook_info) \/ IgnoredAll(walk.path))
             /\ HookNext(t)
             /\ UNCHANGED <<flag, handler, enable, once, exposed, map_info, crashed>>
    <2> USE DEF lists, inits, async, locks, walks, signals, linker, code
    <2>1. UNCHANGED <<flag, handler, enable, once, exposed, map_info, crashed>>
      BY <1>5
    <2>2. walk.next <= Len(hook_info)
      BY <1>1, <1>5 DEF DataInv
    <2>3. /\ hook_info[walk.next] \in Hook
          /\ slot[walk.path][SymOf[hook_info[walk.next]]] \in Hook \cup {Orig}
      BY <1>1, <1>2, <2>2, NextHook
    <2>4. CASE ~PassHook
      <3>1. /\ old' = [old EXCEPT ![hook_info[walk.next]] =
                           slot[walk.path][SymOf[hook_info[walk.next]]]]
            /\ Goto(t, "replace") /\ UNCHANGED <<walk, missed, slot>>
        BY <1>5, <2>4 DEF HookNext
      <3>2. old' \in [Hook -> Hook \cup {Orig, None}]
        BY <1>1, <2>3, <3>1 DEF DataInv
      <3>3. DataInv'
        BY <1>1, <2>1, <3>1, <3>2 DEF DataInv
      <3>4. FlowInv'
        BY <1>1, <2>1, <3>1, FlowStep
      <3> QED
        BY <3>3, <3>4, CallJoin
    <2>5. CASE PassHook
      <3>1. walk' = [walk EXCEPT !.next = @ + 1] /\ UNCHANGED <<pc, old, slot>>
        BY <2>5 DEF PassHook
      <3>2. walk' \in WalkType
        BY <1>1, <3>1, HookPassed
      <3>3. missed' \in [Path -> SUBSET Hook]
        BY <1>1, <1>2, <2>3, <2>5 DEF PassHook, DataInv
      <3>4. DataInv'
        BY <1>1, <2>1, <3>1, <3>2, <3>3 DEF DataInv, WalkType
      <3>5. FlowInv'
        BY <1>1, <2>1, <3>1, FlowSame
      <3> QED
        BY <3>4, <3>5, CallJoin
    <2> QED
      BY <2>4, <2>5
  <1> QED
    BY <1>3, <1>4, <1>5 DEF xh_core_hook

LEMMA CallReplace ==
    ASSUME CallInv, WalkInv, NEW t \in Runner, xh_elf_replace_function(t) PROVE CallInv'
  <1>1. /\ ~crashed /\ FlowInv /\ DataInv /\ walk \in WalkType /\ pc[t] = "replace"
        /\ pc[t] \in Walking /\ "hook" \in Walking
    BY CallParts DEF On, Walking, WalkType, DataInv, xh_elf_replace_function
  <1>2. walk.path \in Path /\ walk.next <= Len(hook_info)
    BY <1>1, StageOf DEF WalkInv, Inside
  <1>3. CASE Gone
    BY <1>1, <1>3, CallFault DEF xh_elf_replace_function
  <1>4. CASE ~Gone
    <2> USE DEF lists, inits, async, locks, walks, signals, linker, code
    <2>1. /\ slot' = [slot EXCEPT ![walk.path][SymOf[hook_info[walk.next]]] = hook_info[walk.next]]
          /\ walk' = [walk EXCEPT !.next = @ + 1] /\ Goto(t, "hook")
          /\ UNCHANGED <<missed, old, flag, handler, enable, once, exposed, map_info, crashed>>
          /\ UNCHANGED <<lists, inits, async, locks, linker, arg, cleared>>
      BY <1>4 DEF xh_elf_replace_function
    <2>2. walk' \in WalkType
      BY <1>1, <2>1, HookPassed
    <2>3. hook_info[walk.next] \in Hook
      BY <1>1, <1>2, NextHook
    <2>4. slot' \in [Path -> [Symbol -> Hook \cup {Orig}]]
      BY <1>1, <2>1, <2>3 DEF DataInv
    <2>5. DataInv'
      BY <1>1, <2>1, <2>2, <2>4 DEF DataInv, WalkType
    <2>6. FlowInv'
      BY <1>1, <2>1, FlowStep
    <2> QED
      BY <2>5, <2>6, CallJoin
  <1> QED
    BY <1>3, <1>4

LEMMA CallWalk ==
    ASSUME CallInv, WalkInv, NEW t \in Runner, Walk(t) PROVE CallInv'
  BY CallBegin, CallLine, CallHeader, CallHook, CallReplace, CallEnd DEF Walk

LEMMA CallWorker ==
    ASSUME CallInv, WalkInv, NEW w \in Worker, WorkerStep(w) PROVE CallInv'
  <1> USE DEF refresh_thread_loop, refresh_thread_take, lists, inits, async, locks, walks,
              signals, linker, code
  <1>1. w \in Runner /\ w \notin Thread
    BY Values
  <1>2. CASE Walk(w)
    BY <1>1, <1>2, CallWalk
  <1>3. CASE refresh_thread_loop(w) \/ refresh_thread_take(w)
    <2>1. DataInv'
      BY <1>3, CallParts DEF DataInv
    <2>2. PICK l \in {"take", "exited", "lock", "waiting"} : Goto(w, l)
      BY <1>3
    <2>3. /\ l \in Labels \cup WorkerLabels /\ l \in WorkerLabels /\ l \notin Walking
          /\ l \notin {"enter", "initing", "create", "freeing", "stop", "join", "joining"}
      BY DEF Labels, WorkerLabels, Walking
    <2>4. /\ FlowInv /\ ~crashed
          /\ arg' \in [Thread -> Hook \cup Ignore \cup {"sync", "async", None} \cup Worker]
          /\ \A u \in Thread : u # w => arg'[u] = arg[u]
          /\ \A u \in Runner : u # w /\ pc[u] \in Walking => refresh_mutex' = u
          /\ mutex' = mutex /\ tid' = tid /\ async_init_ok' = async_init_ok
      BY <1>3, CallParts DEF FlowInv, On
    <2>5. FlowInv'
      BY <1>1, <2>2, <2>3, <2>4, FlowWalk
    <2> QED
      BY <2>1, <2>5, CallJoin
  <1> QED
    BY <1>2, <1>3 DEF WorkerStep

LEMMA CallOther ==
    ASSUME CallInv,
           \/ \E t \in Thread : xh_core_enable_sigsegv_protection(t)
           \/ program_fault
           \/ \E p \in Path : dlclose(p) \/ \E b \in At[p] : dlopen(p, b)
    PROVE  CallInv'
  <1> USE DEF xh_core_enable_sigsegv_protection, program_fault, lists, inits, async, locks, walks,
              signals, linker, code
  <1>1. DataInv /\ FlowInv
    BY CallParts
  <1>2. CASE \E t \in Thread : xh_core_enable_sigsegv_protection(t)
    <2>1. DataInv'
      BY <1>1, <1>2 DEF DataInv
    <2> QED
      BY <1>1, <1>2, <2>1, FlowSame, CallJoin DEF On
  <1>3. CASE program_fault
    <2>1. DataInv'
      BY <1>1, <1>3 DEF DataInv
    <2> QED
      BY <1>1, <1>3, <2>1, FlowSame, CallJoin
  <1>4. CASE \E p \in Path : dlclose(p)
    <2>1. PICK p \in Path : dlclose(p)
      BY <1>4
    <2>2. mapped' \in [Path -> Base \cup {None}]
      BY <1>1, <2>1 DEF DataInv, dlclose
    <2>3. DataInv'
      BY <1>1, <2>1, <2>2 DEF DataInv, dlclose
    <2> QED
      BY <1>1, <2>1, <2>3, FlowSame, CallJoin DEF dlclose
  <1>5. CASE \E p \in Path : \E b \in At[p] : dlopen(p, b)
    <2> PICK p \in Path : \E b \in At[p] : dlopen(p, b)
      BY <1>5
    <2>1. PICK b \in At[p] : dlopen(p, b)
      OBVIOUS
    <2>2. b \in Base
      BY <2>1, SetAssumption
    <2>3. /\ mapped' \in [Path -> Base \cup {None}] /\ fresh' \in [Path -> BOOLEAN]
          /\ used' \in [Path -> SUBSET Base]
      BY <1>1, <2>1, <2>2 DEF DataInv, dlopen
    <2>4. slot' \in [Path -> [Symbol -> Hook \cup {Orig}]]
      BY <1>1, <2>1 DEF DataInv, dlopen
    <2>5. DataInv'
      BY <1>1, <2>1, <2>3, <2>4 DEF DataInv, dlopen
    <2> QED
      BY <1>1, <2>1, <2>5, FlowSame, CallJoin DEF dlopen
  <1> QED
    BY <1>2, <1>3, <1>4, <1>5

-----------------------------------------------------------------------------
(* The "once" functions and the worker.                                    *)

\* Steps that leave the flags alone.
LEMMA OnceMove ==
    ASSUME OnceInv, NEW t \in Runner, NEW l, pc'[t] = l,
           \A u \in Thread : u # t => pc'[u] = pc[u],
           \A w \in Worker : w # t => pc'[w] = pc[w] \/ (pc[w] # "none" /\ pc'[w] # "none"),
           t \in Worker => pc[t] # "none",
           t \in Thread => l \notin Clearing \cup {"initing", "create"},
           l \in {"ainit", "create", "aready", "lock"} \cup Walking => cleared \/ init_ok,
           UNCHANGED <<inited, init_ok, async_inited, cleared>>
    PROVE  OnceInv'
  <1> SUFFICES ASSUME ~cleared' PROVE OnceInv'
    BY DEF OnceInv
  <1>1. \A u \in Thread : pc'[u] \notin Clearing
    BY Values DEF OnceInv
  <1>2. \A u \in Thread : pc'[u] = "initing" => ~init_ok' /\ inited'
    BY Values DEF OnceInv
  <1>3. \A w \in Worker : pc[w] = "none" => pc'[w] = "none"
    BY Values
  <1>4. \A w \in Worker : pc'[w] # "none" => pc[w] # "none"
    BY <1>3
  <1>5. \A u \in Thread : pc'[u] = "create" => async_inited' /\ \A w \in Worker : pc'[w] = "none"
    BY <1>3, Values DEF OnceInv
  <1>6. async_inited' \/ \A w \in Worker : pc'[w] = "none"
    BY <1>3 DEF OnceInv
  <1>7. \A v, w \in Worker : pc'[v] # "none" /\ pc'[w] # "none" => v = w
    BY <1>4 DEF OnceInv
  <1>8. \A u \in Thread : pc'[u] \in {"ainit", "create", "aready", "lock"} \cup Walking => init_ok'
    BY Values DEF OnceInv
  <1>9. \A w \in Worker : pc'[w] # "none" => init_ok'
    BY <1>4 DEF OnceInv
  <1> QED
    BY <1>1, <1>2, <1>5, <1>6, <1>7, <1>8, <1>9 DEF OnceInv

\* The calls of a thread, and its steps up to the walk or the request.
LEMMA OnceCall ==
    ASSUME CallInv, OnceInv, NEW t \in Thread,
           \/ \E x \in Hook \cup Ignore : xh_core_register_check(t, x)
           \/ xh_core_register_insert(t) \/ xh_core_refresh(t) \/ xh_core_refresh_ready(t)
    PROVE  OnceInv'
  <1> USE DEF lists, inits, async, locks, walks, signals, linker, code
  <1>1. PICK l \in {"enter", "idle", "ready", "init", "lock", "aready", "ainit"} :
            Goto(t, l) /\ (l \in {"lock", "aready", "ainit"} => init_ok)
    BY DEF xh_core_register_check, xh_core_register_insert, xh_core_refresh, xh_core_refresh_ready
  <1>2. UNCHANGED <<inited, init_ok, async_inited, cleared>>
    BY DEF xh_core_register_check, xh_core_register_insert, xh_core_refresh, xh_core_refresh_ready
  <1>3. t \in Runner /\ t \notin Worker /\ pc \in [Runner -> Labels \cup WorkerLabels]
    BY Values DEF CallInv
  <1>4. /\ l \in Labels \cup WorkerLabels /\ l \notin Clearing \cup {"initing", "create"}
        /\ l \notin Walking
    BY DEF Labels, Clearing, Walking
  <1>5. pc'[t] = l /\ \A u \in Runner : u # t => pc'[u] = pc[u]
    BY <1>1, <1>3, <1>4, Moved
  <1>6. l \in {"ainit", "create", "aready", "lock"} \cup Walking => cleared \/ init_ok
    BY <1>1, <1>4
  <1> QED
    BY <1>2, <1>3, <1>4, <1>5, <1>6, Values, OnceMove

LEMMA OnceInitLock ==
    ASSUME CallInv, OnceInv, NEW t \in Thread, xh_core_init_once_lock(t)
    PROVE  OnceInv'
  <1> USE DEF xh_core_init_once_lock, lists, inits, async, locks, walks, signals, linker, code
  <1>1. t \in Runner /\ t \notin Worker /\ pc \in [Runner -> Labels \cup WorkerLabels]
    BY Values DEF CallInv
  <1>2. {"ready", "initing"} \subseteq Labels
    BY DEF Labels
  <1>3. CASE inited
    <2>1. pc'[t] = "ready" /\ \A u \in Runner : u # t => pc'[u] = pc[u]
      BY <1>1, <1>2, <1>3, Moved
    <2>2. "ready" \notin Clearing \cup Walking \cup {"initing", "create", "ainit", "aready", "lock"}
      BY DEF Clearing, Walking
    <2> QED
      BY <1>1, <1>3, <2>1, <2>2, Values, OnceMove
  <1>4. CASE ~inited
    <2>1. /\ pc'[t] = "initing" /\ \A u \in Runner : u # t => pc'[u] = pc[u]
          /\ \A u \in Thread : u # t => pc'[u] = pc[u]
          /\ \A w \in Worker : pc'[w] = pc[w]
      BY <1>1, <1>2, <1>4, Moved, Values
    <2>2. "initing" \notin Clearing \cup Walking
      BY DEF Clearing, Walking
    <2>3. inited' /\ UNCHANGED <<init_ok, async_inited, cleared>>
      BY <1>4
    <2> SUFFICES ASSUME ~cleared' PROVE OnceInv'
      BY DEF OnceInv
    <2>4. ~init_ok
      BY <1>4, <2>3 DEF OnceInv
    <2>5. \A u \in Thread : pc'[u] \notin Clearing /\ pc'[u] # "create"
                            /\ pc'[u] \notin {"ainit", "create", "aready", "lock"} \cup Walking
      BY <2>1, <2>2, <2>3, <2>4 DEF OnceInv
    <2>6. \A w \in Worker : pc'[w] = "none"
      BY <2>1, <2>3, <2>4 DEF OnceInv
    <2> QED
      BY <2>3, <2>4, <2>5, <2>6 DEF OnceInv
  <1> QED
    BY <1>3, <1>4

LEMMA OnceHandler ==
    ASSUME CallInv, OnceInv, NEW t \in Thread, xh_core_add_sigsegv_handler(t)
    PROVE  OnceInv'
  <1> USE DEF xh_core_add_sigsegv_handler, lists, inits, async, locks, walks, signals, linker, code
  <1>1. t \in Runner /\ t \notin Worker /\ pc \in [Runner -> Labels \cup WorkerLabels]
    BY Values DEF CallInv
  <1>2. "ready" \in Labels /\ "ready" \notin Clearing \cup Walking
    BY DEF Labels, Clearing, Walking
  <1>3. /\ pc'[t] = "ready" /\ \A u \in Runner : u # t => pc'[u] = pc[u]
        /\ \A u \in Thread : u # t => pc'[u] = pc[u]
        /\ \A w \in Worker : pc'[w] = pc[w]
    BY <1>1, <1>2, Moved, Values
  <1>4. \A u \in Thread : u # t => pc[u] # "initing"
    BY DEF CallInv, On
  <1>5. UNCHANGED <<inited, async_inited, cleared>> /\ pc[t] = "initing"
    BY DEF On
  <1> SUFFICES ASSUME ~cleared' PROVE OnceInv'
    BY DEF OnceInv
  <1>6. ~init_ok /\ inited
    BY <1>5 DEF OnceInv
  <1>7. \A u \in Thread : pc'[u] \notin Clearing /\ pc'[u] # "create" /\ pc'[u] # "initing"
                          /\ pc'[u] \notin {"ainit", "create", "aready", "lock"} \cup Walking
    BY <1>2, <1>3, <1>4, <1>5, <1>6 DEF OnceInv
  <1>8. \A w \in Worker : pc'[w] = "none"
    BY <1>3, <1>5, <1>6 DEF OnceInv
  <1> QED
    BY <1>5, <1>6, <1>7, <1>8 DEF OnceInv

LEMMA OnceAsyncLock ==
    ASSUME CallInv, OnceInv, NEW t \in Thread, xh_core_init_async_once_lock(t)
    PROVE  OnceInv'
  <1> USE DEF xh_core_init_async_once_lock, AsyncInited, lists, inits, async, locks, walks,
              signals, linker, code
  <1>1. t \in Runner /\ t \notin Worker /\ pc \in [Runner -> Labels \cup WorkerLabels]
    BY Values DEF CallInv
  <1>2. {"aready", "create"} \subseteq Labels
    BY DEF Labels
  <1>3. cleared \/ init_ok
    BY DEF OnceInv, On
  <1>4. CASE async_inited
    <2>1. pc'[t] = "aready" /\ \A u \in Runner : u # t => pc'[u] = pc[u]
      BY <1>1, <1>2, <1>4, Moved
    <2>2. "aready" \notin Clearing \cup {"initing", "create"}
      BY DEF Clearing, Walking
    <2> QED
      BY <1>1, <1>3, <1>4, <2>1, <2>2, Values, OnceMove
  <1>5. CASE ~async_inited
    <2>1. /\ pc'[t] = "create" /\ \A u \in Runner : u # t => pc'[u] = pc[u]
          /\ \A u \in Thread : u # t => pc'[u] = pc[u]
          /\ \A w \in Worker : pc'[w] = pc[w]
      BY <1>1, <1>2, <1>5, Moved, Values
    <2>2. "create" \notin Clearing
      BY DEF Clearing
    <2>3. async_inited' /\ UNCHANGED <<inited, init_ok, cleared>>
      BY <1>5
    <2> SUFFICES ASSUME ~cleared' PROVE OnceInv'
      BY DEF OnceInv
    <2>4. init_ok /\ \A w \in Worker : pc'[w] = "none"
      BY <1>3, <1>5, <2>1, <2>3 DEF OnceInv
    <2>5. \A u \in Thread : pc'[u] \notin Clearing /\ (pc'[u] = "initing" => ~init_ok' /\ inited')
      BY <2>1, <2>2, <2>3 DEF OnceInv
    <2>6. inited \/ ~init_ok
      BY <2>3 DEF OnceInv
    <2> QED
      BY <2>3, <2>4, <2>5, <2>6 DEF OnceInv
  <1> QED
    BY <1>4, <1>5

LEMMA OnceCreate ==
    ASSUME CallInv, OnceInv, NEW t \in Thread, xh_core_init_async_once_create(t)
    PROVE  OnceInv'
  <1> USE DEF xh_core_init_async_once_create, lists, inits, async, locks, walks, signals, linker, code
  <1>1. /\ t \in Runner /\ t \notin Worker /\ pc \in [Runner -> Labels \cup WorkerLabels]
        /\ pc[t] = "create" /\ UNCHANGED <<inited, init_ok, async_inited, cleared>>
    BY Values DEF CallInv, On
  <1>2. \A u \in Thread : u # t => pc[u] # "create"
    BY <1>1 DEF CallInv
  <1>3. "aready" \in Labels /\ "aready" \notin Clearing \cup {"initing", "create"}
    BY DEF Labels, Clearing
  <1> SUFFICES ASSUME ~cleared' PROVE OnceInv'
    BY DEF OnceInv
  <1>4. init_ok /\ inited /\ async_inited /\ \A w \in Worker : pc[w] = "none"
    BY <1>1 DEF OnceInv
  <1>5. /\ pc'[t] = "aready" /\ \A u \in Thread : u # t => pc'[u] = pc[u]
        /\ \A v, w \in Worker : pc'[v] # "none" /\ pc'[w] # "none" => v = w
    <2>1. CASE Goto(t, "aready")
      BY <1>1, <1>3, <1>4, <2>1, Moved, Values
    <2>2. CASE \E w \in Worker : pc' = [pc EXCEPT ![t] = "aready", ![w] = "loop"]
      BY <1>1, <1>4, <2>2, Values
    <2> QED
      BY <2>1, <2>2
  <1>6. \A u \in Thread : /\ pc'[u] \notin Clearing /\ pc'[u] # "create"
                          /\ (pc'[u] = "initing" => ~init_ok' /\ inited')
    BY <1>1, <1>2, <1>3, <1>5 DEF OnceInv
  <1> QED
    BY <1>1, <1>4, <1>5, <1>6 DEF OnceInv

LEMMA OnceAsync ==
    ASSUME CallInv, OnceInv, NEW t \in Thread, xh_core_refresh_async(t)
    PROVE  OnceInv'
  <1> USE DEF xh_core_refresh_async, lists, inits, async, locks, walks, signals, linker, code
  <1>1. /\ t \in Runner /\ t \notin Worker /\ FlowInv /\ "idle" \in Labels
        /\ pc \in [Runner -> Labels \cup WorkerLabels]
    BY Values, CallParts DEF CallInv, Labels
  <1>2. "idle" \notin Clearing \cup Walking
    BY DEF Clearing, Walking
  <1>3. CASE pc' = [Signalled(pc) EXCEPT ![t] = "idle"]
    <2>1. /\ pc'[t] = "idle" /\ \A u \in Thread : u # t => pc'[u] = pc[u]
          /\ \A w \in Worker : w # t => pc'[w] = pc[w] \/ (pc[w] # "none" /\ pc'[w] # "none")
      BY <1>1, <1>3, SignalMoved
    <2> QED
      BY <1>1, <1>2, <2>1, OnceMove
  <1>4. CASE Goto(t, "idle")
    <2>1. pc'[t] = "idle" /\ \A u \in Runner : u # t => pc'[u] = pc[u]
      BY <1>1, <1>4, Moved
    <2> QED
      BY <1>1, <1>2, <2>1, OnceMove, Values
  <1> QED
    BY <1>3, <1>4

\* What all steps of a walk have in common.
LEMMA WalkIs ==
    ASSUME CallInv, NEW t \in Runner, Walk(t)
    PROVE  /\ ~crashed /\ pc[t] \in Walking \cup {"lock"}
           /\ UNCHANGED <<lists, inits, async, mutex, enable, once, linker, cleared>>
           /\ \/ pc' = pc
              \/ \E l \in Walking \cup {AfterWalk(t)} : Goto(t, l)
           /\ \A u \in Thread : u # t => arg'[u] = arg[u]
  <1> USE DEF lists, inits, async, locks, walks, signals, linker, code, Walking, Fault
  <1>1. CASE refresh_begin(t) \/ refresh_end(t)
    BY <1>1 DEF refresh_begin, refresh_end, On
  <1>2. CASE \E p \in Path : refresh_line(t, p)
    BY <1>2 DEF refresh_line, On
  <1>3. CASE xh_core_check_elf_header(t)
    <2>1. Fault(t) \/ Checked(t) \/ EndHook(t)
      BY <1>3 DEF xh_core_check_elf_header
    <2> QED
      BY <1>3, <2>1 DEF xh_core_check_elf_header, Checked, EndHook, On
  <1>4. CASE xh_core_hook(t)
    BY <1>4 DEF xh_core_hook, On, HookNext, PassHook, EndHook
  <1>5. CASE xh_elf_replace_function(t)
    BY <1>5 DEF xh_elf_replace_function, On
  <1> QED
    BY <1>1, <1>2, <1>3, <1>4, <1>5 DEF Walk

LEMMA OnceWalk ==
    ASSUME CallInv, OnceInv, NEW t \in Runner, Walk(t) PROVE OnceInv'
  <1>1. /\ pc[t] \in Walking \cup {"lock"}
        /\ UNCHANGED <<inited, init_ok, async_inited, cleared>>
        /\ pc' = pc \/ \E l \in Walking \cup {AfterWalk(t)} : Goto(t, l)
    BY WalkIs DEF inits
  <1>2. CASE pc' = pc
    BY <1>1, <1>2 DEF OnceInv
  <1>3. CASE \E l \in Walking \cup {AfterWalk(t)} : Goto(t, l)
    <2>1. PICK l \in Walking \cup {AfterWalk(t)} : Goto(t, l)
      BY <1>3
    <2>2. /\ l \in Labels \cup WorkerLabels /\ l \notin Clearing \cup {"initing", "create"}
          /\ l \notin {"ainit", "aready", "lock"} /\ "none" \notin Walking \cup {"lock"}
      BY DEF Labels, WorkerLabels, Walking, Clearing, AfterWalk
    <2>3. pc'[t] = l /\ \A u \in Runner : u # t => pc'[u] = pc[u]
      BY <2>1, <2>2, Moved DEF CallInv
    <2>4. cleared \/ init_ok
      BY <1>1, <2>2, Values DEF OnceInv, Runner
    <2> QED
      BY <1>1, <2>2, <2>3, <2>4, OnceMove, Values
  <1> QED
    BY <1>1, <1>2, <1>3

LEMMA OnceWorker ==
    ASSUME CallInv, OnceInv, NEW w \in Worker, WorkerStep(w) PROVE OnceInv'
  <1> USE DEF refresh_thread_loop, refresh_thread_take, lists, inits, async, locks, walks,
              signals, linker, code
  <1>1. w \in Runner /\ w \notin Thread
    BY Values
  <1>2. CASE Walk(w)
    BY <1>1, <1>2, OnceWalk
  <1>3. CASE refresh_thread_loop(w) \/ refresh_thread_take(w)
    <2>1. PICK l \in {"take", "exited", "lock", "waiting"} : Goto(w, l)
      BY <1>3
    <2>2. l \in Labels \cup WorkerLabels /\ l # "none" /\ l \notin Walking
      BY DEF Labels, WorkerLabels, Walking
    <2>3. pc'[w] = l /\ \A u \in Runner : u # w => pc'[u] = pc[u]
      BY <1>1, <2>1, <2>2, Moved DEF CallInv
    <2>4. pc[w] # "none" /\ UNCHANGED <<inited, init_ok, async_inited, cleared>>
      BY <1>3 DEF On
    <2>5. cleared \/ init_ok
      BY <2>4 DEF OnceInv
    <2> QED
      BY <1>1, <2>2, <2>3, <2>4, <2>5, OnceMove, Values
  <1> QED
    BY <1>2, <1>3 DEF WorkerStep

\* A clear, and what touches neither flags nor labels.
LEMMA OnceClear ==
    ASSUME CallInv, OnceInv, NEW t \in Thread,
           \/ xh_core_clear(t)
           \/ clear_stop(t) \/ clear_join(t) \/ clear_joined(t) \/ clear_reset_async(t)
           \/ xh_core_del_sigsegv_handler(t) \/ clear_lock(t) \/ clear_free(t)
    PROVE  OnceInv' /\ cleared' /\ (cleared \/ xh_core_clear(t))
  <1> USE DEF xh_core_clear, clear_stop, clear_join, clear_joined, clear_reset_async,
              xh_core_del_sigsegv_handler, clear_lock, clear_free
  <1>1. CASE xh_core_clear(t)
    BY <1>1 DEF OnceInv
  <1>2. CASE ~xh_core_clear(t)
    <2>1. pc[t] \in Clearing /\ cleared' = cleared
      BY <1>2 DEF On, Clearing
    <2>2. cleared'
      BY <2>1 DEF OnceInv
    <2> QED
      BY <2>1, <2>2 DEF OnceInv
  <1> QED
    BY <1>1, <1>2

LEMMA OnceOther ==
    ASSUME OnceInv,
           \/ \E t \in Thread : xh_core_enable_sigsegv_protection(t)
           \/ program_fault
           \/ \E p \in Path : dlclose(p) \/ \E b \in At[p] : dlopen(p, b)
    PROVE  OnceInv'
  <1> USE DEF lists, inits, async, locks, walks, signals, linker, code
  <1>1. UNCHANGED <<inited, init_ok, async_inited, cleared, pc>>
    BY DEF xh_core_enable_sigsegv_protection, program_fault, dlclose, dlopen
  <1> QED
    BY <1>1 DEF OnceInv

-----------------------------------------------------------------------------
(* Steps that the walk does not notice.                                    *)

Quiet ==
    /\ Stage' = Stage
    /\ UNCHANGED <<lists, refresh_mutex, walks, linker, code>>
    /\ cleared => cleared'
    /\ crashed => crashed'
    /\ inited => inited' \/ cleared'

\* The walk stays where it is when other labels change.
LEMMA StageMoved ==
    ASSUME FlowInv, NEW t \in Runner, pc[t] \notin Inside, pc'[t] \notin Inside,
           \A u \in Thread : u # t => pc'[u] = pc[u],
           \A w \in Worker : w # t =>
               pc'[w] = pc[w] \/ (pc[w] \notin Inside /\ pc'[w] \notin Inside)
    PROVE  Stage' = Stage
  <1>1. \A u \in Runner : pc[u] \in Inside \/ pc'[u] \in Inside => pc'[u] = pc[u]
    BY DEF Runner
  <1> QED
    BY <1>1, StageStays

LEMMA StageGoto ==
    ASSUME FlowInv, NEW t \in Runner, NEW l \in (Labels \cup WorkerLabels) \ Inside,
           pc[t] \notin Inside, Goto(t, l)
    PROVE  Stage' = Stage
  <1>1. pc'[t] = l /\ \A u \in Runner : u # t => pc'[u] = pc[u]
    BY Moved DEF FlowInv
  <1> QED
    BY <1>1, StageMoved, Values

LEMMA QuietCall ==
    ASSUME CallInv, NEW t \in Thread,
           \/ \E x \in Hook \cup Ignore : xh_core_register_check(t, x)
           \/ xh_core_refresh(t) \/ xh_core_refresh_ready(t)
           \/ xh_core_init_once_lock(t) \/ xh_core_add_sigsegv_handler(t)
           \/ xh_core_init_async_once_lock(t)
    PROVE  Quiet
  <1> USE DEF xh_core_register_check, xh_core_refresh, xh_core_refresh_ready,
              xh_core_init_once_lock, xh_core_add_sigsegv_handler, xh_core_init_async_once_lock
  <1>1. pc[t] \notin Inside
    BY DEF On, Inside
  <1>2. PICK l \in {"enter", "ready", "init", "initing", "idle", "lock", "aready", "ainit", "create"} :
            Goto(t, l)
    OBVIOUS
  <1>3. l \in (Labels \cup WorkerLabels) \ Inside
    BY DEF Labels, Inside
  <1>4. Stage' = Stage
    BY <1>1, <1>2, <1>3, CallParts, Values, StageGoto
  <1>5. /\ UNCHANGED <<lists, refresh_mutex, walks, linker, code, cleared, crashed>>
        /\ inited => inited'
    BY DEF inits, locks, signals, async
  <1> QED
    BY <1>4, <1>5 DEF Quiet

LEMMA QuietCreate ==
    ASSUME CallInv, NEW t \in Thread, xh_core_init_async_once_create(t)
    PROVE  Quiet
  <1> USE DEF xh_core_init_async_once_create
  <1>1. pc[t] \notin Inside /\ "aready" \in (Labels \cup WorkerLabels) \ Inside
    BY DEF On, Inside, Labels
  <1>2. Stage' = Stage
    <2>1. CASE Goto(t, "aready")
      BY <1>1, <2>1, CallParts, Values, StageGoto
    <2>2. CASE \E w \in Worker : pc[w] = "none" /\ pc' = [pc EXCEPT ![t] = "aready", ![w] = "loop"]
      <3>1. PICK w \in Worker :
                pc[w] = "none" /\ pc' = [pc EXCEPT ![t] = "aready", ![w] = "loop"]
        BY <2>2
      <3>2. pc'[t] = "aready" /\ pc'[w] = "loop" /\ \A u \in Runner : u # t /\ u # w => pc'[u] = pc[u]
        BY <3>1, Values DEF CallInv
      <3>3. {"aready", "loop", "none"} \cap Inside = {}
        BY DEF Inside
      <3>4. \A u \in Runner : pc[u] \in Inside \/ pc'[u] \in Inside => pc'[u] = pc[u]
        BY <1>1, <3>1, <3>2, <3>3
      <3> QED
        BY <3>4, StageStays
    <2> QED
      BY <2>1, <2>2
  <1>3. UNCHANGED <<lists, refresh_mutex, walks, linker, code, cleared, crashed, inited>>
    OBVIOUS
  <1> QED
    BY <1>2, <1>3 DEF Quiet

LEMMA QuietSignal ==
    ASSUME CallInv, NEW t \in Thread, xh_core_refresh_async(t) \/ clear_stop(t)
    PROVE  Quiet
  <1> USE DEF xh_core_refresh_async, clear_stop
  <1>1. /\ pc[t] \notin Inside
        /\ {"idle", "join"} \subseteq Labels \ Inside /\ {"waiting", "take"} \cap Inside = {}
    BY DEF On, Inside, Labels
  <1>2. Stage' = Stage
    <2>1. CASE Goto(t, "idle")
      BY <1>1, <2>1, CallParts, Values, StageGoto
    <2>2. CASE \E l \in {"idle", "join"} : pc' = [Signalled(pc) EXCEPT ![t] = l]
      <3>1. PICK l \in {"idle", "join"} : pc' = [Signalled(pc) EXCEPT ![t] = l]
        BY <2>2
      <3>2. l \in Labels
        BY <1>1
      <3>3. /\ pc'[t] = l /\ \A u \in Thread : u # t => pc'[u] = pc[u]
            /\ \A w \in Worker : pc'[w] = pc[w] \/ (pc[w] = "waiting" /\ pc'[w] = "take")
        BY <3>1, <3>2, CallParts, SignalMoved
      <3> QED
        BY <1>1, <3>3, CallParts, Values, StageMoved
    <2> QED
      BY <2>1, <2>2
  <1>3. UNCHANGED <<lists, refresh_mutex, walks, linker, code, cleared, crashed, inited>>
    BY DEF inits, locks
  <1> QED
    BY <1>2, <1>3 DEF Quiet

LEMMA QuietClear ==
    ASSUME CallInv, OnceInv, NEW t \in Thread,
           \/ xh_core_clear(t) \/ clear_join(t) \/ clear_reset_async(t)
           \/ xh_core_del_sigsegv_handler(t) \/ clear_lock(t)
    PROVE  Quiet
  <1> USE DEF xh_core_clear, clear_join, clear_reset_async, xh_core_del_sigsegv_handler, clear_lock
  <1>1. pc[t] \notin Inside
    BY DEF On, Inside
  <1>2. PICK l \in {"stop", "reset_async", "joining", "reset", "free", "freeing"} : Goto(t, l)
    OBVIOUS
  <1>3. l \in (Labels \cup WorkerLabels) \ Inside
    BY DEF Labels, Inside
  <1>4. Stage' = Stage
    BY <1>1, <1>2, <1>3, CallParts, Values, StageGoto
  <1>5. cleared'
    BY OnceClear
  <1>6. UNCHANGED <<lists, refresh_mutex, walks, linker, code, crashed>>
    BY DEF inits, locks, signals
  <1> QED
    BY <1>4, <1>5, <1>6 DEF Quiet

LEMMA QuietJoined ==
    ASSUME CallInv, OnceInv, NEW t \in Thread, clear_joined(t)
    PROVE  Quiet
  <1> USE DEF clear_joined
  <1>1. pc[t] \notin Inside /\ arg[t] \in Worker /\ {"joined", "reset_async", "exited"} \cap Inside = {}
    BY DEF On, Inside, CallInv
  <1>2. Stage' = Stage
    <2>1. CASE pc[arg[t]] = "exited"
      <3>1. pc' = [pc EXCEPT ![arg[t]] = "joined", ![t] = "reset_async"]
        BY <2>1
      <3>2. /\ pc'[t] = "reset_async" /\ pc'[arg[t]] = "joined"
            /\ \A u \in Runner : u # t /\ u # arg[t] => pc'[u] = pc[u]
        BY <1>1, <3>1, Values DEF CallInv
      <3>3. \A u \in Runner : pc[u] \in Inside \/ pc'[u] \in Inside => pc'[u] = pc[u]
        BY <1>1, <2>1, <3>2
      <3> QED
        BY <3>3, StageStays
    <2>2. CASE pc' = pc
      BY <2>2, StageStays
    <2> QED
      BY <2>1, <2>2
  <1>3. cleared'
    BY OnceClear
  <1>4. UNCHANGED <<lists, refresh_mutex, walks, linker, code>> /\ ~crashed
    BY DEF inits, locks, signals, On
  <1> QED
    BY <1>2, <1>3, <1>4 DEF Quiet

LEMMA QuietWorker ==
    ASSUME CallInv, NEW w \in Worker, refresh_thread_loop(w) \/ refresh_thread_take(w)
    PROVE  Quiet
  <1> USE DEF refresh_thread_loop, refresh_thread_take
  <1>1. pc[w] \notin Inside
    BY DEF On, Inside
  <1>2. PICK l \in {"take", "exited", "lock", "waiting"} : Goto(w, l)
    OBVIOUS
  <1>3. l \in (Labels \cup WorkerLabels) \ Inside
    BY DEF Labels, WorkerLabels, Inside
  <1>4. Stage' = Stage
    BY <1>1, <1>2, <1>3, CallParts, Values, StageGoto
  <1>5. UNCHANGED <<lists, refresh_mutex, walks, linker, code, cleared, crashed, inited>>
    BY DEF inits, locks
  <1> QED
    BY <1>4, <1>5 DEF Quiet

LEMMA QuietOther ==
    ASSUME (\E t \in Thread : xh_core_enable_sigsegv_protection(t)) \/ program_fault
    PROVE  Quiet
  <1> USE DEF xh_core_enable_sigsegv_protection, program_fault
  <1>1. UNCHANGED <<lists, refresh_mutex, walks, linker, code, cleared, inited, pc>> /\ ~crashed
    BY DEF inits, locks, On
  <1>2. Stage' = Stage
    BY <1>1, StageStays
  <1> QED
    BY <1>1, <1>2 DEF Quiet

\* What the walk relies on, and leaves behind.
ElfInv == WalkInv /\ ChainInv /\ OrderInv /\ KnownInv /\ UsedInv /\ SlotInv /\ MissInv

LEMMA QuietKeeps ==
    ASSUME ElfInv, Quiet PROVE ElfInv'
  <1> USE DEF Quiet, lists, walks, linker, code
  <1>1. WalkInv'
    BY DEF ElfInv, WalkInv
  <1>2. ChainInv' /\ UsedInv'
    BY DEF ElfInv, ChainInv, UsedInv
  <1>3. OrderInv'
    BY DEF ElfInv, OrderInv, Entries
  <1>4. \A p : /\ Never(p)' <=> Never(p)
               /\ HookedElf(p)' <=> HookedElf(p)
    BY DEF Never, PathMatches, IgnoredAll, Ignored, Entries, HookedElf
  <1>5. KnownInv'
    BY <1>4 DEF ElfInv, KnownInv
  <1>6. \A p, s : Wanted(p, s)' = Wanted(p, s)
    BY DEF Wanted, IgnoredAll, Ignored, Entries
  <1>7. \A p, s : /\ Right(p, s)' <=> Right(p, s)
                  /\ \A n : Before(p, s, n)' <=> Before(p, s, n)
    BY <1>6 DEF Right, Before
  <1>8. SlotInv'
    BY <1>6, <1>7 DEF ElfInv, SlotInv
  <1>9. MissInv'
    BY DEF ElfInv, MissInv
  <1> QED
    BY <1>1, <1>2, <1>3, <1>5, <1>8, <1>9 DEF ElfInv

-----------------------------------------------------------------------------
(* The protection of the walk.                                             *)

LEMMA ProtectSame ==
    ASSUME ProtectInv, Stage' = Stage, cleared => cleared',
           UNCHANGED <<crashed, exposed, enable, init_ok, handler, flag>>
    PROVE  ProtectInv'
  BY DEF ProtectInv

LEMMA ProtectCall ==
    ASSUME CallInv, OnceInv, ProtectInv, NEW t \in Thread,
           \/ \E x \in Hook \cup Ignore : xh_core_register_check(t, x)
           \/ xh_core_refresh(t) \/ xh_core_refresh_ready(t)
           \/ xh_core_init_once_lock(t) \/ xh_core_init_async_once_lock(t)
           \/ xh_core_init_async_once_create(t) \/ xh_core_refresh_async(t)
    PROVE  ProtectInv'
  <1>1. Quiet
    BY QuietCall, QuietCreate, QuietSignal
  <1>2. UNCHANGED <<crashed, exposed, enable, init_ok, handler, flag>>
    BY DEF xh_core_register_check, xh_core_refresh, xh_core_refresh_ready,
           xh_core_init_once_lock, xh_core_init_async_once_lock, xh_core_init_async_once_create,
           xh_core_refresh_async, inits, signals
  <1> QED
    BY <1>1, <1>2, ProtectSame DEF Quiet

LEMMA ProtectInsert ==
    ASSUME CallInv, ProtectInv, NEW t \in Thread, xh_core_register_insert(t)
    PROVE  ProtectInv' /\ Stage' = Stage
  <1>1. pc[t] \notin Inside /\ "idle" \in (Labels \cup WorkerLabels) \ Inside
    BY DEF On, Inside, Labels, xh_core_register_insert
  <1>2. Stage' = Stage
    BY <1>1, CallParts, Values, StageGoto DEF xh_core_register_insert
  <1>3. UNCHANGED <<crashed, exposed, enable, init_ok, handler, flag, cleared>>
    BY DEF xh_core_register_insert, inits, signals
  <1> QED
    BY <1>2, <1>3, ProtectSame

\* The handler is in place before init_ok says so.
LEMMA ProtectHandler ==
    ASSUME CallInv, ProtectInv, NEW t \in Thread, xh_core_add_sigsegv_handler(t)
    PROVE  ProtectInv'
  <1>1. Stage' = Stage
    BY QuietCall DEF Quiet
  <1>2. UNCHANGED <<crashed, exposed, enable, flag, cleared>> /\ ~crashed
    BY DEF xh_core_add_sigsegv_handler, signals, On
  <1>3. ~exposed /\ ~cleared => enable /\ (init_ok' => handler' = "xhook")
    BY DEF ProtectInv, xh_core_add_sigsegv_handler
  <1> QED
    BY <1>1, <1>2, <1>3 DEF ProtectInv

\* A clear lifts the protection, and so do a fault of the program and the switch.
LEMMA ProtectClear ==
    ASSUME CallInv, OnceInv, ProtectInv, NEW t \in Thread,
           \/ xh_core_clear(t)
           \/ clear_stop(t) \/ clear_join(t) \/ clear_joined(t) \/ clear_reset_async(t)
           \/ xh_core_del_sigsegv_handler(t) \/ clear_lock(t) \/ clear_free(t)
    PROVE  ProtectInv'
  BY OnceClear DEF ProtectInv

LEMMA ProtectOther ==
    ASSUME ProtectInv, (\E t \in Thread : xh_core_enable_sigsegv_protection(t)) \/ program_fault
    PROVE  ProtectInv'
  BY DEF ProtectInv, xh_core_enable_sigsegv_protection, program_fault

LEMMA ProtectLinker ==
    ASSUME ProtectInv, \E p \in Path : dlclose(p) \/ \E b \in At[p] : dlopen(p, b)
    PROVE  ProtectInv' /\ Stage' = Stage
  <1>1. UNCHANGED <<pc, crashed, exposed, enable, init_ok, handler, flag, cleared>>
    BY DEF dlclose, dlopen, inits, signals
  <1>2. Stage' = Stage
    BY <1>1, StageStays
  <1> QED
    BY <1>1, <1>2, ProtectSame

LEMMA ProtectWorker ==
    ASSUME CallInv, ProtectInv, NEW w \in Worker, refresh_thread_loop(w) \/ refresh_thread_take(w)
    PROVE  ProtectInv'
  <1>1. UNCHANGED <<crashed, exposed, enable, init_ok, handler, flag, cleared>>
    BY DEF refresh_thread_loop, refresh_thread_take, inits, signals
  <1> QED
    BY <1>1, QuietWorker, ProtectSame DEF Quiet

-----------------------------------------------------------------------------
(* Where the walk is after each of its steps.                              *)

LEMMA StageAfter ==
    ASSUME CallInv, NEW t \in Runner, pc[t] \in Walking, NEW l \in Walking, Goto(t, l)
    PROVE  Stage' = l
  <1>1. \A u \in Runner : u # t => pc[u] \notin Walking
    BY StageOf
  <1>2. l \in Labels \cup WorkerLabels
    BY DEF Walking, Labels
  <1>3. pc'[t] = l /\ \A u \in Runner : u # t => pc'[u] = pc[u]
    BY <1>2, Moved DEF CallInv
  <1>4. \A k \in Walking : Phase(k)' <=> k = l
    BY <1>1, <1>3 DEF Phase
  <1> QED
    BY <1>4 DEF Stage, Walking

LEMMA StageBegin ==
    ASSUME CallInv, NEW t \in Runner, refresh_begin(t)
    PROVE  Stage = "scan" /\ Stage' = "scan"
  <1>1. Stage = "scan" /\ pc[t] \notin Inside
    BY NoStage DEF refresh_begin, On, Inside
  <1>2. PICK l \in {"scan", "idle", "loop"} : Goto(t, l)
    BY DEF refresh_begin, AfterWalk
  <1>3. l \in (Labels \cup WorkerLabels) \ Inside
    BY DEF Labels, WorkerLabels, Inside
  <1> QED
    BY <1>1, <1>2, <1>3, CallParts, StageGoto

LEMMA StageEnd ==
    ASSUME CallInv, NEW t \in Runner, refresh_end(t)
    PROVE  Stage = "scan" /\ Stage' = "scan" /\ refresh_mutex = t
  <1>1. Stage = "scan" /\ pc[t] \notin Inside /\ refresh_mutex = t
    BY StageOf DEF refresh_end, On, Inside, Walking
  <1>2. PICK l \in {"idle", "loop"} : Goto(t, l)
    BY DEF refresh_end, AfterWalk
  <1>3. l \in (Labels \cup WorkerLabels) \ Inside
    BY DEF Labels, WorkerLabels, Inside
  <1> QED
    BY <1>1, <1>2, <1>3, CallParts, StageGoto

-----------------------------------------------------------------------------
(* The walk.  Every lemma is about one of its steps, given by what it does *)
(* to the variables that ElfInv is about.                                  *)

LEMMA ListsSame ==
    ASSUME UNCHANGED lists
    PROVE  \A p : (Never(p)' <=> Never(p)) /\ (PathMatches(p)' <=> PathMatches(p))
  BY DEF lists, Never, PathMatches, IgnoredAll, Ignored, Entries

LEMMA WantedSame ==
    ASSUME UNCHANGED lists, NEW p, missed'[p] = missed[p]
    PROVE  \A s : Wanted(p, s)' = Wanted(p, s)
  BY DEF lists, Wanted, IgnoredAll, Ignored, Entries

LEMMA HookedSame ==
    ASSUME UNCHANGED <<slot, mapped>>
    PROVE  \A p : HookedElf(p)' <=> HookedElf(p)
  BY DEF HookedElf

LEMMA SlotSame ==
    ASSUME UNCHANGED <<lists, slot>>, NEW p, missed'[p] = missed[p]
    PROVE  /\ \A s : Right(p, s)' <=> Right(p, s)
           /\ \A s, n : Before(p, s, n)' <=> Before(p, s, n)
  <1>1. \A s : Wanted(p, s)' = Wanted(p, s)
    BY WantedSame
  <1> QED
    BY <1>1 DEF Right, Before, lists

LEMMA SlotsSame ==
    ASSUME UNCHANGED <<lists, missed, slot, mapped>>
    PROVE  /\ \A p : HookedElf(p)' <=> HookedElf(p)
           /\ \A p, s : Right(p, s)' <=> Right(p, s)
           /\ \A p, s, n : Before(p, s, n)' <=> Before(p, s, n)
  BY HookedSame, SlotSame

LEMMA MissOutside ==
    ASSUME cleared' \/ crashed' \/ Stage' \notin {"hook", "replace"}
    PROVE  MissInv'
  BY DEF MissInv

\* The walk begins.
LEMMA ElfBegin ==
    ASSUME CallInv, OnceInv, ElfInv, NEW t \in Runner, refresh_begin(t)
    PROVE  ElfInv'
  <1> USE DEF refresh_begin, lists, inits, async, locks, walks, signals, linker, code
  <1>1. Stage = "scan" /\ Stage' = "scan"
    BY StageBegin
  <1>2. CASE UNCHANGED <<refresh_mutex, walk>>
    <2>1. Quiet
      BY <1>1, <1>2 DEF Quiet
    <2> QED
      BY <2>1, QuietKeeps
  <1>3. CASE refresh_mutex' = t /\ walk' = [NoWalk EXCEPT !.todo = Path]
    <2>1. /\ walk'.todo = Path /\ walk'.path = None /\ walk'.next = 1
          /\ \A p \in Path : walk'.refreshed[p] = None
      BY <1>3, NoWalkIs
    <2>2. /\ UNCHANGED <<lists, map_info, missed, linker, code, cleared, crashed, inited>>
          /\ ~crashed /\ refresh_mutex = None /\ t # None
      BY Values DEF On
    <2>3. WalkInv' /\ ChainInv' /\ OrderInv'
      BY <1>1, <2>1, <2>2 DEF ElfInv, WalkInv, ChainInv, OrderInv, Inside, Entries
    <2>4. KnownInv'
      BY <1>1, <1>3, <2>1, <2>2, ListsSame, SlotsSame DEF ElfInv, KnownInv
    <2>5. UsedInv'
      BY <1>1, <2>1, <2>2, Values DEF ElfInv, UsedInv
    <2>6. cleared \/ inited
      BY Values DEF OnceInv, On, Runner
    <2>7. SlotInv'
      BY <1>1, <2>1, <2>2, <2>6, SlotsSame DEF ElfInv, SlotInv
    <2>8. MissInv'
      BY <1>1, MissOutside
    <2> QED
      BY <2>3, <2>4, <2>5, <2>7, <2>8 DEF ElfInv
  <1> QED
    BY <1>2, <1>3

\* It ends.
LEMMA ElfEnd ==
    ASSUME CallInv, ElfInv, NEW t \in Runner, refresh_end(t)
    PROVE  ElfInv'
  <1> USE DEF refresh_end, lists, inits, async, locks, walks, signals, linker, code
  <1>1. Stage = "scan" /\ Stage' = "scan" /\ refresh_mutex = t /\ t # None
    BY StageEnd, Values
  <1>2. /\ walk'.todo = {} /\ walk'.path = None /\ walk'.next = 1
        /\ \A p \in Path : walk'.refreshed[p] = None
    BY NoWalkIs
  <1>3. /\ UNCHANGED <<lists, missed, linker, code, cleared, crashed, inited>>
        /\ ~crashed /\ refresh_mutex' = None /\ map_info' = walk.refreshed /\ walk.todo = {}
    BY DEF On
  <1>4. WalkInv' /\ ChainInv' /\ OrderInv'
    BY <1>1, <1>2, <1>3 DEF ElfInv, WalkInv, ChainInv, OrderInv, Inside, Entries
  <1>5. KnownInv'
    BY <1>1, <1>2, <1>3, ListsSame, SlotsSame DEF ElfInv, KnownInv
  <1>6. UsedInv'
    BY <1>1, <1>2, <1>3, Values DEF ElfInv, UsedInv
  <1>7. SlotInv'
    BY <1>1, <1>2, <1>3, SlotsSame DEF ElfInv, SlotInv
  <1>8. MissInv'
    BY <1>1, MissOutside
  <1> QED
    BY <1>4, <1>5, <1>6, <1>7, <1>8 DEF ElfInv

\* It reads a line, and takes the ELF up or leaves it.
LEMMA ElfLine ==
    ASSUME CallInv, ElfInv, NEW t \in Runner, NEW p \in Path, refresh_line(t, p)
    PROVE  ElfInv'
  <1> USE DEF refresh_line, lists, inits, async, locks, walks, signals, linker, code
  <1>1. /\ pc[t] = "scan" /\ pc[t] \in Walking /\ "header" \in Walking /\ walk \in WalkType
        /\ ~crashed /\ p \in walk.todo
        /\ UNCHANGED <<lists, map_info, missed, linker, code, cleared, crashed, inited, refresh_mutex>>
    BY CallParts DEF On, Walking, WalkType, DataInv
  <1>2. Stage = "scan" /\ refresh_mutex = t /\ t # None
    BY <1>1, StageOf, Values
  <1>3. CASE mapped[p] # None /\ PathMatches(p)
    <2>1. Stage' = "header"
      BY <1>1, <1>3, StageAfter
    <2>2. mapped[p] \in Base /\ mapped[p] \in used[p]
      BY <1>3, CallParts DEF DataInv, ElfInv, UsedInv
    <2>3. /\ walk'.todo = walk.todo \ {p} /\ walk'.path = p
          /\ walk'.base = mapped[p] /\ walk'.next = walk.next /\ walk'.refreshed = walk.refreshed
      BY <1>1, <1>3, <2>2, LineTaken
    <2>4. WalkInv' /\ ChainInv' /\ OrderInv'
      BY <1>1, <1>2, <2>1, <2>2, <2>3 DEF ElfInv, WalkInv, ChainInv, OrderInv, Inside, Entries
    <2>5. ~Never(p)
      BY <1>3 DEF Never
    <2>6. KnownInv'
      BY <1>1, <1>2, <2>1, <2>3, <2>5, ListsSame, SlotsSame DEF ElfInv, KnownInv
    <2>7. UsedInv'
      BY <1>1, <2>2, <2>3 DEF ElfInv, UsedInv
    <2>8. SlotInv'
      BY <1>1, <1>2, <2>1, <2>3, SlotsSame DEF ElfInv, SlotInv
    <2>9. MissInv'
      BY <2>1, MissOutside
    <2> QED
      BY <2>4, <2>6, <2>7, <2>8, <2>9 DEF ElfInv
  <1>4. CASE ~(mapped[p] # None /\ PathMatches(p))
    <2>1. Stage' = "scan"
      BY <1>2, <1>4, StageStays
    <2>2. /\ walk'.todo = walk.todo \ {p} /\ walk'.path = walk.path
          /\ walk'.base = walk.base /\ walk'.next = walk.next /\ walk'.refreshed = walk.refreshed
      BY <1>1, <1>4, LineLeft
    <2>3. WalkInv' /\ ChainInv' /\ OrderInv'
      BY <1>1, <1>2, <2>1, <2>2 DEF ElfInv, WalkInv, ChainInv, OrderInv, Inside, Entries
    <2>4. ~cleared /\ HookedElf(p) => Never(p)
      <3>1. SUFFICES ASSUME ~cleared, HookedElf(p) PROVE Never(p)
        OBVIOUS
      <3>2. PICK s \in Symbol : slot[p][s] \in Hook
        BY <3>1 DEF HookedElf
      <3>3. \E i \in 1..Len(hook_info) : p \in Match[hook_info[i]]
        BY <3>1, <3>2 DEF ElfInv, OrderInv, Entries
      <3> QED
        BY <1>4, <3>1, <3>3 DEF Never, HookedElf
    <2>5. KnownInv'
      BY <1>1, <1>2, <2>1, <2>2, <2>4, ListsSame, SlotsSame DEF ElfInv, KnownInv
    <2>6. UsedInv'
      BY <1>1, <2>2 DEF ElfInv, UsedInv
    <2>7. SlotInv'
      BY <1>1, <1>2, <2>1, <2>2, SlotsSame DEF ElfInv, SlotInv
    <2>8. MissInv'
      BY <2>1, MissOutside
    <2> QED
      BY <2>3, <2>5, <2>6, <2>7, <2>8 DEF ElfInv
  <1> QED
    BY <1>3, <1>4

\* It faults: the ELF has gone, or its tables are bad.
LEMMA ElfFault ==
    ASSUME CallInv, ElfInv, ~crashed, NEW t \in Runner, pc[t] \in Inside, Fault(t),
           Gone \/ (pc[t] = "hook" /\ walk.path \in Faulty),
           UNCHANGED <<lists, inits, async, locks, linker, arg, cleared>>
    PROVE  ElfInv'
  <1> USE DEF Fault, lists, inits, async, locks, walks, signals, linker, code
  <1>1. /\ pc[t] \in Walking /\ "scan" \in Walking /\ walk \in WalkType
        /\ UNCHANGED <<lists, map_info, missed, linker, code, cleared, inited, refresh_mutex>>
    BY CallParts DEF Inside, Walking, WalkType, DataInv
  <1>2. Stage = pc[t] /\ refresh_mutex = t /\ t # None
    BY <1>1, StageOf, Values
  <1>3. /\ walk.path \in Path \ walk.todo
        /\ Stage # "header" => walk.refreshed[walk.path] = walk.base
    BY <1>2 DEF ElfInv, WalkInv, Inside
  <1>4. /\ walk'.todo = walk.todo /\ walk'.path = None /\ walk'.base = None /\ walk'.next = 1
        /\ walk'.refreshed = walk.refreshed
    BY <1>1, ElfEnded
  <1>5. ChainInv' /\ UsedInv'
    BY <1>1, <1>4, Values DEF ElfInv, ChainInv, UsedInv
  <1>6. CASE handler = "xhook" /\ flag
    <2>1. Stage' = "scan" /\ ~crashed'
      BY <1>1, <1>6, StageAfter
    <2>2. WalkInv' /\ OrderInv'
      BY <1>1, <1>4, <2>1 DEF ElfInv, WalkInv, OrderInv, Inside, Entries
    <2>3. KnownInv'
      BY <1>1, <1>2, <1>3, <1>4, <2>1, ListsSame, SlotsSame DEF ElfInv, KnownInv, Gone
    <2>4. SlotInv'
      BY <1>1, <1>2, <1>3, <1>4, <2>1, SlotsSame DEF ElfInv, SlotInv, Gone, Inside
    <2>5. MissInv'
      BY <2>1, MissOutside
    <2> QED
      BY <1>5, <2>2, <2>3, <2>4, <2>5 DEF ElfInv
  <1>7. CASE ~(handler = "xhook" /\ flag)
    <2>1. crashed'
      BY <1>7
    <2>2. WalkInv' /\ OrderInv' /\ KnownInv' /\ SlotInv'
      BY <1>1, <2>1 DEF ElfInv, WalkInv, OrderInv, KnownInv, SlotInv, Entries
    <2>3. MissInv'
      BY <2>1, MissOutside
    <2> QED
      BY <1>5, <2>2, <2>3 DEF ElfInv
  <1> QED
    BY <1>6, <1>7

\* It checks the header, and passes on if it knows the ELF.
LEMMA ElfHeader ==
    ASSUME CallInv, ElfInv, NEW t \in Runner, xh_core_check_elf_header(t)
    PROVE  ElfInv'
  <1>1. /\ pc[t] = "header" /\ pc[t] \in Walking /\ pc[t] \in Inside /\ walk \in WalkType /\ ~crashed
        /\ {"scan", "hook"} \subseteq Walking
    BY CallParts DEF On, Inside, Walking, WalkType, DataInv, xh_core_check_elf_header
  <1>2. Stage = "header" /\ refresh_mutex = t /\ t # None
    BY <1>1, StageOf, Values
  <1>3. /\ walk.path \in Path \ walk.todo /\ walk.base \in Base /\ walk.next = 1
        /\ walk.base \in used[walk.path]
    BY <1>1, <1>2 DEF ElfInv, WalkInv, UsedInv, Inside
  <1>4. CASE Gone
    BY <1>1, <1>4, ElfFault DEF xh_core_check_elf_header
  <1>5. CASE ~Gone /\ Checked(t)
    <2>1. /\ Checked(t)
          /\ UNCHANGED <<lists, map_info, linker, code, cleared, crashed, inited, refresh_mutex>>
      BY <1>5 DEF xh_core_check_elf_header, Checked, inits, locks
    <2> USE DEF lists, linker, code
    <2>2. mapped[walk.path] = walk.base /\ walk.base # None
      BY <1>3, <1>5, Values DEF Gone
    <2>3. /\ walk'.todo = walk.todo /\ walk'.next = 1
          /\ walk'.refreshed[walk.path] = walk.base
          /\ \A p \in Path : p # walk.path => walk'.refreshed[p] = walk.refreshed[p]
          /\ map_info[walk.path] = walk.base => walk'.path = None /\ walk'.base = None
          /\ map_info[walk.path] # walk.base => walk'.path = walk.path /\ walk'.base = walk.base
      BY <1>1, <1>3, <2>1, CheckedWalk
    <2>4. ChainInv' /\ UsedInv'
      BY <1>3, <2>1, <2>3, Values DEF ElfInv, ChainInv, UsedInv
    <2>5. CASE map_info[walk.path] = walk.base
      <3>1. Goto(t, "scan") /\ missed' = missed
        BY <1>1, <1>3, <2>1, <2>5, CallParts DEF Checked, KnownBase, DataInv
      <3>2. Stage' = "scan"
        BY <1>1, <3>1, StageAfter
      <3>3. WalkInv' /\ OrderInv'
        BY <2>1, <2>3, <3>2 DEF ElfInv, WalkInv, OrderInv, Inside, Entries
      <3>4. KnownInv'
        BY <1>1, <1>2, <1>3, <2>1, <2>2, <2>3, <2>5, <3>2, ListsSame, HookedSame DEF ElfInv, KnownInv
      <3>5. SlotInv'
        BY <1>1, <1>2, <1>3, <2>1, <2>2, <2>3, <2>5, <3>1, <3>2, SlotsSame DEF ElfInv, SlotInv
      <3>6. MissInv'
        BY <3>2, MissOutside
      <3> QED
        BY <2>4, <3>3, <3>4, <3>5, <3>6 DEF ElfInv
    <2>6. CASE map_info[walk.path] # walk.base
      <3>1. Goto(t, "hook")
        BY <2>1, <2>6 DEF Checked, KnownBase
      <3>2. Stage' = "hook"
        BY <1>1, <3>1, StageAfter
      <3>3. ~cleared => \A s \in Symbol : slot[walk.path][s] \notin Hook
        BY <1>1, <1>2, <1>3, <2>2, <2>6 DEF ElfInv, KnownInv, HookedElf
      <3>4. WalkInv'
        BY <1>2, <1>3, <2>1, <2>3, <2>6, <3>2 DEF ElfInv, WalkInv, Inside
      <3>5. OrderInv'
        BY <2>1, <2>3, <2>6, <3>2, <3>3 DEF ElfInv, OrderInv, Entries
      <3>6. KnownInv'
        BY <1>1, <1>2, <1>3, <2>1, <2>2, <2>3, <2>6, <3>2, ListsSame, HookedSame
           DEF ElfInv, KnownInv
      <3>7. /\ missed'[walk.path] = {}
            /\ \A p \in Path : p # walk.path => missed'[p] = missed[p]
        BY <1>3, <2>1, <2>6, CallParts DEF Checked, KnownBase, DataInv
      <3>8. \A p \in Path : p # walk.path =>
                /\ \A s : Right(p, s)' <=> Right(p, s)
                /\ \A s, n : Before(p, s, n)' <=> Before(p, s, n)
        BY <2>1, <3>7, SlotSame
      <3>9. PICK q \in Path : q = walk.path
        BY <1>3
      <3>10. ~cleared => \A s \in Symbol : Before(q, s, 1)'
        <4>1. \A s \in Symbol : slot[q][s] \in Hook \cup {Orig}
          BY <3>9, CallParts DEF DataInv
        <4>2. \A s \in Symbol : \A j \in Wanted(q, s)' : j >= 1
          BY DEF Wanted
        <4> QED
          BY <2>1, <3>3, <3>9, <4>1, <4>2 DEF Before
      <3>11. SlotInv'
        BY <1>1, <1>2, <1>3, <2>1, <2>2, <2>3, <2>6, <3>2, <3>8, <3>9, <3>10 DEF ElfInv, SlotInv
      <3>12. MissInv'
        BY <2>3, <2>6, <3>7 DEF MissInv
      <3> QED
        BY <2>4, <3>4, <3>5, <3>6, <3>11, <3>12 DEF ElfInv
    <2> QED
      BY <2>5, <2>6
  <1>6. CASE ~Gone /\ map_info[walk.path] = None /\ EndHook(t)
    <2>1. /\ Goto(t, "scan") /\ walk' = EndElf
          /\ UNCHANGED <<lists, map_info, missed, linker, code, cleared, crashed, inited,
                         refresh_mutex>>
      BY <1>6 DEF xh_core_check_elf_header, EndHook, inits, locks
    <2> USE DEF lists, linker, code
    <2>2. Stage' = "scan"
      BY <1>1, <2>1, StageAfter
    <2>3. /\ walk'.todo = walk.todo /\ walk'.path = None /\ walk'.base = None /\ walk'.next = 1
          /\ walk'.refreshed = walk.refreshed
      BY <1>1, <2>1, ElfEnded
    <2>4. ChainInv' /\ UsedInv' /\ WalkInv' /\ OrderInv'
      BY <2>1, <2>2, <2>3, Values DEF ElfInv, ChainInv, UsedInv, WalkInv, OrderInv, Inside, Entries
    <2>5. KnownInv'
      BY <1>1, <1>2, <1>3, <1>6, <2>1, <2>2, <2>3, ListsSame, HookedSame
         DEF ElfInv, KnownInv, HookedElf
    <2>6. SlotInv'
      BY <1>2, <2>1, <2>2, <2>3, SlotsSame DEF ElfInv, SlotInv
    <2>7. MissInv'
      BY <2>2, MissOutside
    <2> QED
      BY <2>4, <2>5, <2>6, <2>7 DEF ElfInv
  <1> QED
    BY <1>4, <1>5, <1>6 DEF xh_core_check_elf_header

\* Behind the last hook, or in an ELF that is ignored, nothing is left to do.
LEMMA BeforeAll ==
    ASSUME DataInv, NEW p \in Path, NEW s \in Symbol, NEW n \in Nat, Before(p, s, n),
           n > Len(hook_info) \/ IgnoredAll(p)
    PROVE  Right(p, s)
  <1>1. Wanted(p, s) \subseteq 1..Len(hook_info) /\ Len(hook_info) \in Nat
    BY DEF Wanted, DataInv
  <1>2. CASE n > Len(hook_info)
    <2>1. \A j \in Wanted(p, s) : j < n
      BY <1>1, <1>2
    <2>2. (\A j \in Wanted(p, s) : j >= n) => Wanted(p, s) = {}
      BY <1>1, <1>2
    <2> QED
      BY <2>1, <2>2 DEF Before, Right
  <1>3. CASE IgnoredAll(p)
    <2>1. Wanted(p, s) = {}
      BY <1>3 DEF Wanted
    <2> QED
      BY <2>1 DEF Before, Right
  <1> QED
    BY <1>2, <1>3

\* A hook that is not wanted in the slot is passed by.
LEMMA BeforeNext ==
    ASSUME DataInv, NEW p \in Path, NEW s \in Symbol, NEW n \in Nat, Before(p, s, n),
           n \in Wanted(p, s) => slot[p][s] = hook_info[n]
    PROVE  Before(p, s, n + 1)
  <1>1. Wanted(p, s) \subseteq Nat
    BY DEF Wanted, DataInv
  <1>2. CASE n \in Wanted(p, s)
    BY <1>1, <1>2 DEF Before
  <1>3. CASE n \notin Wanted(p, s)
    <2>1. \A j \in Wanted(p, s) : (j >= n => j >= n + 1) /\ (j < n + 1 => j < n)
      BY <1>1, <1>3
    <2> QED
      BY <2>1 DEF Before
  <1> QED
    BY <1>2, <1>3

\* A hook whose replacement fails is not wanted any more.
LEMMA BeforeMissed ==
    ASSUME DataInv, NEW p \in Path, NEW s \in Symbol, NEW n \in Nat, Before(p, s, n),
           UNCHANGED <<lists, slot>>, NEW h, h = hook_info[n], slot[p][SymOf[h]] # h,
           missed'[p] = missed[p] \cup {h}
    PROVE  Before(p, s, n + 1)'
  <1>1. \A i : i \in Wanted(p, s)' <=> i \in Wanted(p, s) /\ hook_info[i] # h
    BY DEF Wanted, IgnoredAll, Ignored, Entries, lists
  <1>2. Wanted(p, s) \subseteq Nat
    BY DEF Wanted, DataInv
  <1>3. \A i \in Wanted(p, s) : slot[p][s] = hook_info[i] => i \in Wanted(p, s)'
    BY <1>1 DEF Wanted
  <1>4. \A j \in Wanted(p, s)' : /\ j \in Wanted(p, s)
                                 /\ j >= n => j >= n + 1
                                 /\ j < n + 1 => j < n
    BY <1>1, <1>2
  <1> QED
    BY <1>3, <1>4 DEF Before, lists

\* The walk goes through the hooks: the ELF is done.
LEMMA ElfDone ==
    ASSUME CallInv, ElfInv, NEW t \in Runner, ~crashed, pc[t] = "hook", Goto(t, "scan"),
           walk' = EndElf, ~Gone,
           walk.path \in Faulty \/ walk.next > Len(hook_info) \/ IgnoredAll(walk.path),
           UNCHANGED <<lists, map_info, missed, linker, code, cleared, crashed, inited,
                       refresh_mutex>>
    PROVE  ElfInv'
  <1> USE DEF lists, linker, code
  <1>1. pc[t] \in Walking /\ "scan" \in Walking /\ walk \in WalkType /\ DataInv /\ walk.next \in Nat
    BY CallParts DEF Walking, WalkType, DataInv
  <1>2. Stage = "hook" /\ refresh_mutex = t /\ t # None /\ Stage' = "scan"
    BY <1>1, StageOf, StageAfter, Values
  <1>3. /\ walk.path \in Path \ walk.todo
        /\ walk.refreshed[walk.path] = walk.base /\ mapped[walk.path] = walk.base
    BY <1>2 DEF ElfInv, WalkInv, Inside, Gone
  <1>4. /\ walk'.todo = walk.todo /\ walk'.path = None /\ walk'.base = None /\ walk'.next = 1
        /\ walk'.refreshed = walk.refreshed
    BY <1>1, ElfEnded
  <1>5. ChainInv' /\ UsedInv' /\ WalkInv' /\ OrderInv'
    BY <1>2, <1>4, Values DEF ElfInv, ChainInv, UsedInv, WalkInv, OrderInv, Inside, Entries
  <1>6. KnownInv'
    BY <1>2, <1>3, <1>4, ListsSame, SlotsSame DEF ElfInv, KnownInv
  <1>7. walk.path \notin Faulty => \A s \in Symbol : Before(walk.path, s, walk.next) => Right(walk.path, s)
    BY <1>1, <1>3, BeforeAll
  <1>8. SlotInv'
    BY <1>2, <1>3, <1>4, <1>7, SlotsSame DEF ElfInv, SlotInv
  <1>9. MissInv'
    BY <1>2, MissOutside
  <1> QED
    BY <1>5, <1>6, <1>8, <1>9 DEF ElfInv

\* A hook is not for this ELF, is there already, or its replacement fails.
LEMMA ElfPass ==
    ASSUME CallInv, ElfInv, NEW t \in Runner, ~crashed, pc[t] = "hook", pc' = pc,
           walk' = [walk EXCEPT !.next = @ + 1], ~Gone, walk.next <= Len(hook_info),
           missed' = IF Due(walk.path, hook_info[walk.next])
                     THEN [missed EXCEPT ![walk.path] = @ \cup {hook_info[walk.next]}]
                     ELSE missed,
           UNCHANGED <<lists, map_info, linker, code, cleared, crashed, inited, refresh_mutex>>
    PROVE  ElfInv'
  <1> USE DEF lists, linker, code
  <1>1. pc[t] \in Walking /\ walk \in WalkType /\ DataInv /\ walk.next \in Nat
    BY CallParts DEF Walking, WalkType, DataInv
  <1>2. Stage = "hook" /\ refresh_mutex = t /\ t # None /\ Stage' = "hook"
    BY <1>1, StageOf, StageStays, Values
  <1>3. /\ walk.path \in Path \ walk.todo /\ walk.base \in Base
        /\ walk.refreshed[walk.path] = walk.base /\ mapped[walk.path] = walk.base
        /\ map_info[walk.path] # walk.base
    BY <1>2 DEF ElfInv, WalkInv, Inside, Gone
  <1>4. /\ walk'.todo = walk.todo /\ walk'.path = walk.path /\ walk'.base = walk.base
        /\ walk'.next = walk.next + 1 /\ walk'.refreshed = walk.refreshed
    BY <1>1, HookPassed
  <1>5. ChainInv' /\ UsedInv' /\ WalkInv'
    BY <1>2, <1>3, <1>4, Values DEF ElfInv, ChainInv, UsedInv, WalkInv, Inside
  <1>6. OrderInv'
    <2>1. \A j \in 1..Len(hook_info) : j < walk.next => j < walk'.next
      BY <1>1, <1>4
    <2> QED
      BY <1>2, <1>4, <2>1 DEF ElfInv, OrderInv, Entries
  <1>7. KnownInv'
    BY <1>2, <1>3, <1>4, ListsSame, HookedSame DEF ElfInv, KnownInv
  <1>8. PICK q \in Path, n \in Nat : q = walk.path /\ n = walk.next
    BY <1>1, <1>3
  <1>9. \A s \in Symbol : Before(q, s, n) => Before(q, s, n + 1)'
    <2>1. CASE ~Due(walk.path, hook_info[walk.next])
      <3>1. \A s \in Symbol : n \in Wanted(q, s) => slot[q][s] = hook_info[n]
        BY <1>8, <2>1 DEF Wanted, Due
      <3>2. missed' = missed
        BY <2>1
      <3>3. \A s \in Symbol : Before(q, s, n) => Before(q, s, n + 1)
        BY <1>1, <3>1, BeforeNext
      <3> QED
        BY <3>2, <3>3, SlotsSame
    <2>2. CASE Due(walk.path, hook_info[walk.next])
      <3>1. missed'[q] = missed[q] \cup {hook_info[n]}
        BY <1>1, <1>8, <2>2 DEF DataInv
      <3>2. slot[q][SymOf[hook_info[n]]] # hook_info[n]
        BY <1>8, <2>2 DEF Due
      <3> QED
        BY <1>1, <3>1, <3>2, BeforeMissed
    <2> QED
      BY <2>1, <2>2
  <1>10. \A p \in Path : \A s : p # q => (Right(p, s)' <=> Right(p, s))
    <2>1. \A p \in Path : p # q => missed'[p] = missed[p]
      BY <1>1, <1>8 DEF DataInv
    <2> QED
      BY <2>1, SlotSame
  <1>11. SlotInv'
    <2>1. walk'.next = n + 1
      BY <1>4, <1>8
    <2> SUFFICES ASSUME ~cleared PROVE SlotInv'
      BY DEF SlotInv
    <2>2. \A p \in Path \ Faulty : (mapped[p] # None /\ fresh[p]) => \A s \in Symbol :
               /\ map_info[p] = mapped[p] => Right(p, s)'
               /\ /\ refresh_mutex # None /\ walk'.refreshed[p] = mapped[p]
                  /\ ~(Stage' \in {"hook", "replace"} /\ walk'.path = p)
                  => Right(p, s)'
               /\ Stage' \in {"hook", "replace"} /\ walk'.path = p /\ walk'.base = mapped[p] =>
                      Before(p, s, n + 1)'
      BY <1>2, <1>3, <1>4, <1>8, <1>9, <1>10 DEF ElfInv, SlotInv
    <2>3. inited \/ (refresh_mutex = None /\ \A p \in Path : map_info[p] = None)
      BY DEF ElfInv, SlotInv
    <2> QED
      BY <1>2, <2>1, <2>2, <2>3 DEF SlotInv
  <1>12. MissInv'
    <2>1. \A h \in missed'[walk.path] : h \in missed[walk.path] \/ h = hook_info[walk.next]
      BY <1>1, <1>3 DEF DataInv
    <2>2. /\ walk.next \in 1..Len(hook_info) /\ walk.next < walk'.next
          /\ \A j \in 1..Len(hook_info) : j < walk.next => j < walk'.next
      BY <1>1, <1>4 DEF DataInv
    <2> QED
      BY <1>2, <1>4, <2>1, <2>2 DEF ElfInv, MissInv
  <1> QED
    BY <1>5, <1>6, <1>7, <1>11, <1>12 DEF ElfInv

\* The old function of the next hook is stored.
LEMMA ElfStore ==
    ASSUME CallInv, ListInv, ElfInv, NEW t \in Runner, ~crashed, pc[t] = "hook", Goto(t, "replace"),
           walk' = walk, slot' = slot, ~Gone, walk.next <= Len(hook_info),
           walk.path \notin Faulty, ~IgnoredAll(walk.path),
           walk.path \in Match[hook_info[walk.next]],
           ~Ignored(walk.path, SymOf[hook_info[walk.next]]),
           slot[walk.path][SymOf[hook_info[walk.next]]] # hook_info[walk.next],
           old' = [old EXCEPT ![hook_info[walk.next]] =
                       slot[walk.path][SymOf[hook_info[walk.next]]]],
           UNCHANGED <<lists, map_info, missed, linker, cleared, crashed, inited, refresh_mutex>>
    PROVE  ElfInv'
  <1> USE DEF lists, linker
  <1>1. /\ pc[t] \in Walking /\ "replace" \in Walking /\ DataInv
        /\ old \in [Hook -> Hook \cup {Orig, None}]
    BY CallParts DEF Walking, DataInv
  <1>2. Stage = "hook" /\ refresh_mutex = t /\ t # None /\ Stage' = "replace"
    BY <1>1, StageOf, StageAfter, Values
  <1>3. /\ walk.path \in Path \ walk.todo /\ walk.base \in Base
        /\ walk.refreshed[walk.path] = walk.base /\ mapped[walk.path] = walk.base
        /\ map_info[walk.path] # walk.base
    BY <1>2 DEF ElfInv, WalkInv, Inside, Gone
  <1>4. PICK h \in Hook : h = hook_info[walk.next] /\ walk.next \in 1..Len(hook_info)
    BY <1>1, <1>3, NextHook
  <1>5. PICK k : /\ k = slot[walk.path][SymOf[h]] /\ k \in Hook \cup {Orig} /\ k # h
                 /\ SymOf[h] \in Symbol
    BY <1>1, <1>3, <1>4, NextHook
  <1>6. old'[h] = k /\ \A g \in Hook : g # h => old'[g] = old[g]
    BY <1>1, <1>4, <1>5
  <1>7. k \in Hook => old[k] # None
    BY <1>3, <1>5 DEF ElfInv, ChainInv
  <1>8. k # None
    BY <1>5, Values
  <1>9. WalkInv'
    BY <1>2, <1>3, <1>4, <1>6, <1>8, Values DEF ElfInv, WalkInv, Inside
  <1>10. ChainInv'
    <2>1. \A p \in Path, s \in Symbol : slot'[p][s] \in Hook => old'[slot'[p][s]] # None
      BY <1>6, <1>8 DEF ElfInv, ChainInv
    <2>2. \A g \in Hook : old'[g] \in Hook => old'[old'[g]] # None
      BY <1>5, <1>6, <1>7, <1>8 DEF ElfInv, ChainInv
    <2> QED
      BY <2>1, <2>2 DEF ChainInv
  <1>11. OrderInv'
    <2> SUFFICES ASSUME ~cleared PROVE OrderInv'
      BY DEF OrderInv
    <2>1. \A g \in Hook : old'[g] \in Hook =>
              \E i \in 1..Len(hook_info) : \E j \in 1..(i - 1) :
                  hook_info[i] = g /\ hook_info[j] = old'[g]
      <3>1. k \in Hook => \E j \in 1..Len(hook_info) : j < walk.next /\ hook_info[j] = k
        BY <1>2, <1>3, <1>5 DEF ElfInv, OrderInv
      <3>2. k \in Hook => \E i \in 1..Len(hook_info) : \E j \in 1..(i - 1) :
                              hook_info[i] = h /\ hook_info[j] = k
        BY <1>4, <3>1
      <3>3. \A g \in Hook : old[g] \in Hook =>
              \E i \in 1..Len(hook_info) : \E j \in 1..(i - 1) :
                  hook_info[i] = g /\ hook_info[j] = old[g]
        BY DEF ElfInv, OrderInv
      <3> QED
        BY <1>6, <3>2, <3>3
    <2>2. \A s \in Symbol : slot[walk.path][s] \in Hook =>
              \E j \in 1..Len(hook_info) : j < walk.next /\ hook_info[j] = slot[walk.path][s]
      BY <1>2, <1>3 DEF ElfInv, OrderInv
    <2>3. \A p \in Path, s \in Symbol :
               slot[p][s] \in Hook => /\ slot[p][s] \in Entries(hook_info)
                                      /\ p \in Match[slot[p][s]]
      BY DEF ElfInv, OrderInv
    <2> QED
      BY <2>1, <2>2, <2>3, SMTT(60) DEF OrderInv, Entries
  <1>12. KnownInv'
    BY <1>2, <1>3, ListsSame, SlotsSame DEF ElfInv, KnownInv
  <1>13. UsedInv'
    BY DEF ElfInv, UsedInv
  <1>14. cleared \/ h \in late \/ walk.next \in Wanted(walk.path, SymOf[h])
    <2>1. ~cleared => h \notin missed[walk.path]
      BY <1>1, <1>2, <1>4 DEF ElfInv, MissInv, ListInv, DataInv
    <2> QED
      BY <1>4, <2>1 DEF Wanted
  <1>15. SlotInv'
    BY <1>2, <1>3, <1>4, <1>14, WantedSame, SlotsSame DEF ElfInv, SlotInv
  <1>16. MissInv'
    BY <1>2 DEF ElfInv, MissInv
  <1> QED
    BY <1>9, <1>10, <1>11, <1>12, <1>13, <1>15, <1>16 DEF ElfInv

\* The slot is written.
LEMMA ElfWrite ==
    ASSUME CallInv, ElfInv, NEW t \in Runner, ~crashed, pc[t] = "replace", Goto(t, "hook"), ~Gone,
           slot' = [slot EXCEPT ![walk.path][SymOf[hook_info[walk.next]]] = hook_info[walk.next]],
           walk' = [walk EXCEPT !.next = @ + 1],
           UNCHANGED <<lists, map_info, missed, linker, old, cleared, crashed, inited, refresh_mutex>>
    PROVE  ElfInv'
  <1> USE DEF lists, linker
  <1>1. /\ pc[t] \in Walking /\ "hook" \in Walking /\ DataInv /\ walk \in WalkType
        /\ slot \in [Path -> [Symbol -> Hook \cup {Orig}]] /\ walk.next \in Nat
    BY CallParts DEF Walking, DataInv, WalkType
  <1>2. Stage = "replace" /\ refresh_mutex = t /\ t # None /\ Stage' = "hook"
    BY <1>1, StageOf, StageAfter, Values
  <1>3. /\ walk.path \in Path \ walk.todo /\ walk.base \in Base
        /\ walk.refreshed[walk.path] = walk.base /\ mapped[walk.path] = walk.base
        /\ map_info[walk.path] # walk.base
        /\ walk.next <= Len(hook_info)
    BY <1>2 DEF ElfInv, WalkInv, Inside, Gone
  <1>4. PICK q \in Path : q = walk.path
    BY <1>3
  <1>5. PICK h \in Hook : h = hook_info[walk.next] /\ walk.next \in 1..Len(hook_info)
    BY <1>1, <1>3, NextHook
  <1>6. PICK z \in Symbol : z = SymOf[h]
    BY <1>5, Values
  <1>7. old[h] # None /\ q \in Match[h] /\ q \notin Faulty
    BY <1>2, <1>4, <1>5 DEF ElfInv, WalkInv
  <1>8. slot' = [slot EXCEPT ![q][z] = h]
    BY <1>4, <1>5, <1>6
  <1>9. /\ slot'[q][z] = h /\ \A s \in Symbol : s # z => slot'[q][s] = slot[q][s]
        /\ \A p \in Path : p # q => slot'[p] = slot[p]
    BY <1>1, <1>8
  <1>10. /\ walk'.todo = walk.todo /\ walk'.path = q /\ walk'.base = walk.base
         /\ walk'.next = walk.next + 1 /\ walk'.refreshed = walk.refreshed
    BY <1>1, <1>4, HookPassed
  <1>11. WalkInv' /\ UsedInv'
    BY <1>2, <1>3, <1>4, <1>10 DEF ElfInv, WalkInv, UsedInv, Inside
  <1>12. ChainInv'
    BY <1>7, <1>9 DEF ElfInv, ChainInv
  <1>13. OrderInv'
    <2> SUFFICES ASSUME ~cleared PROVE OrderInv'
      BY DEF OrderInv
    <2>1. \A p \in Path, s \in Symbol :
               slot[p][s] \in Hook => slot[p][s] \in Entries(hook_info) /\ p \in Match[slot[p][s]]
      BY DEF ElfInv, OrderInv
    <2>2. h \in Entries(hook_info)
      BY <1>5 DEF Entries
    <2>3. \A p \in Path, s \in Symbol :
               slot'[p][s] \in Hook => slot'[p][s] \in Entries(hook_info) /\ p \in Match[slot'[p][s]]
      BY <1>7, <1>9, <2>1, <2>2
    <2>4. \A s \in Symbol : slot[q][s] \in Hook =>
              \E j \in 1..Len(hook_info) : j < walk.next /\ hook_info[j] = slot[q][s]
      BY <1>2, <1>3, <1>4 DEF ElfInv, OrderInv
    <2>5. /\ \A j \in 1..Len(hook_info) : j < walk.next => j < walk'.next
          /\ walk.next \in 1..Len(hook_info) /\ walk.next < walk'.next
      BY <1>5, <1>10, <1>1
    <2>6. \A s \in Symbol : slot'[q][s] \in Hook =>
              \E j \in 1..Len(hook_info) : j < walk'.next /\ hook_info[j] = slot'[q][s]
      BY <1>5, <1>9, <2>4, <2>5
    <2>7. \A g \in Hook : old[g] \in Hook =>
              \E i \in 1..Len(hook_info) : \E j \in 1..(i - 1) :
                  hook_info[i] = g /\ hook_info[j] = old[g]
      BY DEF ElfInv, OrderInv
    <2> QED
      BY <1>10, <2>3, <2>6, <2>7 DEF OrderInv, Entries
  <1>14. KnownInv'
    <2>1. \A p \in Path : p # q => (HookedElf(p)' <=> HookedElf(p))
      BY <1>9 DEF HookedElf
    <2> QED
      BY <1>2, <1>3, <1>4, <1>10, <2>1, ListsSame DEF ElfInv, KnownInv
  <1>15. SlotInv'
    <2> SUFFICES ASSUME ~cleared PROVE SlotInv'
      BY DEF SlotInv
    <2>1. \A p, s : Wanted(p, s)' = Wanted(p, s)
      BY WantedSame
    <2>2. \A p \in Path, s \in Symbol : p # q => (Right(p, s)' <=> Right(p, s))
      BY <1>9, <2>1 DEF Right
    <2>3. PICK n \in Nat : n = walk.next
      BY <1>1
    <2>4. n + 1 = walk'.next
      BY <1>10, <2>3
    <2>5. \A s \in Symbol : Before(q, s, n) => Before(q, s, n + 1)'
      <3> SUFFICES ASSUME NEW s \in Symbol, Before(q, s, n) PROVE Before(q, s, n + 1)'
        OBVIOUS
      <3>1. Wanted(q, s) \subseteq Nat
        BY DEF Wanted
      <3>2. CASE s # z
        <4>1. n \notin Wanted(q, s)
          BY <1>5, <1>6, <2>3, <3>2 DEF Wanted
        <4>2. Before(q, s, n + 1)
          BY <1>1, <4>1, BeforeNext
        <4> QED
          BY <1>9, <2>1, <3>2, <4>2 DEF Before
      <3>3. CASE s = z
        <4>1. h \in late \/ n \in Wanted(q, z)
          BY <1>2, <1>4, <1>5, <1>6, <2>3 DEF ElfInv, SlotInv
        <4>2. \A j \in Wanted(q, s) : j < n + 1 => j <= n
          BY <3>1
        <4> QED
          BY <1>5, <1>9, <2>1, <2>3, <3>3, <4>1, <4>2 DEF Before
      <3> QED
        BY <3>2, <3>3
    <2>6. \A p \in Path \ Faulty : (mapped'[p] # None /\ fresh'[p]) => \A s \in Symbol :
               /\ map_info'[p] = mapped'[p] => Right(p, s)'
               /\ /\ refresh_mutex' # None /\ walk'.refreshed[p] = mapped'[p]
                  /\ ~(Stage' \in {"hook", "replace"} /\ walk'.path = p)
                  => Right(p, s)'
               /\ Stage' \in {"hook", "replace"} /\ walk'.path = p /\ walk'.base = mapped'[p] =>
                      Before(p, s, n + 1)'
      BY <1>2, <1>3, <1>4, <1>10, <2>2, <2>3, <2>5 DEF ElfInv, SlotInv
    <2>7. inited \/ (refresh_mutex = None /\ \A p \in Path : map_info[p] = None)
      BY DEF ElfInv, SlotInv
    <2> QED
      BY <1>2, <2>4, <2>6, <2>7 DEF SlotInv
  <1>16. MissInv'
    <2>1. \A j \in 1..Len(hook_info) : j < walk.next => j < walk'.next
      BY <1>1, <1>10
    <2> QED
      BY <1>2, <1>4, <1>10, <2>1 DEF ElfInv, MissInv
  <1> QED
    BY <1>11, <1>12, <1>13, <1>14, <1>15, <1>16 DEF ElfInv

LEMMA ElfHook ==
    ASSUME CallInv, ListInv, ElfInv, NEW t \in Runner, xh_core_hook(t) PROVE ElfInv'
  <1>1. /\ pc[t] = "hook" /\ ~crashed /\ pc[t] \in Inside
        /\ UNCHANGED <<lists, inits, async, locks, linker, arg, cleared>>
    BY DEF On, Inside, xh_core_hook
  <1>2. CASE (Gone \/ walk.path \in Faulty) /\ Fault(t)
    BY <1>1, <1>2, ElfFault
  <1>3. CASE /\ ~Gone /\ EndHook(t)
             /\ walk.path \in Faulty \/ walk.next > Len(hook_info) \/ IgnoredAll(walk.path)
    BY <1>1, <1>3, ElfDone DEF EndHook, code, inits, locks
  <1>4. CASE /\ ~Gone /\ walk.path \notin Faulty
             /\ ~(walk.next > Len(hook_info) \/ IgnoredAll(walk.path))
             /\ HookNext(t)
             /\ UNCHANGED <<flag, handler, enable, once, exposed, map_info, crashed>>
    <2>1. UNCHANGED <<lists, map_info, linker, cleared, crashed, inited, refresh_mutex>>
      BY <1>1, <1>4 DEF inits, locks
    <2>2. walk.next <= Len(hook_info)
      BY <1>4, CallParts DEF DataInv
    <2>3. CASE ~PassHook
      <3>1. /\ Due(walk.path, hook_info[walk.next])
            /\ old' = [old EXCEPT ![hook_info[walk.next]] =
                           slot[walk.path][SymOf[hook_info[walk.next]]]]
            /\ Goto(t, "replace") /\ walk' = walk /\ slot' = slot /\ missed' = missed
        BY <1>4, <2>3 DEF HookNext
      <3> QED
        BY <1>1, <1>4, <2>1, <2>2, <3>1, ElfStore DEF Due
    <2>4. CASE PassHook
      <3>1. /\ walk' = [walk EXCEPT !.next = @ + 1] /\ UNCHANGED <<pc, code>>
            /\ missed' = IF Due(walk.path, hook_info[walk.next])
                         THEN [missed EXCEPT ![walk.path] = @ \cup {hook_info[walk.next]}]
                         ELSE missed
        BY <2>4 DEF PassHook
      <3> QED
        BY <1>1, <1>4, <2>1, <2>2, <3>1, ElfPass
    <2> QED
      BY <2>3, <2>4
  <1> QED
    BY <1>2, <1>3, <1>4 DEF xh_core_hook

LEMMA ElfReplace ==
    ASSUME CallInv, ElfInv, NEW t \in Runner, xh_elf_replace_function(t) PROVE ElfInv'
  <1> USE DEF xh_elf_replace_function, inits, locks, linker
  <1>1. pc[t] = "replace" /\ ~crashed /\ pc[t] \in Inside
    BY DEF On, Inside
  <1>2. CASE Gone
    BY <1>1, <1>2, ElfFault
  <1>3. CASE ~Gone
    BY <1>1, <1>3, ElfWrite
  <1> QED
    BY <1>2, <1>3

LEMMA ElfWalk ==
    ASSUME CallInv, OnceInv, ListInv, ElfInv, NEW t \in Runner, Walk(t) PROVE ElfInv'
  BY ElfBegin, ElfLine, ElfHeader, ElfHook, ElfReplace, ElfEnd DEF Walk

-----------------------------------------------------------------------------
(* A registration while a walk may be in progress.                         *)

\* A hook is added at the end of the list.
LEMMA ElfInsertHook ==
    ASSUME DataInv, ElfInv, NEW x \in Hook, x \notin Entries(hook_info), Stage' = Stage,
           hook_info' = Append(hook_info, x), ignore_info' = ignore_info,
           late' = IF inited THEN late \cup {x} ELSE late,
           UNCHANGED <<walks, refresh_mutex, linker, code, inited, cleared, crashed>>
    PROVE  ElfInv'
  <1> USE DEF walks, linker, code
  <1>1. /\ Len(hook_info) \in Nat /\ Len(hook_info') = Len(hook_info) + 1
        /\ hook_info'[Len(hook_info) + 1] = x
        /\ \A i \in 1..Len(hook_info) : hook_info'[i] = hook_info[i] /\ hook_info[i] # x
    BY DEF DataInv, Entries
  <1>2. walk.next \in Nat \ {0}
    BY DEF DataInv
  <1>3. WalkInv'
    <2>1. Stage = "replace" /\ ~crashed => walk.next \in 1..Len(hook_info)
      BY <1>1, <1>2 DEF ElfInv, WalkInv
    <2>2. Stage = "replace" /\ ~crashed =>
              hook_info'[walk.next] = hook_info[walk.next] /\ walk.next <= Len(hook_info')
      BY <1>1, <1>2, <2>1
    <2> QED
      BY <2>2 DEF ElfInv, WalkInv
  <1>4. ChainInv' /\ UsedInv'
    BY DEF ElfInv, ChainInv, UsedInv
  <1>5. OrderInv'
    <2> SUFFICES ASSUME ~cleared PROVE OrderInv'
      BY DEF OrderInv
    <2>1. Entries(hook_info) \subseteq Entries(hook_info')
      BY <1>1 DEF Entries
    <2>2. \A i \in 1..Len(hook_info) : i \in 1..Len(hook_info') /\ \A j \in 1..(i - 1) : j \in 1..Len(hook_info)
      BY <1>1
    <2>3. \A p \in Path, s \in Symbol :
               slot[p][s] \in Hook => slot[p][s] \in Entries(hook_info) /\ p \in Match[slot[p][s]]
      BY DEF ElfInv, OrderInv
    <2>4. \A h \in Hook : old[h] \in Hook =>
              \E i \in 1..Len(hook_info') : \E j \in 1..(i - 1) :
                  hook_info'[i] = h /\ hook_info'[j] = old[h]
      <3> SUFFICES ASSUME NEW h \in Hook, old[h] \in Hook
                   PROVE  \E i \in 1..Len(hook_info') : \E j \in 1..(i - 1) :
                              hook_info'[i] = h /\ hook_info'[j] = old[h]
        OBVIOUS
      <3>1. PICK i \in 1..Len(hook_info) : \E j \in 1..(i - 1) : hook_info[i] = h /\ hook_info[j] = old[h]
        BY DEF ElfInv, OrderInv
      <3>2. PICK j \in 1..(i - 1) : hook_info[i] = h /\ hook_info[j] = old[h]
        BY <3>1
      <3> QED
        BY <1>1, <2>2, <3>1, <3>2
    <2>5. ~crashed /\ Stage \in {"hook", "replace"} /\ mapped[walk.path] = walk.base =>
               \A s \in Symbol : slot[walk.path][s] \in Hook =>
                   \E j \in 1..Len(hook_info') : j < walk.next /\ hook_info'[j] = slot[walk.path][s]
      BY <1>1, <2>2 DEF ElfInv, OrderInv
    <2> QED
      BY <2>1, <2>3, <2>4, <2>5 DEF OrderInv
  <1>6. \A p : Never(p) => Never(p)'
    <2> SUFFICES ASSUME NEW p, Never(p) PROVE Never(p)'
      OBVIOUS
    <2>1. \A s : Ignored(p, s)' <=> Ignored(p, s)
      BY DEF Ignored, Entries
    <2>2. PICK m \in 1..Len(hook_info) : p \in Match[hook_info[m]]
      BY DEF Never
    <2>3. m \in 1..Len(hook_info') /\ p \in Match[hook_info'[m]]
      BY <1>1, <2>2
    <2>4. ASSUME NEW i \in 1..Len(hook_info'), p \in Match[hook_info'[i]],
                 \A j \in 1..(i - 1) : p \notin Match[hook_info'[j]],
                 ~IgnoredAll(p)', ~Ignored(p, SymOf[hook_info[i]])'
          PROVE  FALSE
      <3>1. i <= m
        BY <1>1, <2>3, <2>4
      <3>2. i \in 1..Len(hook_info) /\ \A j \in 1..(i - 1) : j \in 1..Len(hook_info)
        BY <1>1, <2>2, <3>1
      <3>3. PathMatches(p)
        BY <1>1, <2>1, <2>4, <3>2 DEF PathMatches, IgnoredAll
      <3> QED
        BY <3>3 DEF Never
    <2>5. ~PathMatches(p)'
      BY <2>4 DEF PathMatches
    <2> QED
      BY <2>3, <2>5 DEF Never
  <1>7. KnownInv'
    BY <1>6 DEF ElfInv, KnownInv, HookedElf
  <1>8. MissInv'
    <2>1. \A i \in 1..Len(hook_info) : i \in 1..Len(hook_info')
      BY <1>1
    <2> QED
      BY <1>1, <2>1 DEF ElfInv, MissInv
  <1>9. CASE ~inited
    <2>1. ~cleared /\ ~crashed => /\ refresh_mutex = None /\ Stage \notin Inside
                                 /\ \A p \in Path : map_info[p] = None
      BY <1>9 DEF ElfInv, SlotInv, WalkInv
    <2>2. SlotInv'
      BY <2>1 DEF SlotInv, Inside
    <2> QED
      BY <1>3, <1>4, <1>5, <1>7, <1>8, <2>2 DEF ElfInv
  <1>10. CASE inited
    <2>1. late' = late \cup {x}
      BY <1>10
    <2>2. \A p, s : Wanted(p, s)' = Wanted(p, s)
      <3>1. \A p, s : Ignored(p, s)' <=> Ignored(p, s)
        BY DEF Ignored, Entries
      <3>2. ASSUME NEW p, NEW s, NEW i PROVE i \in Wanted(p, s)' <=> i \in Wanted(p, s)
        <4>1. i \in 1..Len(hook_info') <=> i \in 1..Len(hook_info) \/ i = Len(hook_info) + 1
          BY <1>1
        <4>2. CASE i = Len(hook_info) + 1
          BY <1>1, <2>1, <4>2 DEF Wanted
        <4>3. CASE i # Len(hook_info) + 1
          BY <1>1, <2>1, <3>1, <4>1, <4>3 DEF Wanted, IgnoredAll
        <4> QED
          BY <4>2, <4>3
      <3>3. ASSUME NEW p, NEW s PROVE Wanted(p, s)' = Wanted(p, s)
        <4>1. \A i : i \in Wanted(p, s)' <=> i \in Wanted(p, s)
          BY <3>2
        <4> QED
          BY <4>1, Zenon
      <3> QED
        BY <3>3
    <2>3. \A p, s : \A i \in Wanted(p, s) : hook_info'[i] = hook_info[i]
      BY <1>1 DEF Wanted
    <2>4. \A p, s : /\ Right(p, s) => Right(p, s)'
                    /\ \A n : Before(p, s, n) => Before(p, s, n)'
      BY <2>1, <2>2, <2>3, ZenonT(60) DEF Right, Before
    <2>5. Stage = "replace" /\ ~crashed => walk.next \in 1..Len(hook_info)
      BY <1>1, <1>2 DEF ElfInv, WalkInv
    <2>6. Stage = "replace" /\ ~crashed => hook_info'[walk.next] = hook_info[walk.next]
      BY <1>1, <2>5
    <2>7. SlotInv'
      BY <2>1, <2>2, <2>4, <2>6 DEF ElfInv, SlotInv
    <2> QED
      BY <1>3, <1>4, <1>5, <1>7, <1>8, <2>7 DEF ElfInv
  <1> QED
    BY <1>9, <1>10

\* An exception is added.
LEMMA ElfInsertIgnore ==
    ASSUME DataInv, ElfInv, NEW x \in Ignore, Stage' = Stage,
           hook_info' = hook_info, ignore_info' = Append(ignore_info, x),
           late' = IF inited THEN late \cup Hook ELSE late,
           UNCHANGED <<walks, refresh_mutex, linker, code, inited, cleared, crashed>>
    PROVE  ElfInv'
  <1> USE DEF walks, linker, code
  <1>1. WalkInv' /\ ChainInv' /\ UsedInv' /\ OrderInv' /\ MissInv'
    BY DEF ElfInv, WalkInv, ChainInv, UsedInv, OrderInv, MissInv, Entries
  <1>2. \A p, s : Ignored(p, s) => Ignored(p, s)'
    <2>1. /\ Len(ignore_info) \in Nat /\ Len(ignore_info') = Len(ignore_info) + 1
          /\ \A i \in 1..Len(ignore_info) : ignore_info'[i] = ignore_info[i]
      BY DEF DataInv
    <2>2. Entries(ignore_info) \subseteq Entries(ignore_info')
      BY <2>1 DEF Entries
    <2> QED
      BY <2>2 DEF Ignored
  <1>3. \A p : Never(p) => Never(p)'
    BY <1>2 DEF Never, PathMatches, IgnoredAll
  <1>4. KnownInv'
    BY <1>3 DEF ElfInv, KnownInv, HookedElf
  <1>5. CASE ~inited
    <2>1. ~cleared /\ ~crashed => /\ refresh_mutex = None /\ Stage \notin Inside
                                 /\ \A p \in Path : map_info[p] = None
      BY <1>5 DEF ElfInv, SlotInv, WalkInv
    <2>2. SlotInv'
      BY <2>1 DEF SlotInv, Inside
    <2> QED
      BY <1>1, <1>4, <2>2 DEF ElfInv
  <1>6. CASE inited
    <2>1. Hook \subseteq late' /\ \A i \in 1..Len(hook_info) : hook_info[i] \in late'
      BY <1>6 DEF DataInv
    <2>2. \A p, s : Wanted(p, s)' = {}
      BY <2>1 DEF Wanted
    <2>3. \A p \in Path, s \in Symbol : slot[p][s] \in late' \/ slot[p][s] = Orig
      BY <2>1 DEF DataInv
    <2>4. \A p \in Path, s \in Symbol : Right(p, s)' /\ \A n : Before(p, s, n)'
      BY <2>2, <2>3 DEF Right, Before
    <2>5. Stage = "replace" /\ ~crashed => walk.next \in 1..Len(hook_info)
      BY DEF ElfInv, WalkInv, DataInv
    <2>6. SlotInv'
      BY <1>6, <2>1, <2>4, <2>5 DEF SlotInv
    <2> QED
      BY <1>1, <1>4, <2>6 DEF ElfInv
  <1> QED
    BY <1>5, <1>6

LEMMA ElfInsert ==
    ASSUME CallInv, ProtectInv, ListInv, ElfInv, NEW t \in Thread, xh_core_register_insert(t)
    PROVE  ElfInv'
  <1>1. /\ Stage' = Stage /\ DataInv /\ arg[t] \in Hook \cup Ignore
        /\ arg[t] \notin Entries(hook_info)
    BY ProtectInsert, CallParts DEF CallInv, ListInv, xh_core_register_insert, On
  <1>2. UNCHANGED <<walks, refresh_mutex, linker, code, inited, cleared, crashed>>
    BY DEF xh_core_register_insert, inits, locks
  <1>3. CASE arg[t] \in Hook
    BY <1>1, <1>2, <1>3, ElfInsertHook DEF xh_core_register_insert
  <1>4. CASE arg[t] \notin Hook
    BY <1>1, <1>2, <1>4, ElfInsertIgnore DEF xh_core_register_insert
  <1> QED
    BY <1>3, <1>4

-----------------------------------------------------------------------------
(* The linker, and the end of a clear.                                     *)

LEMMA ElfClose ==
    ASSUME CallInv, ElfInv, NEW p \in Path, dlclose(p), Stage' = Stage PROVE ElfInv'
  <1> USE DEF dlclose, lists, inits, locks, walks, linker, code
  <1>1. /\ mapped'[p] = None /\ \A q \in Path : q # p => mapped'[q] = mapped[q]
        /\ UNCHANGED <<lists, walks, refresh_mutex, used, fresh, code, inited, cleared, crashed>>
    BY CallParts DEF DataInv
  <1>2. WalkInv' /\ ChainInv' /\ UsedInv'
    BY <1>1 DEF ElfInv, WalkInv, ChainInv, UsedInv
  <1>3. ~crashed /\ Stage \in {"hook", "replace"} => walk.path \in Path /\ walk.base # None
    BY Values DEF ElfInv, WalkInv, Inside
  <1>4. OrderInv'
    BY <1>1, <1>3 DEF ElfInv, OrderInv, Entries
  <1>5. \A q \in Path : HookedElf(q)' => q # p /\ HookedElf(q)
    BY <1>1 DEF HookedElf
  <1>6. KnownInv'
    BY <1>1, <1>5, ListsSame DEF ElfInv, KnownInv
  <1>7. /\ \A q, s : Wanted(q, s)' = Wanted(q, s)
        /\ \A q, s : Right(q, s)' <=> Right(q, s)
        /\ \A q, s, n : Before(q, s, n)' <=> Before(q, s, n)
    BY <1>1, WantedSame DEF Right, Before
  <1>8. SlotInv'
    BY <1>1, <1>7 DEF ElfInv, SlotInv
  <1>9. MissInv'
    BY DEF ElfInv, MissInv
  <1> QED
    BY <1>2, <1>4, <1>6, <1>8, <1>9 DEF ElfInv

LEMMA ElfOpen ==
    ASSUME CallInv, ElfInv, NEW p \in Path, NEW b \in At[p], dlopen(p, b), Stage' = Stage
    PROVE  ElfInv'
  <1> USE DEF dlopen, lists, inits, locks, walks, linker, code
  <1>1. /\ mapped'[p] = b /\ \A q \in Path : q # p => mapped'[q] = mapped[q]
        /\ fresh'[p] = (b \notin used[p]) /\ \A q \in Path : q # p => fresh'[q] = fresh[q]
        /\ used'[p] = used[p] \cup {b} /\ \A q \in Path : q # p => used'[q] = used[q]
    BY CallParts DEF DataInv
  <1>2. /\ \A s \in Symbol : slot'[p][s] = Orig
        /\ \A q \in Path : q # p => slot'[q] = slot[q]
    BY CallParts DEF DataInv
  <1>3. UNCHANGED <<lists, walks, refresh_mutex, old, inited, cleared, crashed>>
    OBVIOUS
  <1>4. b \in Base /\ b # None /\ Orig \notin Hook
    BY SetAssumption, Values
  <1>5. WalkInv'
    BY DEF ElfInv, WalkInv
  <1>6. ChainInv'
    BY <1>2, <1>4 DEF ElfInv, ChainInv
  <1>7. UsedInv'
    BY <1>1 DEF ElfInv, UsedInv
  <1>8. OrderInv'
    <2>1. ~crashed /\ Stage \in {"hook", "replace"} => walk.path \in Path
      BY DEF ElfInv, WalkInv, Inside
    <2> QED
      BY <1>1, <1>2, <1>4, <2>1 DEF ElfInv, OrderInv, Entries
  <1>9. \A q \in Path : HookedElf(q)' => q # p /\ HookedElf(q)
    BY <1>1, <1>2, <1>4 DEF HookedElf
  <1>10. KnownInv'
    BY <1>1, <1>9, ListsSame DEF ElfInv, KnownInv
  <1>11. \A q, s : Wanted(q, s)' = Wanted(q, s)
    BY WantedSame
  <1>12. \/ ~fresh'[p]
         \/ /\ map_info[p] # b /\ walk.refreshed[p] # b /\ (walk.path = p => walk.base # b)
    BY <1>1, <1>4 DEF ElfInv, UsedInv
  <1>13. SlotInv'
    <2>1. SUFFICES ASSUME ~cleared, ~crashed PROVE SlotInv'
      BY <1>3 DEF SlotInv
    <2>2. PICK n \in Nat : n = walk.next /\ n = walk'.next
      BY <1>3, CallParts DEF DataInv
    <2>3. inited' \/ (refresh_mutex' = None /\ \A q \in Path : map_info'[q] = None)
      BY <1>3, <2>1 DEF ElfInv, SlotInv
    <2>4. Stage' = "replace" => \/ hook_info'[walk'.next] \in late'
                                \/ walk'.next \in Wanted(walk.path, SymOf[hook_info[walk.next]])'
      <3>1. Wanted(walk.path, SymOf[hook_info[walk.next]])'
                = Wanted(walk.path, SymOf[hook_info[walk.next]])
        BY <1>3 DEF Wanted, IgnoredAll, Ignored, Entries
      <3> QED
        BY <1>3, <2>1, <3>1 DEF ElfInv, SlotInv
    <2>5. ASSUME NEW q \in Path \ Faulty, mapped'[q] # None, fresh'[q], NEW s \in Symbol
          PROVE  /\ map_info[q] = mapped'[q] => Right(q, s)'
                 /\ /\ refresh_mutex # None /\ walk.refreshed[q] = mapped'[q]
                    /\ ~(Stage \in {"hook", "replace"} /\ walk.path = q)
                    => Right(q, s)'
                 /\ Stage \in {"hook", "replace"} /\ walk.path = q /\ walk.base = mapped'[q] =>
                        Before(q, s, n)'
      <3>1. CASE q = p
        BY <1>1, <1>12, <2>5, <3>1
      <3>2. CASE q # p
        <4>1. /\ map_info[q] = mapped[q] => Right(q, s)
              /\ /\ refresh_mutex # None /\ walk.refreshed[q] = mapped[q]
                 /\ ~(Stage \in {"hook", "replace"} /\ walk.path = q)
                 => Right(q, s)
              /\ Stage \in {"hook", "replace"} /\ walk.path = q /\ walk.base = mapped[q] =>
                     Before(q, s, n)
          BY <1>1, <2>1, <2>2, <2>5, <3>2 DEF ElfInv, SlotInv
        <4>2. mapped'[q] = mapped[q] /\ q \in Path
          BY <1>1, <3>2
        <4>3. /\ Right(q, s)' <=> Right(q, s)
              /\ Before(q, s, n)' <=> Before(q, s, n)
          BY <1>2, <1>3, <1>11, <3>2, <4>2 DEF Right, Before
        <4> QED
          BY <4>1, <4>2, <4>3
      <3> QED
        BY <3>1, <3>2
    <2> QED
      BY <1>3, <2>2, <2>3, <2>4, <2>5 DEF SlotInv
  <1>14. MissInv'
    BY DEF ElfInv, MissInv
  <1> QED
    BY <1>5, <1>6, <1>7, <1>8, <1>10, <1>13, <1>14 DEF ElfInv

LEMMA ElfFree ==
    ASSUME CallInv, OnceInv, ElfInv, NEW t \in Thread, clear_free(t) PROVE ElfInv'
  <1> USE DEF clear_free, inits, locks, walks, linker, code
  <1>1. cleared'
    BY OnceClear
  <1>2. /\ refresh_mutex = None /\ Stage = "scan" /\ pc[t] \notin Inside
        /\ "idle" \in (Labels \cup WorkerLabels) \ Inside
    BY NoStage DEF On, Inside, Labels
  <1>3. Stage' = "scan"
    BY <1>2, CallParts, Values, StageGoto
  <1>4. WalkInv' /\ ChainInv' /\ UsedInv'
    BY <1>2, <1>3 DEF ElfInv, WalkInv, ChainInv, UsedInv, Inside
  <1>5. OrderInv' /\ KnownInv' /\ SlotInv' /\ MissInv'
    BY <1>1 DEF OrderInv, KnownInv, SlotInv, MissInv
  <1> QED
    BY <1>4, <1>5 DEF ElfInv

-----------------------------------------------------------------------------
(* The protection and the list, in the walk and elsewhere.                 *)

LEMMA ProtectFault ==
    ASSUME CallInv, OnceInv, ProtectInv, ~crashed, NEW t \in Runner, pc[t] \in Inside, Fault(t),
           UNCHANGED <<lists, inits, async, locks, linker, arg, cleared>>
    PROVE  ProtectInv'
  <1> USE DEF Fault, inits
  <1>1. pc[t] \in Walking /\ "scan" \in Walking
    BY DEF Inside, Walking
  <1>2. Stage = pc[t]
    BY <1>1, StageOf
  <1>3. cleared \/ init_ok
    <2>1. "none" \notin Walking
      BY DEF Walking
    <2> QED
      BY <1>1, <2>1 DEF OnceInv, Runner
  <1>4. CASE handler = "xhook" /\ flag
    <2>1. Stage' = "scan" /\ ~crashed'
      BY <1>1, <1>4, StageAfter
    <2> QED
      BY <1>4, <2>1 DEF ProtectInv, Inside
  <1>5. CASE ~(handler = "xhook" /\ flag)
    BY <1>2, <1>3, <1>5 DEF ProtectInv
  <1> QED
    BY <1>4, <1>5

LEMMA ProtectWalk ==
    ASSUME CallInv, OnceInv, ProtectInv, NEW t \in Runner, Walk(t) PROVE ProtectInv'
  <1> USE DEF inits, signals
  <1>1. CASE refresh_begin(t) \/ refresh_end(t)
    <2>1. Stage' = Stage
      BY <1>1, StageBegin, StageEnd
    <2>2. UNCHANGED <<crashed, exposed, enable, init_ok, handler, flag, cleared>>
      BY <1>1 DEF refresh_begin, refresh_end
    <2> QED
      BY <2>1, <2>2, ProtectSame
  <1>2. CASE \E p \in Path : refresh_line(t, p)
    <2>1. PICK p \in Path : refresh_line(t, p)
      BY <1>2
    <2>2. /\ pc[t] \in Walking /\ pc[t] = "scan" /\ "header" \in Walking
          /\ UNCHANGED <<crashed, exposed, enable, init_ok, handler, cleared>> /\ ~crashed
      BY <2>1 DEF refresh_line, On, Walking
    <2>3. Stage = "scan"
      BY <2>2, StageOf
    <2>4. CASE mapped[p] # None /\ PathMatches(p)
      <3>1. Stage' = "header" /\ flag' = enable
        BY <2>1, <2>2, <2>4, StageAfter DEF refresh_line, Protect
      <3> QED
        BY <2>2, <3>1 DEF ProtectInv
    <2>5. CASE ~(mapped[p] # None /\ PathMatches(p))
      <3>1. Stage' = Stage /\ flag' = flag
        BY <2>1, <2>5, StageStays DEF refresh_line
      <3> QED
        BY <2>2, <3>1, ProtectSame
    <2> QED
      BY <2>4, <2>5
  <1>3. CASE xh_core_check_elf_header(t)
    <2>1. /\ pc[t] \in Walking /\ pc[t] \in Inside /\ {"scan", "hook"} \subseteq Walking /\ ~crashed
          /\ UNCHANGED <<lists, inits, async, locks, linker, arg, cleared>>
      BY <1>3 DEF xh_core_check_elf_header, On, Walking, Inside
    <2>2. CASE Fault(t)
      BY <2>1, <2>2, ProtectFault
    <2>3. CASE Checked(t)
      <3>1. PICK l \in {"scan", "hook"} : Goto(t, l) /\ (l = "hook" => flag' = enable)
        <4>1. CASE KnownBase(walk.path, walk.base)
          BY <2>3, <4>1 DEF Checked
        <4>2. CASE ~KnownBase(walk.path, walk.base)
          <5>1. Goto(t, "hook") /\ flag' = (Protect /\ ~KnownBase(walk.path, walk.base))
            BY <2>3, <4>2 DEF Checked
          <5>2. enable \in BOOLEAN
            BY CallParts DEF DataInv
          <5>3. flag' = enable
            BY <4>2, <5>1, <5>2 DEF Protect
          <5> QED
            BY <5>1, <5>3
        <4> QED
          BY <4>1, <4>2
      <3>2. Stage' = l
        BY <2>1, <3>1, StageAfter
      <3>3. UNCHANGED <<handler, enable, exposed, crashed>>
        BY <2>3 DEF Checked
      <3> QED
        BY <2>1, <3>1, <3>2, <3>3 DEF ProtectInv, Inside
    <2>4. CASE EndHook(t)
      <3>1. Stage' = "scan" /\ UNCHANGED <<handler, enable, exposed, crashed>>
        BY <2>1, <2>4, StageAfter DEF EndHook
      <3> QED
        BY <2>1, <3>1 DEF ProtectInv, Inside
    <2> QED
      BY <1>3, <2>2, <2>3, <2>4 DEF xh_core_check_elf_header
  <1>4. CASE xh_core_hook(t)
    <2>1. /\ pc[t] \in Walking /\ pc[t] \in Inside /\ pc[t] = "hook" /\ {"scan", "replace"} \subseteq Walking
          /\ ~crashed /\ UNCHANGED <<lists, inits, async, locks, linker, arg, cleared>>
      BY <1>4 DEF xh_core_hook, On, Walking, Inside
    <2>2. Stage = "hook"
      BY <2>1, StageOf
    <2>3. CASE Fault(t)
      BY <2>1, <2>3, ProtectFault
    <2>4. CASE EndHook(t)
      <3>1. Stage' = "scan" /\ UNCHANGED <<handler, enable, exposed, crashed>>
        BY <2>1, <2>4, StageAfter DEF EndHook
      <3> QED
        BY <2>1, <3>1 DEF ProtectInv, Inside
    <2>5. CASE HookNext(t) /\ UNCHANGED <<flag, handler, enable, exposed, crashed>>
      <3>1. Stage' \in {"hook", "replace"}
        <4>1. CASE Goto(t, "replace")
          BY <2>1, <4>1, StageAfter
        <4>2. CASE pc' = pc
          BY <2>2, <4>2, StageStays
        <4> QED
          BY <2>5, <4>1, <4>2 DEF HookNext, PassHook
      <3> QED
        BY <2>1, <2>2, <2>5, <3>1 DEF ProtectInv, Inside
    <2> QED
      BY <1>4, <2>3, <2>4, <2>5 DEF xh_core_hook
  <1>5. CASE xh_elf_replace_function(t)
    <2>1. /\ pc[t] \in Walking /\ pc[t] \in Inside /\ "hook" \in Walking /\ ~crashed
          /\ UNCHANGED <<lists, inits, async, locks, linker, arg, cleared>>
      BY <1>5 DEF xh_elf_replace_function, On, Walking, Inside
    <2>2. Stage \in Inside
      BY <2>1, StageOf
    <2>3. CASE Fault(t)
      BY <2>1, <2>3, ProtectFault
    <2>4. CASE Goto(t, "hook") /\ UNCHANGED <<flag, handler, enable, exposed, crashed>>
      <3>1. Stage' = "hook"
        BY <2>1, <2>4, StageAfter
      <3> QED
        BY <2>1, <2>2, <2>4, <3>1 DEF ProtectInv, Inside
    <2> QED
      BY <1>5, <2>3, <2>4 DEF xh_elf_replace_function
  <1> QED
    BY <1>1, <1>2, <1>3, <1>4, <1>5 DEF Walk

\* Steps that leave the list alone, and let nobody in to change it.
LEMMA ListSame ==
    ASSUME ListInv, hook_info' = hook_info,
           \A u \in Thread : pc'[u] = "enter" => pc[u] = "enter" /\ arg'[u] = arg[u]
    PROVE  ListInv'
  BY DEF ListInv, Entries

LEMMA ListCheck ==
    ASSUME CallInv, ListInv, NEW t \in Thread, NEW x \in Hook \cup Ignore, xh_core_register_check(t, x)
    PROVE  ListInv'
  <1> USE DEF xh_core_register_check, lists
  <1>1. "enter" \in Labels \cup WorkerLabels
    BY DEF Labels
  <1>2. /\ pc'[t] = "enter" /\ \A u \in Thread : u # t => pc'[u] = pc[u]
        /\ arg'[t] = x /\ \A u \in Thread : u # t => arg'[u] = arg[u]
    BY <1>1, Moved, Values, CallParts DEF FlowInv
  <1>3. /\ hook_info' = hook_info /\ x \notin Entries(hook_info)
        /\ \A u \in Thread : arg[u] # x
    OBVIOUS
  <1> QED
    BY <1>2, <1>3 DEF ListInv, Entries

LEMMA ListInsert ==
    ASSUME CallInv, ListInv, NEW t \in Thread, xh_core_register_insert(t)
    PROVE  ListInv'
  <1> USE DEF xh_core_register_insert
  <1>1. "idle" \in Labels \cup WorkerLabels
    BY DEF Labels
  <1>2. /\ pc'[t] = "idle" /\ \A u \in Thread : u # t => pc'[u] = pc[u] /\ arg'[u] = arg[u]
    BY <1>1, Moved, Values, CallParts DEF FlowInv
  <1>3. pc[t] = "enter" /\ arg[t] \notin Entries(hook_info)
    BY DEF On, ListInv
  <1>4. CASE hook_info' = hook_info
    BY <1>2, <1>4, ListSame
  <1>5. CASE hook_info' = Append(hook_info, arg[t]) /\ arg[t] \in Hook
    <2>1. PICK x \in Hook : x = arg[t]
      BY <1>5
    <2>2. /\ Len(hook_info) \in Nat /\ Len(hook_info') = Len(hook_info) + 1
          /\ hook_info'[Len(hook_info) + 1] = x
          /\ \A i \in 1..Len(hook_info) : hook_info'[i] = hook_info[i] /\ hook_info[i] # x
      BY <1>3, <1>5, <2>1, CallParts DEF DataInv, Entries
    <2>3. \A i \in 1..Len(hook_info') : i \in 1..Len(hook_info) \/ i = Len(hook_info) + 1
      BY <2>2
    <2>4. \A i, j \in 1..Len(hook_info') : hook_info'[i] = hook_info'[j] => i = j
      BY <2>2, <2>3 DEF ListInv
    <2>5. Entries(hook_info') \subseteq Entries(hook_info) \cup {x}
      BY <2>2, <2>3 DEF Entries
    <2>6. \A u \in Thread : pc'[u] = "enter" => arg'[u] \notin Entries(hook_info')
      BY <1>2, <1>3, <2>1, <2>5 DEF ListInv
    <2> QED
      BY <1>2, <2>4, <2>6 DEF ListInv
  <1> QED
    BY <1>4, <1>5

LEMMA ListThread ==
    ASSUME CallInv, ListInv, NEW t \in Thread,
           \/ xh_core_refresh(t) \/ xh_core_init_once_lock(t) \/ xh_core_add_sigsegv_handler(t)
           \/ xh_core_refresh_ready(t) \/ xh_core_init_async_once_lock(t)
           \/ xh_core_clear(t) \/ clear_join(t) \/ clear_reset_async(t)
           \/ xh_core_del_sigsegv_handler(t) \/ clear_lock(t)
    PROVE  ListInv'
  <1> USE DEF xh_core_refresh, xh_core_init_once_lock, xh_core_add_sigsegv_handler,
              xh_core_refresh_ready, xh_core_init_async_once_lock, xh_core_clear, clear_join,
              clear_reset_async, xh_core_del_sigsegv_handler, clear_lock, lists
  <1>1. PICK l \in Labels \ {"enter"} : Goto(t, l)
    BY DEF Labels
  <1>2. pc'[t] = l /\ \A u \in Thread : u # t => pc'[u] = pc[u]
    BY <1>1, Moved, Values, CallParts DEF FlowInv
  <1>3. hook_info' = hook_info /\ \A u \in Thread : u # t => arg'[u] = arg[u]
    BY CallParts DEF FlowInv
  <1> QED
    BY <1>2, <1>3, ListSame

LEMMA ListBoth ==
    ASSUME CallInv, ListInv, NEW t \in Thread,
           \/ xh_core_init_async_once_create(t) \/ xh_core_refresh_async(t)
           \/ clear_stop(t) \/ clear_joined(t)
    PROVE  ListInv'
  <1> USE DEF lists
  <1>1. FlowInv /\ {"aready", "idle", "join", "reset_async"} \subseteq Labels
    BY CallParts DEF Labels
  <1>2. hook_info' = hook_info /\ \A u \in Thread : u # t => arg'[u] = arg[u]
    BY <1>1 DEF FlowInv, xh_core_init_async_once_create, xh_core_refresh_async, clear_stop,
                clear_joined
  <1>3. pc'[t] # "enter" /\ \A u \in Thread : u # t => pc'[u] = pc[u]
    <2>1. CASE xh_core_init_async_once_create(t)
      <3>1. CASE Goto(t, "aready")
        BY <1>1, <3>1, Moved, Values DEF FlowInv
      <3>2. CASE \E w \in Worker : pc' = [pc EXCEPT ![t] = "aready", ![w] = "loop"]
        BY <1>1, <3>2, Values DEF FlowInv
      <3> QED
        BY <2>1, <3>1, <3>2 DEF xh_core_init_async_once_create
    <2>2. CASE xh_core_refresh_async(t)
      <3>1. CASE Goto(t, "idle")
        BY <1>1, <3>1, Moved, Values DEF FlowInv
      <3>2. CASE pc' = [Signalled(pc) EXCEPT ![t] = "idle"]
        BY <1>1, <3>2, SignalMoved
      <3> QED
        BY <2>2, <3>1, <3>2 DEF xh_core_refresh_async
    <2>3. CASE clear_stop(t)
      BY <1>1, <2>3, SignalMoved DEF clear_stop
    <2>4. CASE clear_joined(t)
      <3>1. arg[t] \in Worker /\ pc[t] # "enter"
        BY <1>1, <2>4 DEF clear_joined, FlowInv, On
      <3>2. CASE pc' = [pc EXCEPT ![arg[t]] = "joined", ![t] = "reset_async"]
        BY <1>1, <3>1, <3>2, Values DEF FlowInv
      <3>3. CASE pc' = pc
        BY <3>1, <3>3
      <3> QED
        BY <2>4, <3>2, <3>3 DEF clear_joined
    <2> QED
      BY <2>1, <2>2, <2>3, <2>4
  <1> QED
    BY <1>2, <1>3, ListSame

LEMMA ListFree ==
    ASSUME CallInv, ListInv, NEW t \in Thread, clear_free(t) PROVE ListInv'
  <1> USE DEF clear_free
  <1>1. "idle" \in Labels \cup WorkerLabels
    BY DEF Labels
  <1>2. pc'[t] = "idle" /\ \A u \in Thread : u # t => pc'[u] = pc[u]
    BY <1>1, Moved, Values, CallParts DEF FlowInv
  <1>3. hook_info' = <<>> /\ arg' = arg /\ Entries(hook_info') = {}
    BY DEF Entries
  <1> QED
    BY <1>2, <1>3 DEF ListInv

LEMMA ListWalk ==
    ASSUME CallInv, ListInv, NEW t \in Runner, Walk(t) PROVE ListInv'
  <1>1. /\ hook_info' = hook_info /\ pc[t] \in Walking \cup {"lock"}
        /\ pc' = pc \/ \E l \in Walking \cup {AfterWalk(t)} : Goto(t, l)
        /\ \A u \in Thread : u # t => arg'[u] = arg[u]
    BY WalkIs DEF lists
  <1>2. CASE pc' = pc
    BY <1>1, <1>2, ListSame DEF Walking
  <1>3. CASE \E l \in Walking \cup {AfterWalk(t)} : Goto(t, l)
    <2>1. PICK l \in Walking \cup {AfterWalk(t)} : Goto(t, l)
      BY <1>3
    <2>2. l \in Labels \cup WorkerLabels /\ l # "enter"
      BY DEF Labels, WorkerLabels, Walking, AfterWalk
    <2>3. pc'[t] = l /\ \A u \in Runner : u # t => pc'[u] = pc[u]
      BY <2>1, <2>2, Moved DEF CallInv
    <2> QED
      BY <1>1, <2>2, <2>3, ListSame, Values
  <1> QED
    BY <1>1, <1>2, <1>3

LEMMA ListWorker ==
    ASSUME CallInv, ListInv, NEW w \in Worker, refresh_thread_loop(w) \/ refresh_thread_take(w)
    PROVE  ListInv'
  <1> USE DEF refresh_thread_loop, refresh_thread_take, lists
  <1>1. PICK l \in {"take", "exited", "lock", "waiting"} : Goto(w, l)
    OBVIOUS
  <1>2. l \in Labels \cup WorkerLabels
    BY DEF Labels, WorkerLabels
  <1>3. \A u \in Thread : pc'[u] = pc[u]
    BY <1>1, <1>2, Moved, Values DEF CallInv
  <1> QED
    BY <1>3, ListSame

-----------------------------------------------------------------------------
(* The invariant.                                                          *)

LEMMA InitInv == Init => XInv
  <1> SUFFICES ASSUME Init PROVE XInv
    OBVIOUS
  <1> USE DEF Init
  <1>1. /\ \A t \in Thread : pc[t] = "idle"
        /\ \A w \in Worker : pc[w] = "none"
        /\ pc \in [Runner -> {"idle", "none"}]
    BY Values
  <1>2. Stage = "scan"
    BY <1>1 DEF Stage, Phase
  <1>3. /\ walk \in WalkType /\ walk.todo = {} /\ walk.path = None /\ walk.base = None
        /\ walk.next = 1 /\ \A p \in Path : walk.refreshed[p] = None
    BY NoWalkIs
  <1>4. Len(hook_info) = 0 /\ \A i : i \notin 1..Len(hook_info)
    OBVIOUS
  <1>5. DataInv
    <2>1. /\ map_info \in [Path -> Base \cup {None}] /\ mapped \in [Path -> Base \cup {None}]
          /\ used \in [Path -> SUBSET Base] /\ fresh \in [Path -> BOOLEAN]
          /\ slot \in [Path -> [Symbol -> Hook \cup {Orig}]]
          /\ old \in [Hook -> Hook \cup {Orig, None}]
          /\ missed \in [Path -> SUBSET Hook]
      OBVIOUS
    <2>2. hook_info \in Seq(Hook) /\ ignore_info \in Seq(Ignore) /\ late \subseteq Hook
      OBVIOUS
    <2>3. /\ {inited, init_ok, async_inited, async_init_ok, running, do} \subseteq BOOLEAN
          /\ {flag, enable, once, exposed, cleared, crashed} \subseteq BOOLEAN
      OBVIOUS
    <2> QED
      BY <1>3, <2>1, <2>2, <2>3 DEF DataInv, WalkType
  <1>6. FlowInv
    BY <1>1, Values DEF FlowInv, Labels, WorkerLabels, Walking
  <1>7. CallInv
    BY <1>5, <1>6, CallParts
  <1>8. OnceInv
    BY <1>1 DEF OnceInv, Clearing, Walking
  <1>9. ProtectInv
    BY <1>2 DEF ProtectInv, Inside
  <1>10. ListInv
    BY <1>1, <1>4 DEF ListInv
  <1>11. WalkInv
    BY <1>2, <1>3 DEF WalkInv, Inside
  <1>12. \A p \in Path, s \in Symbol : slot[p][s] = Orig /\ slot[p][s] \notin Hook
    BY Values
  <1>13. \A h \in Hook : old[h] = None /\ old[h] \notin Hook
    BY Values
  <1>14. ChainInv
    BY <1>12, <1>13 DEF ChainInv
  <1>15. OrderInv
    BY <1>2, <1>12, <1>13 DEF OrderInv
  <1>16. KnownInv /\ SlotInv /\ UsedInv /\ MissInv
    BY <1>2, <1>3, Values DEF KnownInv, HookedElf, SlotInv, UsedInv, MissInv
  <1> QED
    BY <1>7, <1>8, <1>9, <1>10, <1>11, <1>14, <1>15, <1>16 DEF XInv

LEMMA XParts == XInv <=> CallInv /\ OnceInv /\ ProtectInv /\ ListInv /\ ElfInv
  BY Zenon DEF XInv, ElfInv

LEMMA XJoin ==
    ASSUME CallInv', OnceInv', ProtectInv', ListInv', ElfInv' PROVE XInv'
  BY DEF XInv, ElfInv

LEMMA WalkKeeps ==
    ASSUME XInv, NEW t \in Runner, Walk(t) PROVE XInv'
  <1> USE XParts DEF ElfInv
  <1>1. CallInv' /\ OnceInv'
    BY CallWalk, OnceWalk
  <1>2. ProtectInv' /\ ListInv'
    BY ProtectWalk, ListWalk
  <1>3. ElfInv'
    BY ElfWalk
  <1> QED
    BY <1>1, <1>2, <1>3, XJoin

LEMMA CallKeeps ==
    ASSUME XInv, NEW t \in Thread, Call(t) PROVE XInv'
  <1>1. CallInv /\ OnceInv /\ ProtectInv /\ ListInv /\ ElfInv
    BY XParts
  <1>2. CASE \E x \in Hook \cup Ignore : xh_core_register_check(t, x)
    BY <1>1, <1>2, CallCheck, OnceCall, ProtectCall, ListCheck, QuietCall, QuietKeeps, XJoin
  <1>3. CASE xh_core_refresh(t)
    BY <1>1, <1>3, CallRefresh, OnceCall, ProtectCall, ListThread, QuietCall, QuietKeeps, XJoin
  <1>4. CASE xh_core_clear(t)
    BY <1>1, <1>4, CallClear, OnceClear, ProtectClear, ListThread, QuietClear, QuietKeeps, XJoin
  <1>5. CASE xh_core_enable_sigsegv_protection(t)
    <2>1. ListInv'
      BY <1>1, <1>5, ListSame DEF xh_core_enable_sigsegv_protection, lists
    <2> QED
      BY <1>1, <1>5, <2>1, CallOther, OnceOther, ProtectOther, QuietOther, QuietKeeps, XJoin
  <1> QED
    BY <1>2, <1>3, <1>4, <1>5 DEF Call

LEMMA ThreadKeeps ==
    ASSUME XInv, NEW t \in Thread, ThreadStep(t) PROVE XInv'
  <1>1. CallInv /\ OnceInv /\ ProtectInv /\ ListInv /\ ElfInv
    BY XParts
  <1>2. CASE xh_core_register_insert(t)
    BY <1>1, <1>2, CallInsert, OnceCall, ProtectInsert, ListInsert, ElfInsert, XJoin
  <1>3. CASE xh_core_init_once_lock(t)
    BY <1>1, <1>3, CallInitLock, OnceInitLock, ProtectCall, ListThread, QuietCall, QuietKeeps, XJoin
  <1>4. CASE xh_core_add_sigsegv_handler(t)
    BY <1>1, <1>4, CallHandler, OnceHandler, ProtectHandler, ListThread, QuietCall, QuietKeeps, XJoin
  <1>5. CASE xh_core_refresh_ready(t)
    BY <1>1, <1>5, CallReady, OnceCall, ProtectCall, ListThread, QuietCall, QuietKeeps, XJoin
  <1>6. CASE xh_core_init_async_once_lock(t)
    BY <1>1, <1>6, CallAsyncLock, OnceAsyncLock, ProtectCall, ListThread, QuietCall, QuietKeeps,
       XJoin
  <1>7. CASE xh_core_init_async_once_create(t)
    BY <1>1, <1>7, CallCreate, OnceCreate, ProtectCall, ListBoth, QuietCreate, QuietKeeps, XJoin
  <1>8. CASE xh_core_refresh_async(t)
    BY <1>1, <1>8, CallAsync, OnceAsync, ProtectCall, ListBoth, QuietSignal, QuietKeeps, XJoin
  <1>9. CASE Walk(t)
    BY <1>9, WalkKeeps, Values
  <1>10. CASE clear_stop(t)
    BY <1>1, <1>10, CallStop, OnceClear, ProtectClear, ListBoth, QuietSignal, QuietKeeps, XJoin
  <1>11. CASE clear_join(t)
    BY <1>1, <1>11, CallJoinTid, OnceClear, ProtectClear, ListThread, QuietClear, QuietKeeps, XJoin
  <1>12. CASE clear_joined(t)
    BY <1>1, <1>12, CallJoined, OnceClear, ProtectClear, ListBoth, QuietJoined, QuietKeeps, XJoin
  <1>13. CASE clear_reset_async(t)
    BY <1>1, <1>13, CallResetAsync, OnceClear, ProtectClear, ListThread, QuietClear, QuietKeeps,
       XJoin
  <1>14. CASE xh_core_del_sigsegv_handler(t)
    BY <1>1, <1>14, CallReset, OnceClear, ProtectClear, ListThread, QuietClear, QuietKeeps, XJoin
  <1>15. CASE clear_lock(t)
    BY <1>1, <1>15, CallClearLock, OnceClear, ProtectClear, ListThread, QuietClear, QuietKeeps,
       XJoin
  <1>16. CASE clear_free(t)
    BY <1>1, <1>16, CallFree, OnceClear, ProtectClear, ListFree, ElfFree, XJoin
  <1> QED
    BY <1>2, <1>3, <1>4, <1>5, <1>6, <1>7, <1>8, <1>9, <1>10, <1>11, <1>12, <1>13, <1>14, <1>15,
       <1>16 DEF ThreadStep

LEMMA WorkerKeeps ==
    ASSUME XInv, NEW w \in Worker, WorkerStep(w) PROVE XInv'
  <1>1. CallInv /\ OnceInv /\ ProtectInv /\ ListInv /\ ElfInv
    BY XParts
  <1>2. CASE refresh_thread_loop(w) \/ refresh_thread_take(w)
    <2>1. CallInv' /\ OnceInv'
      BY <1>1, CallWorker, OnceWorker DEF ElfInv
    <2> QED
      BY <1>1, <1>2, <2>1, ProtectWorker, ListWorker, QuietWorker, QuietKeeps, XJoin
  <1>3. CASE Walk(w)
    BY <1>3, WalkKeeps, Values
  <1> QED
    BY <1>2, <1>3 DEF WorkerStep

LEMMA LinkerKeeps ==
    ASSUME XInv, NEW p \in Path, dlclose(p) \/ \E b \in At[p] : dlopen(p, b) PROVE XInv'
  <1>1. CallInv /\ OnceInv /\ ProtectInv /\ ListInv /\ ElfInv
    BY XParts
  <1>2. CallInv' /\ OnceInv' /\ ProtectInv' /\ Stage' = Stage
    BY <1>1, CallOther, OnceOther, ProtectLinker
  <1>3. ListInv'
    BY <1>1, ListSame DEF dlclose, dlopen, lists
  <1>4. ElfInv'
    BY <1>1, <1>2, ElfClose, ElfOpen
  <1> QED
    BY <1>2, <1>3, <1>4, XJoin

LEMMA FaultKeeps ==
    ASSUME XInv, program_fault PROVE XInv'
  <1>1. CallInv /\ OnceInv /\ ProtectInv /\ ListInv /\ ElfInv
    BY XParts
  <1>2. ListInv'
    BY <1>1, ListSame DEF program_fault, lists
  <1> QED
    BY <1>1, <1>2, CallOther, OnceOther, ProtectOther, QuietOther, QuietKeeps, XJoin

LEMMA IdleKeeps ==
    ASSUME XInv, UNCHANGED vars PROVE XInv'
  <1>1. CallInv /\ OnceInv /\ ProtectInv /\ ListInv /\ ElfInv
    BY XParts
  <1> USE DEF vars, lists, inits, async, locks, walks, signals, linker, code
  <1>2. CallInv'
    BY <1>1 DEF CallInv, TypeOK
  <1>3. OnceInv'
    BY <1>1 DEF OnceInv
  <1>4. Stage' = Stage
    BY DEF Stage, Phase
  <1>5. ProtectInv' /\ ListInv'
    BY <1>1, <1>4, ProtectSame, ListSame
  <1>6. Quiet
    BY <1>4 DEF Quiet
  <1> QED
    BY <1>1, <1>2, <1>3, <1>5, <1>6, QuietKeeps, XJoin

\* What the library keeps, for every interleaving of calls, workers, faults and loads.
LEMMA Invariance == Spec => []XInv
  <1>1. XInv /\ [Next]_vars => XInv'
    BY CallKeeps, ThreadKeeps, WorkerKeeps, FaultKeeps, LinkerKeeps, IdleKeeps DEF Next
  <1> QED
    BY InitInv, <1>1, PTL DEF Spec

-----------------------------------------------------------------------------
(* What the library promises.                                              *)

\* However many threads ask for refreshes, walks never meet: the state stays well
\* formed, a walk holds xh_core_refresh_mutex from its first line to its last
\* (xh_core_refresh_impl), and xh_core_init_async_once makes one worker until a clear
\* resets its flag.
THEOREM WalksStayApart == Spec => []WalksApart
  <1>1. XInv => WalksApart
    <2> SUFFICES ASSUME XInv PROVE WalksApart
      OBVIOUS
    <2>1. TypeOK
      BY DEF XInv, CallInv
    <2>2. OneWorker
      <3>1. SUFFICES ASSUME ~cleared
                     PROVE  Cardinality({w \in Worker : pc[w] \notin {"none", "exited", "joined"}}) <= 1
        BY DEF OneWorker
      <3> DEFINE W == {w \in Worker : pc[w] \notin {"none", "exited", "joined"}}
      <3>2. \A v, w \in W : v = w
        BY <3>1 DEF XInv, OnceInv
      <3>3. CASE W = {}
        BY <3>3, FS_EmptySet
      <3>4. CASE W # {}
        <4>1. PICK w \in W : W = {w}
          BY <3>2, <3>4
        <4> QED
          BY <4>1, FS_Singleton
      <3> QED
        BY <3>3, <3>4
    <2> QED
      BY <2>1, <2>2 DEF WalksApart
  <1> QED
    BY Invariance, <1>1, PTL

\* What a refresh leaves behind: the slot of every symbol of an ELF where the last walk
\* met it holds the last hook that matches, is not ignored and did not fail to be put
\* there (xh_elf_replace_function, whose result xh_core_hook_impl ignores), the original,
\* or a hook entered late.
THEOREM RefreshesHook == Spec => []RefreshHooks
  <1>1. XInv => RefreshHooks
    BY DEF XInv, SlotInv, RefreshHooks, Right
  <1> QED
    BY Invariance, <1>1, PTL

\* A fault of the walk ends the process only when the protection was lifted: the flag
\* is set before every access and the handler is there since xh_core_init_once.
THEOREM CrashesOnlyExposed == Spec => []CrashOnlyWhenExposed
  <1>1. XInv => CrashOnlyWhenExposed
    BY DEF XInv, ProtectInv, CrashOnlyWhenExposed
  <1> QED
    BY Invariance, <1>1, PTL

LEMMA Smallest ==
    ASSUME NEW S, S \subseteq Nat, S # {}
    PROVE  \E i \in S : \A j \in S : i <= j
  <1> DEFINE R == OpToRel(<, Nat)
  <1>1. \E x \in S : \A y \in S : ~ (<<y, x>> \in R)
    BY WFMin, NatLessThanWellFounded, Zenon
  <1>2. \A x, y \in Nat : y < x => <<y, x>> \in R
    BY DEF OpToRel
  <1> HIDE DEF R
  <1>3. PICK x \in S : \A y \in S : ~ (<<y, x>> \in R)
    BY <1>1
  <1>4. \A y \in S : x \in Nat /\ y \in Nat /\ ~ (y < x)
    BY <1>2, <1>3
  <1> QED
    BY <1>4

\* A closed set with a hook in it that has an old function holds the original: the first
\* of its hooks in the list has nothing else that could follow it.
LEMMA ClosedHoldsOriginal ==
    ASSUME DataInv, ListInv, ChainInv, OrderInv, ~cleared,
           NEW S \in SUBSET Callee, Closed(S), NEW h \in S \cap Hook, old[h] # None,
           h \in Entries(hook_info)
    PROVE  Orig \in S
  <1> DEFINE I == {i \in 1..Len(hook_info) : hook_info[i] \in S \cap Hook /\ old[hook_info[i]] # None}
  <1>1. I \subseteq Nat /\ I # {}
    <2>1. PICK i \in 1..Len(hook_info) : hook_info[i] = h
      BY DEF Entries
    <2>2. i \in I
      BY <2>1
    <2>3. \A j \in 1..Len(hook_info) : j \in Nat
      OBVIOUS
    <2> QED
      BY <2>2, <2>3
  <1>2. PICK i \in I : \A j \in I : i <= j
    BY <1>1, Smallest
  <1>3. PICK g \in S \cap Hook : g = hook_info[i] /\ old[g] # None
    BY <1>2
  <1>4. old[g] \in S /\ old[g] \in Hook \cup {Orig, None}
    BY <1>3 DEF Closed, DataInv
  <1>5. CASE old[g] \in Hook
    <2>1. PICK k \in 1..Len(hook_info) : \E j \in 1..(k - 1) :
              hook_info[k] = g /\ hook_info[j] = old[g]
      BY <1>5 DEF OrderInv
    <2>2. PICK j \in 1..(k - 1) : hook_info[k] = g /\ hook_info[j] = old[g]
      BY <2>1
    <2>3. k = i
      BY <1>2, <1>3, <2>1, <2>2 DEF ListInv
    <2>4. Len(hook_info) \in Nat /\ j \in 1..Len(hook_info) /\ j < i
      BY <2>1, <2>2, <2>3 DEF DataInv
    <2>5. old[hook_info[j]] # None
      BY <1>5, <2>2 DEF ChainInv
    <2>6. j \in I
      BY <1>4, <1>5, <2>2, <2>4, <2>5
    <2> QED
      BY <1>1, <1>2, <2>4, <2>6
  <1> QED
    BY <1>3, <1>4, <1>5

\* A call through a slot never meets a hook without an old function, not even between
\* the two writes of xh_elf_replace_function, and until a clear it ends in the original
\* function: the old function of a hook stands before it in the list.
THEOREM CallsReachOriginal == Spec => []CallReachesOriginal
  <1>1. XInv => CallReachesOriginal
    <2> SUFFICES ASSUME XInv, NEW p \in Path, NEW s \in Symbol
                 PROVE  /\ None \notin Reached(slot[p][s])
                        /\ ~cleared => Orig \in Reached(slot[p][s])
      BY DEF CallReachesOriginal
    <2>1. DataInv /\ ListInv /\ ChainInv /\ OrderInv
      BY CallParts DEF XInv
    <2>2. PICK f \in Hook \cup {Orig} : f = slot[p][s]
      BY <2>1 DEF DataInv
    <2>3. None \notin Reached(f)
      <3> DEFINE S == {Orig} \cup {h \in Hook : old[h] # None}
      <3>1. S \in SUBSET Callee /\ None \notin S
        BY Values DEF Callee
      <3>2. f \in S
        BY <2>1, <2>2 DEF ChainInv
      <3>3. \A h \in S \cap Hook : old[h] # None /\ old[h] \in Hook \cup {Orig, None}
        BY <2>1, Values DEF DataInv
      <3>4. Closed(S)
        BY <2>1, <3>3 DEF Closed, ChainInv
      <3> QED
        BY <3>1, <3>2, <3>4 DEF Reached
    <2>4. ASSUME ~cleared PROVE Orig \in Reached(f)
      <3>1. ASSUME NEW S \in SUBSET Callee, f \in S, Closed(S) PROVE Orig \in S
        <4>1. CASE f \in Hook
          <5>1. old[f] # None /\ f \in Entries(hook_info)
            BY <2>1, <2>2, <2>4, <4>1 DEF ChainInv, OrderInv
          <5> QED
            BY <2>1, <2>4, <3>1, <4>1, <5>1, ClosedHoldsOriginal
        <4> QED
          BY <3>1, <4>1
      <3> QED
        BY <3>1 DEF Reached, Callee
    <2> QED
      BY <2>2, <2>3, <2>4
  <1> QED
    BY Invariance, <1>1, PTL
=============================================================================
