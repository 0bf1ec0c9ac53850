------------------------------ MODULE ThreadProofs ------------------------------
(***************************************************************************)
(* What threads share, for any number of them: the environment map of the  *)
(* JNI hooks (OriginEnv), for any kernel thread ids and JNIEnv addresses;  *)
(* and what the programs of Capture write down, the packet log, the        *)
(* sniffer and the log of the hooks, for any number of packages and runs.  *)
(***************************************************************************)
EXTENDS OriginEnv, Capture, TLAPS, FiniteSetTheorems, SequenceTheorems,
        WellFoundedInduction

(* The environment map.                                                    *)

\* The map, the threads and the history start in a state that satisfies the
\* inductive invariant: nothing runs and nothing is recorded.
LEMMA InitIInv == Init => IInv
  BY NullAssumption
  DEF Init, IInv, TypeOK, TidUnique, HolderAttached, FakeRecorded, EntryOwned,
      RoutedRecorded, Running, Attached, Pointer

\* push_origin_env, called by a running and attached thread with the
\* environment it is attached with, keeps every entry and leaves one for the
\* thread.
LEMMA PushOriginEnv ==
  ASSUME TypeOK, NEW t \in Thread, Running(t), NEW e \in Env,
         push_origin_env(t, e)
  PROVE  /\ g_map_jnievn' \in [Tid -> Env \cup {NoEnv}]
         /\ \A k \in Tid : g_map_jnievn[k] # NoEnv => g_map_jnievn'[k] = g_map_jnievn[k]
         /\ \A k \in Tid : k # tid[t] => g_map_jnievn'[k] = g_map_jnievn[k]
         /\ g_map_jnievn'[tid[t]] # NoEnv
         /\ g_map_jnievn[tid[t]] = NoEnv => g_map_jnievn'[tid[t]] = e
  BY NullAssumption DEF push_origin_env, TypeOK, Running

\* Every step of the threads, the runtime and the hooks preserves the
\* inductive invariant.
LEMMA NextIInv == IInv /\ [Next]_vars => IInv'
<1> SUFFICES ASSUME IInv, [Next]_vars PROVE IInv'
  OBVIOUS
<1> USE NullAssumption, ThreadAssumption
<1> USE DEF IInv, Running, Attached, Pointer
<1>0. CASE UNCHANGED vars
  BY <1>0 DEF vars, TypeOK, TidUnique, HolderAttached, FakeRecorded, EntryOwned,
     RoutedRecorded, get_origin_env
<1>1. ASSUME NEW t \in Thread, StartJavaThread(t) PROVE IInv'
  <2>1. PICK k \in FreeTid, e \in FreeEnv :
           tid' = [tid EXCEPT ![t] = k] /\ vmEnv' = [vmEnv EXCEPT ![t] = e]
    BY <1>1 DEF StartJavaThread
  <2>2. /\ t \in JavaThread /\ tid[t] = NoTid
        /\ UNCHANGED <<g_map_jnievn, held, outer, routed, recycled>>
    BY <1>1 DEF StartJavaThread
  <2>3. k \in Tid /\ e \in Env /\ \A s \in Thread : tid[s] # k
    BY <2>1 DEF FreeTid, FreeEnv
  <2>4. TypeOK'
    BY <2>1, <2>2, <2>3 DEF TypeOK
  <2>5. TidUnique'
    BY <2>1, <2>2, <2>3 DEF TypeOK, TidUnique
  <2>6. HolderAttached'
    BY <2>1, <2>2, <2>3 DEF TypeOK, HolderAttached
  <2>7. FakeRecorded'
    BY <2>1, <2>2, <2>3 DEF TypeOK, HolderAttached, FakeRecorded, get_origin_env
  <2>8. EntryOwned'
    BY <2>1, <2>2, <2>3 DEF TypeOK, EntryOwned
  <2>9. RoutedRecorded'
    BY <2>1, <2>2, <2>3 DEF TypeOK, RoutedRecorded, get_origin_env
  <2> QED BY <2>4, <2>5, <2>6, <2>7, <2>8, <2>9
<1>2. ASSUME NEW t \in Thread, StartNativeThread(t) PROVE IInv'
  <2>1. PICK k \in FreeTid : tid' = [tid EXCEPT ![t] = k]
    BY <1>2 DEF StartNativeThread
  <2>2. /\ tid[t] = NoTid
        /\ UNCHANGED <<vmEnv, g_map_jnievn, held, outer, routed, recycled>>
    BY <1>2 DEF StartNativeThread
  <2>3. k \in Tid /\ \A s \in Thread : tid[s] # k
    BY <2>1 DEF FreeTid
  <2>4. TypeOK'
    BY <2>1, <2>2, <2>3 DEF TypeOK
  <2>5. TidUnique'
    BY <2>1, <2>2, <2>3 DEF TypeOK, TidUnique
  <2>6. HolderAttached'
    BY <2>1, <2>2, <2>3 DEF TypeOK, HolderAttached
  <2>7. FakeRecorded'
    BY <2>1, <2>2, <2>3 DEF TypeOK, HolderAttached, FakeRecorded, get_origin_env
  <2>8. EntryOwned'
    BY <2>1, <2>2, <2>3 DEF TypeOK, EntryOwned
  <2>9. RoutedRecorded'
    BY <2>1, <2>2, <2>3 DEF TypeOK, RoutedRecorded, get_origin_env
  <2> QED BY <2>4, <2>5, <2>6, <2>7, <2>8, <2>9
<1>3. ASSUME NEW t \in Thread, Running(t), outer[t] = "idle", DropEnv(t),
             \/ tid' = tid
             \/ tid' = [tid EXCEPT ![t] = NoTid],
             UNCHANGED <<g_map_jnievn, outer>>
      PROVE  IInv'
  <2>1. /\ vmEnv' = [vmEnv EXCEPT ![t] = NoEnv]
        /\ held' = [held EXCEPT ![t] = "none"]
        /\ routed' = [routed EXCEPT ![t] = "none"]
        /\ recycled' = recycled \cup {k \in {tid[t]} : g_map_jnievn[k] # NoEnv}
    BY <1>3 DEF DropEnv
  <2>2. TypeOK'
    BY <1>3, <2>1 DEF TypeOK
  <2>3. TidUnique'
    BY <1>3, <2>1 DEF TypeOK, TidUnique
  <2>4. HolderAttached'
    BY <1>3, <2>1 DEF TypeOK, HolderAttached
  <2>5. FakeRecorded'
    BY <1>3, <2>1 DEF TypeOK, FakeRecorded, get_origin_env
  <2>6. EntryOwned'
    BY <1>3, <2>1 DEF TypeOK, EntryOwned
  <2>7. RoutedRecorded'
    BY <1>3, <2>1 DEF TypeOK, RoutedRecorded, get_origin_env
  <2> QED BY <2>2, <2>3, <2>4, <2>5, <2>6, <2>7
<1>4. ASSUME NEW t \in Thread, ThreadExit(t) PROVE IInv'
  BY <1>3, <1>4 DEF ThreadExit
<1>5. ASSUME NEW t \in Thread, DetachCurrentThread(t) PROVE IInv'
  BY <1>3, <1>5 DEF DetachCurrentThread
\* The steps that record an environment: the hooked native method, and the
\* successful AttachCurrentThread and GetEnv.
<1>6. ASSUME NEW t \in Thread, Running(t), NEW e \in Env,
             vmEnv[t] \in {e, NoEnv},
             vmEnv' = [vmEnv EXCEPT ![t] = e],
             push_origin_env(t, e),
             held' = [held EXCEPT ![t] = "fake"],
             outer' \in {outer, [outer EXCEPT ![t] = held[t]]},
             UNCHANGED <<tid, routed, recycled>>
      PROVE  IInv'
  <2>1. /\ g_map_jnievn' \in [Tid -> Env \cup {NoEnv}]
        /\ \A k \in Tid : g_map_jnievn[k] # NoEnv => g_map_jnievn'[k] = g_map_jnievn[k]
        /\ \A k \in Tid : k # tid[t] => g_map_jnievn'[k] = g_map_jnievn[k]
        /\ g_map_jnievn'[tid[t]] # NoEnv
        /\ g_map_jnievn[tid[t]] = NoEnv => g_map_jnievn'[tid[t]] = e
    BY <1>6, PushOriginEnv
  <2>2. TypeOK'
    BY <1>6, <2>1 DEF TypeOK
  <2>3. TidUnique'
    BY <1>6 DEF TidUnique
  <2>4. HolderAttached'
    BY <1>6 DEF TypeOK, HolderAttached
  <2>5. FakeRecorded'
    BY <1>6, <2>1 DEF TypeOK, HolderAttached, FakeRecorded, get_origin_env
  <2>6. EntryOwned'
    BY <1>6, <2>1 DEF TypeOK, EntryOwned
  <2>7. RoutedRecorded'
    BY <1>6, <2>1 DEF TypeOK, RoutedRecorded, get_origin_env
  <2> QED BY <2>2, <2>3, <2>4, <2>5, <2>6, <2>7
<1>7. ASSUME NEW t \in Thread, hook_native_func(t) PROVE IInv'
  <2>1. vmEnv[t] \in Env /\ vmEnv' = [vmEnv EXCEPT ![t] = vmEnv[t]]
    BY <1>7 DEF hook_native_func, EnterNative, TypeOK
  <2> QED BY <1>6, <1>7, <2>1 DEF hook_native_func, EnterNative
\* The steps that change which pointer the code holds, and record nothing.
<1>8. ASSUME NEW t \in Thread, Running(t), NEW e \in Env \cup {NoEnv},
             vmEnv[t] \in {e, NoEnv},
             vmEnv' = [vmEnv EXCEPT ![t] = e],
             NEW p \in Pointer,
             held' = [held EXCEPT ![t] = p],
             p = "real" => e # NoEnv,
             p = "fake" => held[t] = "fake" \/ outer[t] = "fake",
             \/ outer' = outer
             \/ outer' = [outer EXCEPT ![t] = "idle"]
             \/ outer' = [outer EXCEPT ![t] = held[t]] /\ e # NoEnv,
             \/ routed' = routed
             \/ routed' = [routed EXCEPT ![t] = "none"],
             UNCHANGED <<tid, g_map_jnievn, recycled>>
      PROVE  IInv'
  <2>2. TypeOK'
    BY <1>8 DEF TypeOK
  <2>3. TidUnique'
    BY <1>8 DEF TidUnique
  <2>4. HolderAttached'
    BY <1>8 DEF TypeOK, HolderAttached
  <2>5. FakeRecorded'
    BY <1>8 DEF TypeOK, FakeRecorded, get_origin_env
  <2>6. EntryOwned'
    BY <1>8 DEF TypeOK, EntryOwned
  <2>7. RoutedRecorded'
    BY <1>8 DEF TypeOK, RoutedRecorded, get_origin_env
  <2> QED BY <2>2, <2>3, <2>4, <2>5, <2>6, <2>7
<1>9. ASSUME NEW t \in Thread, plain_native_func(t) PROVE IInv'
  <2>1. vmEnv[t] \in Env /\ vmEnv' = [vmEnv EXCEPT ![t] = vmEnv[t]]
    BY <1>9 DEF plain_native_func, EnterNative, TypeOK
  <2> QED BY <1>8, <1>9, <2>1 DEF plain_native_func, EnterNative
<1>10. ASSUME NEW t \in Thread, native_return(t) PROVE IInv'
  <2>1. /\ vmEnv[t] \in Env /\ vmEnv' = [vmEnv EXCEPT ![t] = vmEnv[t]]
        /\ Running(t) /\ outer[t] \in Pointer
    BY <1>10 DEF native_return, TypeOK, HolderAttached
  <2>2. /\ held' = [held EXCEPT ![t] = outer[t]]
        /\ outer' = [outer EXCEPT ![t] = "idle"]
        /\ routed' = [routed EXCEPT ![t] = "none"]
        /\ UNCHANGED <<tid, g_map_jnievn, recycled>>
    BY <1>10 DEF native_return
  <2>3. vmEnv[t] # NoEnv
    BY <2>1
  <2> HIDE DEF Pointer, Running, Attached, IInv
  <2> QED BY <1>8, <2>1, <2>2, <2>3
<1>11. ASSUME NEW t \in Thread, fake_AttachCurrentThread(t) PROVE IInv'
  <2>1. Running(t) /\ UNCHANGED <<tid, outer, routed, recycled>>
    BY <1>11 DEF fake_AttachCurrentThread, InModule
  <2>2. ASSUME NEW e \in (IF Attached(t) THEN {vmEnv[t]} ELSE FreeEnv),
               vmEnv' = [vmEnv EXCEPT ![t] = e],
               push_origin_env(t, e),
               held' = [held EXCEPT ![t] = "fake"]
        PROVE  IInv'
    <3>1. e \in Env /\ vmEnv[t] \in {e, NoEnv}
      BY <2>2 DEF FreeEnv, TypeOK
    <3> QED BY <1>6, <2>1, <2>2, <3>1
  <2>3. CASE /\ ~Attached(t)
             /\ held' = [held EXCEPT ![t] = "none"]
             /\ UNCHANGED <<vmEnv, g_map_jnievn>>
    <3>1. vmEnv[t] = NoEnv /\ vmEnv' = [vmEnv EXCEPT ![t] = NoEnv]
      BY <2>3 DEF TypeOK
    <3> QED BY <1>8, <2>1, <2>3, <3>1
  <2> QED BY <1>11, <2>2, <2>3 DEF fake_AttachCurrentThread
<1>12. ASSUME NEW t \in Thread, fake_GetEnv(t) PROVE IInv'
  <2>1. /\ Running(t) /\ UNCHANGED <<tid, vmEnv, outer, routed, recycled>>
        /\ vmEnv' = [vmEnv EXCEPT ![t] = vmEnv[t]]
    BY <1>12 DEF fake_GetEnv, InModule, TypeOK
  <2>2. CASE /\ Attached(t)
             /\ push_origin_env(t, vmEnv[t])
             /\ held' = [held EXCEPT ![t] = "fake"]
    <3>1. vmEnv[t] \in Env
      BY <2>2 DEF TypeOK
    <3> QED BY <1>6, <2>1, <2>2, <3>1
  <2>3. CASE /\ ~Attached(t)
             /\ held' = [held EXCEPT ![t] = "none"]
             /\ UNCHANGED g_map_jnievn
    BY <1>8, <2>1, <2>3
  <2> QED BY <1>12, <2>2, <2>3 DEF fake_GetEnv
<1>13. ASSUME NEW t \in Thread, AttachCurrentThreadAsDaemon(t) PROVE IInv'
  <2>1. PICK e \in (IF Attached(t) THEN {vmEnv[t]} ELSE FreeEnv) :
           vmEnv' = [vmEnv EXCEPT ![t] = e]
    BY <1>13 DEF AttachCurrentThreadAsDaemon
  <2>2. e \in Env /\ vmEnv[t] \in {e, NoEnv}
    BY <2>1 DEF FreeEnv, TypeOK
  <2> QED BY <1>8, <1>13, <2>1, <2>2 DEF AttachCurrentThreadAsDaemon, InModule
<1>14. ASSUME NEW t \in Thread, hook_other_methods(t) \/ hook_call_methods(t)
       PROVE  IInv'
  <2>1. /\ Running(t) /\ held[t] = "fake"
        /\ UNCHANGED <<tid, vmEnv, g_map_jnievn, held, outer, recycled>>
        /\ \/ routed' = [routed EXCEPT ![t] = get_origin_env(t)]
           \/ routed' = [routed EXCEPT ![t] = "dropped"]
    BY <1>14 DEF hook_other_methods, hook_call_methods, InModule
  <2>2. get_origin_env(t) # NoEnv /\ get_origin_env(t) \in Env
    BY <2>1 DEF FakeRecorded, TypeOK, get_origin_env
  <2>3. TypeOK'
    BY <2>1, <2>2 DEF TypeOK
  <2>4. RoutedRecorded'
    BY <2>1, <2>2 DEF TypeOK, RoutedRecorded, get_origin_env
  <2>5. TidUnique' /\ HolderAttached' /\ EntryOwned'
    BY <2>1 DEF TidUnique, HolderAttached, EntryOwned
  <2>6. FakeRecorded'
    BY <2>1 DEF FakeRecorded, get_origin_env
  <2> QED BY <2>3, <2>4, <2>5, <2>6
<1> QED
  BY <1>0, <1>1, <1>2, <1>4, <1>5, <1>7, <1>9, <1>10, <1>11, <1>12, <1>13, <1>14
  DEF Next

\* The type invariant of the module holds in every reachable state.
THEOREM TypeCorrect == Spec => []TypeOK
<1>1. IInv => TypeOK
  BY DEF IInv
<1> QED
  BY <1>1, InitIInv, NextIInv, PTL DEF Spec

\* The lookup of get_origin_env never fails for a thread that works with
\* g_fake_env: no call is ever routed with a null environment.
THEOREM FakeEnvAlwaysResolves == Spec => []FakeEnvResolves
<1>1. IInv => FakeEnvResolves
  BY NullAssumption DEF IInv, FakeRecorded, RoutedRecorded, FakeEnvResolves
<1> QED
  BY <1>1, InitIInv, NextIInv, PTL DEF Spec

\* A call through g_fake_env is routed with the caller's own live environment
\* as long as its tid was not recycled.
THEOREM OriginEnvIsCurrent == Spec => []OriginEnvCurrent
<1>1. IInv => OriginEnvCurrent
  <2> SUFFICES ASSUME IInv, NEW t \in Thread, held[t] = "fake", tid[t] \notin recycled
               PROVE  /\ get_origin_env(t) = vmEnv[t]
                      /\ routed[t] \in {"none", "dropped", vmEnv[t]}
    BY DEF OriginEnvCurrent
  <2>1. Running(t) /\ tid[t] \in Tid /\ get_origin_env(t) # NoEnv
    BY DEF IInv, TypeOK, HolderAttached, FakeRecorded, Running
  <2>2. PICK s \in Thread : tid[s] = tid[t] /\ vmEnv[s] = get_origin_env(t)
    BY <2>1 DEF IInv, EntryOwned, get_origin_env
  <2>3. s = t
    BY <2>1, <2>2 DEF IInv, TidUnique
  <2> QED
    BY <2>2, <2>3 DEF IInv, RoutedRecorded
<1> QED
  BY <1>1, InitIInv, NextIInv, PTL DEF Spec

-----------------------------------------------------------------------------
(* The log.                                                                *)

\* From the first set_file_path on, log_file is null only after a failure; whoever
\* writes to the file was told to after that.
LogInv ==
    /\ out \in [Writer -> {"idle", "use_adb", "use_file"}]
    /\ adapt \in {"use_adb", "use_file"}
    /\ (adapt = "use_file" \/ use = "adapt") => (openFailed <=> log_file = "null")
    /\ \A t \in Writer : out[t] = "use_file" => adapt = "use_file"
    /\ LogCrashOnlyUnopened

-----------------------------------------------------------------------------
(* The packet log.                                                         *)

PacketType ==
    /\ loader \in {"idle", "opened", "found"}
    /\ writers \in Seq(BOOLEAN)
    /\ packet_file = Len(writers)
    /\ patched \in BOOLEAN
    /\ records \in Nat
    /\ file \in Seq((1..records) \X {"text", "break"})
    /\ thr \in [Caller -> [pc: {"idle", "text", "break"}, rec: 0..records, w: 0..Len(writers)]]
    /\ overlapped \in SUBSET (1..records)

\* strlen is patched, and its callers write, only once there is a writer.
WriterThere ==
    /\ ~packetCrash
    /\ loader # "idle" \/ patched => writers # <<>>
    /\ \A t \in Writing : patched

\* Every record under way has one thread.
RecordsApart ==
    /\ \A t \in Caller : thr[t].pc = "idle" <=> thr[t].rec = 0
    /\ \A t \in Caller : thr[t].pc = "idle" => thr[t].w = 0
    /\ \A t, u \in Writing : t # u => thr[t].rec # thr[u].rec
    /\ \A t, u \in Writing : t # u => thr[t].rec \in overlapped

Missing(r) == At(r, "text") = {} /\ At(r, "break") = {}

\* How far the record of thread t has come in the file.
Progress(t) ==
    /\ thr[t].pc = "text" => Missing(thr[t].rec)
    /\ thr[t].rec \notin overlapped =>
          /\ thr[t].w \in {0, packet_file}
          /\ thr[t].pc = "break" =>
                \/ thr[t].rec \in unwritten
                \/ IF writers[packet_file]
                   THEN At(thr[t].rec, "text") = {Len(file)} /\ At(thr[t].rec, "break") = {}
                   ELSE Missing(thr[t].rec)

\* A text that is not in the file failed or was given to a writer without one.
TextKept(r) == At(r, "text") = {} => r \in unwritten \/ \E w \in DOMAIN writers : ~writers[w]

PacketInv ==
    /\ PacketType
    /\ WriterThere
    /\ RecordsApart
    /\ \A t \in Writing : Progress(t)
    /\ \A t \in Writing : thr[t].pc = "break" => TextKept(thr[t].rec)
    /\ RecordsWhole
    /\ RecordsKept

-----------------------------------------------------------------------------
(* The sniffer.                                                            *)

SnifferType ==
    /\ xml \in Seq([name: Package, userId: Uid \cup {Shared}])
    /\ sniffer \in [pc: {"exit", "load", "mark", "input", "output", "capture", "crash"},
                    package: Package \cup {"none"}, uid: Uid \cup {"none"}]
    /\ sniffer.pc \in {"mark", "input", "output", "capture"} => sniffer.uid \in Uid
    /\ rules \in Seq({"OUTPUT", "INPUT"} \X {"CONNMARK", "NFLOG"} \X Uid)

Marks(uid) == Position(<<"OUTPUT", "CONNMARK", uid>>)
Logs(uid) == Position(<<"OUTPUT", "NFLOG", uid>>)

\* The first mark of a user comes before the first log rule.
MarkedFirst(uid) == \E i \in Marks(uid) : \A j \in Logs(uid) : i < j

\* A user whose commands are under way is one mark ahead.
Ahead(uid) == IF sniffer.pc \in {"input", "output"} /\ sniffer.uid = uid THEN 1 ELSE 0

SnifferInv ==
    /\ SnifferType
    /\ \A uid \in Uid : Logs(uid) # {} => MarkedFirst(uid)
    /\ sniffer.pc \in {"input", "output", "capture"} => MarkedFirst(sniffer.uid)
    /\ sniffer.pc \in {"output", "capture"} => Position(<<"INPUT", "NFLOG", sniffer.uid>>) # {}
    /\ sniffer.pc = "capture" => Logs(sniffer.uid) # {}
    /\ \A uid \in Uid \ failed : Cardinality(Marks(uid)) = Cardinality(Logs(uid)) + Ahead(uid)

CaptureInv == LogInv /\ PacketInv /\ SnifferInv

-----------------------------------------------------------------------------
(* Proofs: the log.                                                        *)

LEMMA LogInvInit == LogInit => LogInv
  BY DEF LogInit, LogInv, LogCrashOnlyUnopened

\* set_file_path comes before set_adapt, and a thread reads adapt before it writes.
LEMMA LogInvStep == LogInv /\ LogNext => LogInv'
  <1> SUFFICES ASSUME LogInv, LogNext PROVE LogInv'
    OBVIOUS
  <1> USE DEF LogInv, LogCrashOnlyUnopened
  <1>0. ~logCrash
    BY DEF LogNext
  <1>1. CASE use_file_log
    BY <1>0, <1>1 DEF use_file_log
  <1>2. ASSUME NEW b \in BOOLEAN, set_file_path(b) PROVE LogInv'
    BY <1>0, <1>2 DEF set_file_path, SetPath
  <1>3. CASE set_file_path_empty
    BY <1>0, <1>3 DEF set_file_path_empty, KeepPath
  <1>4. CASE set_adapt
    BY <1>0, <1>4 DEF set_adapt
  <1>5. ASSUME NEW t \in Writer, output_log(t) PROVE LogInv'
    BY <1>0, <1>5 DEF output_log
  <1>6. ASSUME NEW t \in Writer, log2file(t) PROVE LogInv'
    BY <1>0, <1>6 DEF log2file
  <1>7. ASSUME NEW t \in Writer, android_log_print(t) PROVE LogInv'
    BY <1>0, <1>7 DEF android_log_print
  <1> QED
    BY <1>1, <1>2, <1>3, <1>4, <1>5, <1>6, <1>7 DEF LogNext

LEMMA LogInvStutter == LogInv /\ UNCHANGED lvars => LogInv'
  BY DEF LogInv, LogCrashOnlyUnopened, lvars

-----------------------------------------------------------------------------
(* Proofs: the sniffer.                                                    *)

\* A set of numbers up to n that is not empty has a largest element.
LEMMA LargestExists ==
    ASSUME NEW n \in Nat, NEW S, S \subseteq 1..n, S # {}
    PROVE  \E i \in S : \A j \in S : j <= i
  <1> DEFINE R == OpToRel(<, Nat)
             T == {n - i : i \in S}
  <1>1. T \subseteq Nat /\ T # {}
    <2>1. \A i \in S : n - i \in Nat
      OBVIOUS
    <2>2. \A x \in T : x \in Nat
      BY <2>1
    <2> QED
      BY <2>2
  <1>2. \E x \in T : \A y \in T : ~ (<<y, x>> \in R)
    BY <1>1, WFMin, NatLessThanWellFounded, Zenon
  <1>3. \A x, y \in Nat : y < x => <<y, x>> \in R
    BY DEF OpToRel
  <1> HIDE DEF R
  <1>4. PICK x \in T : \A y \in T : ~ (<<y, x>> \in R)
    BY <1>2
  <1>5. \A y \in T : x \in Nat /\ y \in Nat /\ ~ (y < x)
    BY <1>1, <1>3, <1>4
  <1>6. PICK i \in S : x = n - i
    BY <1>4
  <1>7. \A j \in S : j <= i
    <2> SUFFICES ASSUME NEW j \in S PROVE j <= i
      OBVIOUS
    <2>1. n - j \in T
      OBVIOUS
    <2> QED
      BY <1>5, <1>6, <2>1
  <1> QED
    BY <1>7

\* Where a rule stands once another one is appended.
LEMMA PositionAppend ==
    ASSUME NEW S, rules \in Seq(S), NEW r \in S, rules' = Append(rules, r), NEW q
    PROVE  /\ Position(q)' = IF r = q THEN Position(q) \cup {Len(rules) + 1} ELSE Position(q)
           /\ Position(q) \subseteq 1..Len(rules) /\ Len(rules) \in Nat
  <1>1. /\ DOMAIN rules = 1..Len(rules) /\ Len(rules) \in Nat
        /\ DOMAIN rules' = 1..(Len(rules) + 1)
        /\ rules'[Len(rules) + 1] = r
        /\ \A i \in 1..Len(rules) : rules'[i] = rules[i]
    OBVIOUS
  <1> QED
    BY <1>1 DEF Position

\* Rules can be counted.
LEMMA PositionCount ==
    ASSUME NEW S, rules \in Seq(S), NEW q
    PROVE  IsFiniteSet(Position(q)) /\ Cardinality(Position(q)) \in Nat
  <1>1. Position(q) \subseteq 1..Len(rules) /\ Len(rules) \in Nat
    BY DEF Position
  <1>2. IsFiniteSet(1..Len(rules))
    BY <1>1, FS_Interval
  <1> QED
    BY <1>1, <1>2, FS_Subset, FS_CardinalityType

\* <<a, b>> \o <<c>> is a triple.
LEMMA Triple ==
    ASSUME NEW a, NEW b, NEW c PROVE <<a, b>> \o <<c>> = <<a, b, c>>
  <1> DEFINE S == {a, b, c}
             s == <<a, b>>
             t == <<c>>
             u == <<a, b, c>>
  <1>1. /\ s \in Seq(S) /\ t \in Seq(S) /\ u \in Seq(S)
        /\ Len(s) = 2 /\ Len(t) = 1 /\ Len(u) = 3
    OBVIOUS
  <1>2. s[1] = a /\ s[2] = b /\ t[1] = c /\ u[1] = a /\ u[2] = b /\ u[3] = c
    OBVIOUS
  <1> HIDE DEF s, t, u, S
  <1>3. /\ s \o t \in Seq(S) /\ Len(s \o t) = Len(s) + Len(t)
        /\ \A i \in 1..(Len(s) + Len(t)) : (s \o t)[i] = IF i <= Len(s) THEN s[i] ELSE t[i - Len(s)]
    BY <1>1, ConcatProperties, Zenon
  <1>4. /\ s \o t \in Seq(S) /\ Len(s \o t) = 3
        /\ \A i \in 1..3 : (s \o t)[i] = IF i <= 2 THEN s[i] ELSE t[i - 2]
    BY <1>1, <1>3
  <1> DEFINE w == s \o t
  <1>5. w \in Seq(S) /\ Len(w) = 3 /\ \A i \in 1..3 : w[i] = IF i <= 2 THEN s[i] ELSE t[i - 2]
    BY <1>4
  <1> HIDE DEF w
  <1>6. w[1] = s[1] /\ w[2] = s[2] /\ w[3] = t[1]
    BY <1>5
  <1>7. \A i \in 1..3 : w[i] = u[i]
    BY <1>2, <1>6
  <1>8. w = u
    BY <1>1, <1>5, <1>7, SeqEqual
  <1> QED
    BY <1>8 DEF s, t, u, w

\* The three commands, spelt out.
LEMMA CommandsAre ==
    ASSUME NEW uid
    PROVE  /\ Command("mark").rule \o <<uid>> = <<"OUTPUT", "CONNMARK", uid>>
           /\ Command("mark").next = "input"
           /\ Command("input").rule \o <<uid>> = <<"INPUT", "NFLOG", uid>>
           /\ Command("input").next = "output"
           /\ Command("output").rule \o <<uid>> = <<"OUTPUT", "NFLOG", uid>>
           /\ Command("output").next = "capture"
  <1>1. /\ Command("mark") = [rule |-> <<"OUTPUT", "CONNMARK">>, next |-> "input"]
        /\ Command("input") = [rule |-> <<"INPUT", "NFLOG">>, next |-> "output"]
        /\ Command("output") = [rule |-> <<"OUTPUT", "NFLOG">>, next |-> "capture"]
    BY DEF Command
  <1> HIDE DEF Command
  <1>2. /\ Command("mark").rule = <<"OUTPUT", "CONNMARK">> /\ Command("mark").next = "input"
        /\ Command("input").rule = <<"INPUT", "NFLOG">> /\ Command("input").next = "output"
        /\ Command("output").rule = <<"OUTPUT", "NFLOG">> /\ Command("output").next = "capture"
    BY <1>1
  <1>3. /\ <<"OUTPUT", "CONNMARK">> \o <<uid>> = <<"OUTPUT", "CONNMARK", uid>>
        /\ <<"INPUT", "NFLOG">> \o <<uid>> = <<"INPUT", "NFLOG", uid>>
        /\ <<"OUTPUT", "NFLOG">> \o <<uid>> = <<"OUTPUT", "NFLOG", uid>>
    BY Triple, Zenon
  <1> QED
    BY <1>2, <1>3, Zenon

RuleSet == {"OUTPUT", "INPUT"} \X {"CONNMARK", "NFLOG"} \X Uid

\* A step that neither appends a rule nor is between the commands of a user.
LEMMA SnifferQuiet ==
    ASSUME SnifferInv, SnifferType', rules' = rules, failed' = failed,
           sniffer'.pc \notin {"input", "output", "capture"},
           sniffer.pc \notin {"input", "output"}
    PROVE  SnifferInv'
  <1>1. \A uid \in Uid : /\ Marks(uid)' = Marks(uid) /\ Logs(uid)' = Logs(uid)
                         /\ Ahead(uid)' = Ahead(uid)
                         /\ MarkedFirst(uid)' <=> MarkedFirst(uid)
    BY DEF Marks, Logs, Position, Ahead, MarkedFirst
  <1> QED
    BY <1>1 DEF SnifferInv

LEMMA SnifferInvStep == SnifferInv /\ SnifferNext => SnifferInv'
  <1> SUFFICES ASSUME SnifferInv, SnifferNext PROVE SnifferInv'
    OBVIOUS
  <1> DEFINE uid == sniffer.uid
             n == Len(rules)
  <1>0. SnifferType /\ rules \in Seq(RuleSet) /\ n \in Nat
    BY DEF SnifferInv, SnifferType, RuleSet
  <1>1. ASSUME NEW p \in Package, main(p) PROVE SnifferInv'
    <2>1. SnifferType'
      BY <1>0, <1>1 DEF SnifferType, main
    <2> QED
      BY <1>1, <2>1, SnifferQuiet DEF main
  <1>2. CASE load_error
    <2>1. SnifferType'
      BY <1>0, <1>2 DEF SnifferType, load_error
    <2> QED
      BY <1>2, <2>1, SnifferQuiet DEF load_error, SnifferType
  <1>3. CASE find_userid
    <2> DEFINE m == Matches(sniffer.package)
               last == CHOOSE i \in m : \A j \in m : j <= i
    <2>1. /\ sniffer.pc = "load" /\ UNCHANGED <<xml, rules, failed>>
          /\ sniffer' = CASE m = {} -> [sniffer EXCEPT !.pc = "exit"]
                          [] \E i \in m : xml[i].userId = Shared -> [sniffer EXCEPT !.pc = "crash"]
                          [] OTHER -> [sniffer EXCEPT !.pc = "mark", !.uid = xml[last].userId]
      BY <1>3 DEF find_userid
    <2>2. /\ xml \in Seq([name: Package, userId: Uid \cup {Shared}])
          /\ Len(xml) \in Nat /\ m \subseteq 1..Len(xml)
      BY <1>0 DEF SnifferType, Matches
    <2>3. m # {} => last \in m
      <3>1. m # {} => \E i \in m : \A j \in m : j <= i
        BY <2>2, LargestExists
      <3> HIDE DEF m
      <3> QED
        BY <3>1
    <2>4. \A i \in m : xml[i].userId \in Uid \cup {Shared}
      <3>1. \A i \in 1..Len(xml) : xml[i] \in [name: Package, userId: Uid \cup {Shared}]
        BY <2>2, ElementOfSeq, Zenon
      <3> HIDE DEF m
      <3> QED
        BY <2>2, <3>1
    <2> HIDE DEF m, last
    <2>5. CASE m = {}
      <3>1. sniffer' = [sniffer EXCEPT !.pc = "exit"]
        BY <2>1, <2>5
      <3>2. SnifferType' /\ sniffer'.pc = "exit"
        BY <1>0, <2>1, <3>1 DEF SnifferType
      <3> QED
        BY <2>1, <3>2, SnifferQuiet
    <2>6. CASE m # {} /\ \E i \in m : xml[i].userId = Shared
      <3>1. sniffer' = [sniffer EXCEPT !.pc = "crash"]
        BY <2>1, <2>6
      <3>2. SnifferType' /\ sniffer'.pc = "crash"
        BY <1>0, <2>1, <3>1 DEF SnifferType
      <3> QED
        BY <2>1, <3>2, SnifferQuiet
    <2>7. CASE m # {} /\ ~ \E i \in m : xml[i].userId = Shared
      <3>1. sniffer' = [sniffer EXCEPT !.pc = "mark", !.uid = xml[last].userId]
        BY <2>1, <2>7
      <3>2. xml[last].userId \in Uid
        BY <2>3, <2>4, <2>7
      <3>3. SnifferType' /\ sniffer'.pc = "mark"
        BY <1>0, <2>1, <3>1, <3>2 DEF SnifferType
      <3> QED
        BY <2>1, <3>3, SnifferQuiet
    <2> QED
      BY <2>5, <2>6, <2>7
  <1>4. CASE system_call(FALSE)
    <2>1. /\ sniffer.pc \in {"mark", "input", "output"}
          /\ sniffer' = [sniffer EXCEPT !.pc = "exit"]
          /\ failed' = failed \cup {uid}
          /\ UNCHANGED <<rules, xml>>
      BY <1>4 DEF system_call, AfterFailure
    <2>2. SnifferType' /\ sniffer'.pc = "exit"
      BY <1>0, <2>1 DEF SnifferType
    <2>3. ASSUME NEW u \in Uid
          PROVE  /\ Marks(u)' = Marks(u) /\ Logs(u)' = Logs(u)
                 /\ MarkedFirst(u)' <=> MarkedFirst(u)
                 /\ u \notin failed' => u \notin failed /\ Ahead(u) = 0
                 /\ Ahead(u)' = 0
      BY <2>1, <2>2 DEF Marks, Logs, Position, Ahead, MarkedFirst
    <2> QED
      BY <2>2, <2>3 DEF SnifferInv
  <1>5. CASE system_call(TRUE)
    <2>1. /\ sniffer.pc \in {"mark", "input", "output"} /\ uid \in Uid
          /\ rules' = Append(rules, Command(sniffer.pc).rule \o <<uid>>)
          /\ sniffer' = [sniffer EXCEPT !.pc = Command(sniffer.pc).next]
          /\ UNCHANGED <<failed, xml>>
      BY <1>0, <1>5 DEF system_call, SnifferType
    <2>2. /\ sniffer'.uid = uid
          /\ sniffer \in [pc: {"exit", "load", "mark", "input", "output", "capture", "crash"},
                          package: Package \cup {"none"}, uid: Uid \cup {"none"}]
      BY <1>0, <2>1 DEF SnifferType
    <2>3. ASSUME NEW pc, sniffer.pc = pc PROVE sniffer'.pc = Command(pc).next
      BY <2>1, <2>2, <2>3
    <2>4. ASSUME NEW r \in RuleSet, rules' = Append(rules, r),
                 NEW c \in {"input", "output", "capture"}, sniffer'.pc = c
          PROVE  SnifferType'
      <3>1. rules' \in Seq(RuleSet)
        BY <1>0, <2>4
      <3>2. sniffer' = [sniffer EXCEPT !.pc = c]
        BY <2>1, <2>2, <2>4
      <3> QED
        BY <1>0, <2>1, <2>2, <3>1, <3>2 DEF SnifferType, RuleSet
    <2>5. CASE sniffer.pc = "mark"
      <3> DEFINE r == <<"OUTPUT", "CONNMARK", uid>>
      <3>1. rules' = Append(rules, r) /\ sniffer'.pc = "input" /\ r \in RuleSet
        BY <2>1, <2>3, <2>5, CommandsAre DEF RuleSet
      <3>2. SnifferType'
        BY <2>4, <3>1
      <3>3. ASSUME NEW u \in Uid
            PROVE  /\ Marks(u)' = IF u = uid THEN Marks(u) \cup {n + 1} ELSE Marks(u)
                   /\ Logs(u)' = Logs(u)
                   /\ Marks(u) \subseteq 1..n /\ Logs(u) \subseteq 1..n
                   /\ IsFiniteSet(Marks(u)) /\ Cardinality(Marks(u)) \in Nat
                   /\ Cardinality(Logs(u)) \in Nat
        <4> DEFINE mark == <<"OUTPUT", "CONNMARK", u>>
                   log == <<"OUTPUT", "NFLOG", u>>
        <4>1. (r = mark <=> u = uid) /\ r # log
          OBVIOUS
        <4>2. /\ Position(mark)' = IF r = mark THEN Position(mark) \cup {n + 1} ELSE Position(mark)
              /\ Position(log)' = IF r = log THEN Position(log) \cup {n + 1} ELSE Position(log)
              /\ Position(mark) \subseteq 1..n /\ Position(log) \subseteq 1..n
          BY <1>0, <3>1, PositionAppend
        <4>3. /\ IsFiniteSet(Position(mark)) /\ Cardinality(Position(mark)) \in Nat
              /\ IsFiniteSet(Position(log)) /\ Cardinality(Position(log)) \in Nat
          BY <1>0, PositionCount
        <4> HIDE DEF r
        <4> QED
          BY <4>1, <4>2, <4>3 DEF Marks, Logs
      <3>4. \A u \in Uid : Logs(u)' # {} => MarkedFirst(u)'
        BY <3>3 DEF SnifferInv, MarkedFirst
      <3>5. MarkedFirst(uid)'
        <4>1. CASE Logs(uid) = {}
          BY <2>1, <2>2, <3>3, <4>1 DEF MarkedFirst
        <4>2. CASE Logs(uid) # {}
          BY <2>1, <2>2, <3>3, <3>4, <4>2
        <4> QED
          BY <4>1, <4>2
      <3>6. ASSUME NEW u \in Uid \ failed
            PROVE  Cardinality(Marks(u)') = Cardinality(Logs(u)') + Ahead(u)'
        <4>1. Cardinality(Marks(u)) = Cardinality(Logs(u))
          BY <2>5, <3>3 DEF SnifferInv, Ahead
        <4>2. CASE u = uid
          <5>1. n + 1 \notin Marks(u)
            BY <1>0, <3>3
          <5>2. Cardinality(Marks(u)') = Cardinality(Marks(u)) + 1
            BY <3>3, <4>2, <5>1, FS_AddElement
          <5>3. Ahead(u)' = 1
            BY <2>2, <3>1, <4>2 DEF Ahead
          <5> QED
            BY <3>3, <4>1, <5>2, <5>3
        <4>3. CASE u # uid
          <5>1. Ahead(u)' = 0
            BY <2>2, <4>3 DEF Ahead
          <5> QED
            BY <3>3, <4>1, <4>3, <5>1
        <4> QED
          BY <4>2, <4>3
      <3> QED
        BY <2>1, <2>2, <3>1, <3>2, <3>4, <3>5, <3>6 DEF SnifferInv
    <2>6. CASE sniffer.pc = "input"
      <3> DEFINE r == <<"INPUT", "NFLOG", uid>>
      <3>1. rules' = Append(rules, r) /\ sniffer'.pc = "output" /\ r \in RuleSet
        BY <2>1, <2>3, <2>6, CommandsAre DEF RuleSet
      <3>2. SnifferType'
        BY <2>4, <3>1
      <3>3. ASSUME NEW u \in Uid
            PROVE  /\ Marks(u)' = Marks(u) /\ Logs(u)' = Logs(u)
                   /\ MarkedFirst(u)' <=> MarkedFirst(u)
                   /\ Ahead(u)' = Ahead(u)
        <4> DEFINE mark == <<"OUTPUT", "CONNMARK", u>>
                   log == <<"OUTPUT", "NFLOG", u>>
        <4>1. r # mark /\ r # log
          OBVIOUS
        <4>2. /\ Position(mark)' = IF r = mark THEN Position(mark) \cup {n + 1} ELSE Position(mark)
              /\ Position(log)' = IF r = log THEN Position(log) \cup {n + 1} ELSE Position(log)
              /\ Position(mark) \subseteq 1..n /\ Position(log) \subseteq 1..n
          BY <1>0, <3>1, PositionAppend
        <4> HIDE DEF r
        <4> QED
          BY <2>2, <2>6, <3>1, <4>1, <4>2 DEF Marks, Logs, MarkedFirst, Ahead
      <3>4. MarkedFirst(uid)'
        BY <2>1, <2>2, <2>6, <3>3 DEF SnifferInv
      <3>5. n + 1 \in Position(<<"INPUT", "NFLOG", uid>>)'
        <4>1. DOMAIN rules' = 1..(n + 1) /\ rules'[n + 1] = r
          BY <1>0, <3>1
        <4> QED
          BY <1>0, <2>2, <4>1 DEF Position
      <3> QED
        BY <2>1, <2>2, <3>1, <3>2, <3>3, <3>4, <3>5 DEF SnifferInv
    <2>7. CASE sniffer.pc = "output"
      <3> DEFINE r == <<"OUTPUT", "NFLOG", uid>>
      <3>1. rules' = Append(rules, r) /\ sniffer'.pc = "capture" /\ r \in RuleSet
        BY <2>1, <2>3, <2>7, CommandsAre DEF RuleSet
      <3>2. SnifferType'
        BY <2>4, <3>1
      <3>3. ASSUME NEW u \in Uid
            PROVE  /\ Marks(u)' = Marks(u)
                   /\ Logs(u)' = IF u = uid THEN Logs(u) \cup {n + 1} ELSE Logs(u)
                   /\ Marks(u) \subseteq 1..n /\ Logs(u) \subseteq 1..n
                   /\ IsFiniteSet(Logs(u)) /\ Cardinality(Marks(u)) \in Nat
                   /\ Cardinality(Logs(u)) \in Nat
        <4> DEFINE mark == <<"OUTPUT", "CONNMARK", u>>
                   log == <<"OUTPUT", "NFLOG", u>>
        <4>1. r # mark /\ (r = log <=> u = uid)
          OBVIOUS
        <4>2. /\ Position(mark)' = IF r = mark THEN Position(mark) \cup {n + 1} ELSE Position(mark)
              /\ Position(log)' = IF r = log THEN Position(log) \cup {n + 1} ELSE Position(log)
              /\ Position(mark) \subseteq 1..n /\ Position(log) \subseteq 1..n
          BY <1>0, <3>1, PositionAppend
        <4>3. /\ IsFiniteSet(Position(mark)) /\ Cardinality(Position(mark)) \in Nat
              /\ IsFiniteSet(Position(log)) /\ Cardinality(Position(log)) \in Nat
          BY <1>0, PositionCount
        <4> HIDE DEF r
        <4> QED
          BY <4>1, <4>2, <4>3 DEF Marks, Logs
      <3>4. MarkedFirst(uid)' /\ Logs(uid)' # {}
        <4>1. PICK i \in Marks(uid) : \A j \in Logs(uid) : i < j
          BY <2>7 DEF SnifferInv, MarkedFirst
        <4>2. i \in 1..n /\ \A j \in Logs(uid) \cup {n + 1} : i < j
          BY <1>0, <2>1, <3>3, <4>1
        <4>3. Marks(uid)' = Marks(uid) /\ Logs(uid)' = Logs(uid) \cup {n + 1}
          <5> SUFFICES ASSUME NEW u \in Uid, u = uid
                       PROVE  Marks(u)' = Marks(u) /\ Logs(u)' = Logs(u) \cup {n + 1}
            BY <2>1, <2>2
          <5> QED
            BY <3>3
        <4> QED
          BY <4>1, <4>2, <4>3 DEF MarkedFirst
      <3>5. \A u \in Uid : Logs(u)' # {} => MarkedFirst(u)'
        BY <2>2, <3>3, <3>4 DEF SnifferInv, MarkedFirst
      <3>6. Position(<<"INPUT", "NFLOG", uid>>)' # {}
        <4> SUFFICES ASSUME NEW u \in Uid, u = uid
                     PROVE  Position(<<"INPUT", "NFLOG", u>>)' # {}
          BY <2>1, <2>2
        <4>1. /\ Position(<<"INPUT", "NFLOG", u>>) # {}
              /\ r # <<"INPUT", "NFLOG", u>>
          BY <2>7 DEF SnifferInv
        <4> QED
          BY <1>0, <3>1, <4>1, PositionAppend
      <3>7. ASSUME NEW u \in Uid \ failed
            PROVE  Cardinality(Marks(u)') = Cardinality(Logs(u)') + Ahead(u)'
        <4>1. Ahead(u)' = 0
          BY <3>1 DEF Ahead
        <4>2. CASE u = uid
          <5>1. n + 1 \notin Logs(u)
            BY <1>0, <3>3
          <5>2. Cardinality(Logs(u)') = Cardinality(Logs(u)) + 1
            <6>1. Logs(u)' = Logs(u) \cup {n + 1} /\ IsFiniteSet(Logs(u))
              BY <3>3, <4>2
            <6>2. Cardinality(Logs(u) \cup {n + 1}) = Cardinality(Logs(u)) + 1
              BY <5>1, <6>1, FS_AddElement
            <6> QED
              BY <6>1, <6>2
          <5>3. Ahead(u) = 1
            BY <2>7, <4>2 DEF Ahead
          <5> QED
            BY <3>3, <4>1, <5>2, <5>3 DEF SnifferInv
        <4>3. CASE u # uid
          <5>1. Ahead(u) = 0
            BY <4>3 DEF Ahead
          <5> QED
            BY <3>3, <4>1, <4>3, <5>1 DEF SnifferInv
        <4> QED
          BY <4>2, <4>3
      <3> QED
        BY <2>1, <2>2, <3>1, <3>2, <3>4, <3>5, <3>6, <3>7 DEF SnifferInv
    <2> QED
      BY <2>1, <2>5, <2>6, <2>7
  <1>6. CASE tcpdump_ends
    <2>1. SnifferType'
      BY <1>0, <1>6 DEF SnifferType, tcpdump_ends
    <2> QED
      BY <1>6, <2>1, SnifferQuiet DEF tcpdump_ends, SnifferType
  <1> QED
    BY <1>1, <1>2, <1>3, <1>4, <1>5, <1>6 DEF SnifferNext

LEMMA SnifferInvStutter == SnifferInv /\ UNCHANGED svars => SnifferInv'
  <1> SUFFICES ASSUME SnifferInv, UNCHANGED svars PROVE SnifferInv'
    OBVIOUS
  <1>1. UNCHANGED <<xml, sniffer, rules, failed>>
    BY DEF svars
  <1>2. \A u : /\ Marks(u)' = Marks(u) /\ Logs(u)' = Logs(u) /\ Ahead(u)' = Ahead(u)
               /\ Position(<<"INPUT", "NFLOG", u>>)' = Position(<<"INPUT", "NFLOG", u>>)
    BY <1>1 DEF Marks, Logs, Position, Ahead
  <1>3. \A u : MarkedFirst(u)' <=> MarkedFirst(u)
    BY <1>2 DEF MarkedFirst
  <1>4. SnifferType'
    BY <1>1 DEF SnifferInv, SnifferType
  <1> QED
    BY <1>1, <1>2, <1>3, <1>4 DEF SnifferInv

LEMMA SnifferInvInit == SnifferInit => SnifferInv
  <1> SUFFICES ASSUME SnifferInit PROVE SnifferInv
    OBVIOUS
  <1>1. /\ xml \in UNION {[1..n -> [name: Package, userId: Uid \cup {Shared}]] : n \in 0..2}
        /\ sniffer = [pc |-> "exit", package |-> "none", uid |-> "none"]
        /\ rules = <<>>
        /\ failed = {}
    BY DEF SnifferInit
  <1>2. xml \in Seq([name: Package, userId: Uid \cup {Shared}])
    <2> DEFINE S == [name: Package, userId: Uid \cup {Shared}]
    <2> HIDE DEF S
    <2>1. PICK n \in 0..2 : xml \in [1..n -> S]
      BY <1>1 DEF S
    <2>2. xml \in Seq(S)
      BY <2>1
    <2> QED
      BY <2>2 DEF S
  <1>3. SnifferType
    BY <1>1, <1>2 DEF SnifferType
  <1>4. \A uid \in Uid : Marks(uid) = {} /\ Logs(uid) = {} /\ Ahead(uid) = 0
    BY <1>1 DEF Marks, Logs, Position, Ahead
  <1>5. \A uid \in Uid : Cardinality(Marks(uid)) = Cardinality(Logs(uid)) + Ahead(uid)
    BY <1>4, FS_EmptySet
  <1> QED
    BY <1>1, <1>3, <1>4, <1>5 DEF SnifferInv

-----------------------------------------------------------------------------
(* Proofs: the packet log.                                                 *)

\* Where a part stands once another one is appended.
LEMMA AtAppend ==
    ASSUME NEW S, file \in Seq(S), NEW e \in S, file' = Append(file, e), NEW r, NEW q
    PROVE  At(r, q)' = IF e = <<r, q>> THEN At(r, q) \cup {Len(file) + 1} ELSE At(r, q)
  <1>1. /\ DOMAIN file = 1..Len(file) /\ Len(file) \in Nat
        /\ DOMAIN file' = 1..(Len(file) + 1)
        /\ file'[Len(file) + 1] = e
        /\ \A i \in 1..Len(file) : file'[i] = file[i]
    OBVIOUS
  <1> DEFINE part == <<r, q>>
  <1>2. /\ At(r, q) = {i \in DOMAIN file : file[i] = part}
        /\ At(r, q)' = {i \in DOMAIN file' : file'[i] = part}
    BY DEF At
  <1> HIDE DEF part
  <1>3. At(r, q)' = IF e = part THEN At(r, q) \cup {Len(file) + 1} ELSE At(r, q)
    BY <1>1, <1>2
  <1> QED
    BY <1>3 DEF part

\* The rows of the threads, one field at a time.
LEMMA PacketRows ==
    ASSUME PacketType
    PROVE  /\ Len(writers) \in Nat /\ DOMAIN writers = 1..Len(writers)
           /\ Len(file) \in Nat /\ DOMAIN file = 1..Len(file)
           /\ \A t \in Caller : /\ thr[t].pc \in {"idle", "text", "break"}
                                /\ thr[t].rec \in 0..records
                                /\ thr[t].w \in 0..Len(writers)
  BY DEF PacketType

\* A step that leaves the threads and the file alone, and adds no writer.
LEMMA LoaderKeeps ==
    ASSUME PacketInv, loader' \in {"idle", "opened", "found"}, patched' \in BOOLEAN,
           (loader' # "idle" \/ patched') => (loader # "idle" \/ patched),
           patched => patched',
           UNCHANGED <<packet_file, writers, file, thr, records, overlapped, unwritten, packetCrash>>
    PROVE  PacketInv'
  <1>1. Writing' = Writing /\ Finished' = Finished
    BY DEF Writing, Finished
  <1>2. \A r, q : At(r, q)' = At(r, q)
    BY DEF At
  <1>3. PacketType' /\ WriterThere'
    BY <1>1 DEF PacketInv, PacketType, WriterThere
  <1>4. RecordsApart'
    BY <1>1 DEF PacketInv, RecordsApart
  <1>5. \A t \in Writing' : Progress(t)'
    BY <1>1, <1>2 DEF PacketInv, Progress, Missing
  <1>6. (\A t \in Writing : thr[t].pc = "break" => TextKept(thr[t].rec))'
    BY <1>1, <1>2 DEF PacketInv, TextKept
  <1>7. RecordsWhole' /\ RecordsKept'
    BY <1>1, <1>2 DEF PacketInv, RecordsWhole, RecordsKept
  <1> QED
    BY <1>3, <1>4, <1>5, <1>6, <1>7 DEF PacketInv

\* hook_pangle: the records under way may be split between two writers.
LEMMA PangleKeeps ==
    ASSUME PacketInv, NEW b \in BOOLEAN, hook_pangle(b) PROVE PacketInv'
  <1> DEFINE n == Len(writers)
  <1>0. PacketType
    BY DEF PacketInv
  <1>1. /\ writers' = Append(writers, b) /\ packet_file' = Len(writers')
        /\ file' = file /\ loader' = "opened"
        /\ overlapped' = overlapped \cup {thr[t].rec : t \in Writing}
        /\ UNCHANGED <<patched, thr, records, unwritten, packetCrash>>
    BY DEF hook_pangle, Latest, Opened
  <1>2. /\ n \in Nat /\ DOMAIN writers = 1..n /\ writers' \in Seq(BOOLEAN)
        /\ Len(writers') = n + 1 /\ DOMAIN writers' = 1..(n + 1)
        /\ \A i \in 1..n : writers'[i] = writers[i]
    BY <1>0, <1>1 DEF PacketType
  <1>3. Writing' = Writing /\ Finished' = Finished
    BY <1>1 DEF Writing, Finished
  <1>4. \A r, q : At(r, q)' = At(r, q)
    BY <1>1 DEF At
  <1>5. \A t \in Writing : t \in Caller /\ thr[t].rec \in 1..records /\ thr[t].rec \in overlapped'
    BY <1>0, <1>1, PacketRows DEF Writing, PacketInv, RecordsApart, PacketType
  <1>6. PacketType'
    <2>1. overlapped' \in SUBSET (1..records)
      BY <1>0, <1>1, <1>5 DEF PacketType
    <2>2. thr \in [Caller -> [pc: {"idle", "text", "break"}, rec: 0..records, w: 0..(n + 1)]]
      <3>1. \A t \in Caller : thr[t] \in [pc: {"idle", "text", "break"}, rec: 0..records, w: 0..(n + 1)]
        BY <1>0, <1>2 DEF PacketType
      <3> QED
        BY <1>0, <3>1 DEF PacketType
    <2> QED
      BY <1>0, <1>1, <1>2, <2>1, <2>2 DEF PacketType
  <1>7. WriterThere'
    BY <1>1, <1>2, <1>3 DEF PacketInv, WriterThere
  <1>8. RecordsApart'
    BY <1>1, <1>3, <1>5 DEF PacketInv, RecordsApart
  <1>9. \A t \in Writing' : Progress(t)'
    BY <1>1, <1>3, <1>4, <1>5 DEF PacketInv, Progress, Missing
  <1>10. (\E w \in DOMAIN writers : ~writers[w]) => (\E w \in DOMAIN writers : ~writers[w])'
    BY <1>2
  <1>11. (\A t \in Writing : thr[t].pc = "break" => TextKept(thr[t].rec))'
    BY <1>1, <1>3, <1>4, <1>10 DEF PacketInv, TextKept
  <1>12. RecordsWhole' /\ RecordsKept'
    BY <1>1, <1>3, <1>4, <1>10 DEF PacketInv, RecordsWhole, RecordsKept
  <1> QED
    BY <1>6, <1>7, <1>8, <1>9, <1>11, <1>12 DEF PacketInv

\* A call of the patched strlen begins a record of its own.
LEMMA StrlenKeeps ==
    ASSUME PacketInv, NEW t \in Caller, hook_pangle_strlen(t) PROVE PacketInv'
  <1> DEFINE n == records
  <1>0. PacketType
    BY DEF PacketInv
  <1>1. /\ patched /\ thr[t].pc = "idle" /\ records' = n + 1
        /\ thr' = [thr EXCEPT ![t] = [pc |-> "text", rec |-> n + 1, w |-> 0]]
        /\ overlapped' = IF Writing = {} THEN overlapped
                         ELSE overlapped \cup {n + 1} \cup {thr[u].rec : u \in Writing}
        /\ UNCHANGED <<loader, packet_file, writers, patched, file, unwritten, packetCrash>>
    BY DEF hook_pangle_strlen
  <1>2. /\ thr'[t].pc = "text" /\ thr'[t].rec = n + 1 /\ thr'[t].w = 0
        /\ \A u \in Caller : u # t => thr'[u] = thr[u]
        /\ n \in Nat
    BY <1>0, <1>1 DEF PacketType
  <1>3. Writing' = Writing \cup {t} /\ t \notin Writing
    BY <1>1, <1>2 DEF Writing
  <1>4. \A u \in Writing : /\ u \in Caller /\ thr[u].rec \in 1..n /\ u # t /\ thr'[u] = thr[u]
                           /\ thr[u].rec \in overlapped' /\ n + 1 \in overlapped'
    BY <1>0, <1>1, <1>2, <1>3, PacketRows, SMTT(60) DEF Writing, PacketInv, RecordsApart, PacketType
  <1>5. \A r, q : At(r, q)' = At(r, q)
    BY <1>1 DEF At
  <1>6. Finished' = Finished
    <2>1. \A r \in 1..n : r \in Finished' <=> r \in Finished
      BY <1>1, <1>2, <1>3, <1>4 DEF Finished
    <2>2. n + 1 \notin Finished' /\ Finished' \subseteq 1..(n + 1) /\ Finished \subseteq 1..n
      BY <1>1, <1>2, <1>3 DEF Finished
    <2>3. \A r \in 1..(n + 1) : r \in 1..n \/ r = n + 1
      BY <1>2
    <2>4. \A r : r \in Finished' <=> r \in Finished
      BY <2>1, <2>2, <2>3
    <2> QED
      BY <2>4
  <1>7. Missing(n + 1)
    <2>1. \A i \in 1..Len(file) : file[i] \in (1..n) \X {"text", "break"}
      BY <1>0, ElementOfSeq, Zenon DEF PacketType
    <2>2. \A i \in 1..Len(file), q \in {"text", "break"} : file[i] # <<n + 1, q>>
      BY <1>2, <2>1
    <2> QED
      BY <1>0, <2>2, PacketRows DEF Missing, At
  <1>8. PacketType'
    <2>1. file \in Seq((1..(n + 1)) \X {"text", "break"})
      <3>1. \A i \in 1..Len(file) : file[i] \in (1..n) \X {"text", "break"}
        BY <1>0, ElementOfSeq, Zenon DEF PacketType
      <3>2. \A i \in 1..Len(file) : file[i] \in (1..(n + 1)) \X {"text", "break"}
        BY <1>2, <3>1
      <3> DEFINE S == (1..(n + 1)) \X {"text", "break"}
      <3>3. \A i \in 1..Len(file) : file[i] \in S
        BY <3>2
      <3> HIDE DEF S
      <3>4. file \in [1..Len(file) -> S] /\ Len(file) \in Nat
        BY <1>0, <3>3 DEF PacketType
      <3>5. file \in Seq(S)
        BY <3>4
      <3> QED
        BY <3>5 DEF S
    <2>2. thr' \in [Caller -> [pc: {"idle", "text", "break"}, rec: 0..(n + 1), w: 0..Len(writers)]]
      <3> DEFINE Row == [pc: {"idle", "text", "break"}, rec: 0..(n + 1), w: 0..Len(writers)]
      <3>1. \A u \in Caller : thr[u] \in Row
        BY <1>0, <1>2 DEF PacketType
      <3>2. [pc |-> "text", rec |-> n + 1, w |-> 0] \in Row
        BY <1>0, <1>2, PacketRows
      <3>3. thr \in [Caller -> Row]
        BY <1>0, <3>1 DEF PacketType
      <3> HIDE DEF Row
      <3>4. thr' \in [Caller -> Row]
        BY <1>1, <3>2, <3>3
      <3> QED
        BY <3>4 DEF Row
    <2>3. overlapped' \in SUBSET (1..(n + 1))
      <3>1. \A r \in 1..n : r \in 1..(n + 1)
        BY <1>2
      <3>2. n + 1 \in 1..(n + 1)
        BY <1>2
      <3>3. \A r \in overlapped' : r \in overlapped \/ r = n + 1 \/ \E u \in Writing : r = thr[u].rec
        BY <1>1
      <3>4. \A r \in overlapped' : r \in 1..n \/ r = n + 1
        BY <1>0, <1>4, <3>3 DEF PacketType
      <3> QED
        BY <3>1, <3>2, <3>4
    <2> QED
      BY <1>0, <1>1, <1>2, <2>1, <2>2, <2>3 DEF PacketType
  <1>9. WriterThere'
    BY <1>1, <1>3 DEF PacketInv, WriterThere
  <1>10. RecordsApart'
    <2>1. \A u \in Caller : /\ thr'[u].pc = "idle" <=> thr'[u].rec = 0
                            /\ thr'[u].pc = "idle" => thr'[u].w = 0
      BY <1>2 DEF PacketInv, RecordsApart
    <2>2. ASSUME NEW u \in Writing', NEW v \in Writing', u # v
          PROVE  thr'[u].rec # thr'[v].rec /\ thr'[u].rec \in overlapped'
      <3>1. CASE u = t
        <4>1. v \in Writing /\ thr'[v].rec \in 1..n
          BY <1>3, <1>4, <2>2, <3>1
        <4> QED
          BY <1>2, <1>4, <3>1, <4>1
      <3>2. CASE v = t
        <4>1. u \in Writing /\ thr'[u].rec \in 1..n
          BY <1>3, <1>4, <2>2, <3>2
        <4> QED
          BY <1>2, <1>4, <3>2, <4>1
      <3>3. CASE u # t /\ v # t
        BY <1>3, <1>4, <2>2, <3>3 DEF PacketInv, RecordsApart
      <3> QED
        BY <3>1, <3>2, <3>3
    <2> QED
      BY <2>1, <2>2 DEF RecordsApart
  <1>11. \A u \in Writing' : Progress(u)'
    <2>1. Progress(t)'
      BY <1>1, <1>2, <1>5, <1>7 DEF Progress, Missing
    <2>2. ASSUME NEW u \in Writing PROVE Progress(u)'
      BY <1>1, <1>4, <1>5 DEF PacketInv, Progress, Missing
    <2> QED
      BY <1>3, <2>1, <2>2
  <1>12. (\A u \in Writing : thr[u].pc = "break" => TextKept(thr[u].rec))'
    BY <1>1, <1>2, <1>3, <1>4, <1>5 DEF PacketInv, TextKept
  <1>13. RecordsWhole' /\ RecordsKept'
    BY <1>1, <1>5, <1>6 DEF PacketInv, RecordsWhole, RecordsKept
  <1> QED
    BY <1>8, <1>9, <1>10, <1>11, <1>12, <1>13 DEF PacketInv

\* The pointer that is read is not null.
LEMMA LoadKeeps ==
    ASSUME PacketInv, NEW t \in Caller, load_writer(t) PROVE PacketInv'
  <1>0. PacketType
    BY DEF PacketInv
  <1>1. /\ thr[t].pc \in {"text", "break"}
        /\ UNCHANGED <<loader, packet_file, writers, patched, file, records, overlapped, unwritten>>
    BY DEF load_writer
  <1>2. packet_file # 0 /\ packet_file \in 0..Len(writers)
    BY <1>0, <1>1 DEF PacketInv, WriterThere, Writing, PacketType
  <1>3. thr' = [thr EXCEPT ![t].w = packet_file] /\ UNCHANGED packetCrash
    BY <1>2 DEF load_writer
  <1>4. /\ thr'[t].pc = thr[t].pc /\ thr'[t].rec = thr[t].rec /\ thr'[t].w = packet_file
        /\ \A u \in Caller : u # t => thr'[u] = thr[u]
    BY <1>0, <1>3 DEF PacketType
  <1>5. \A u \in Caller : thr'[u].pc = thr[u].pc /\ thr'[u].rec = thr[u].rec
    BY <1>4
  <1>6. Writing' = Writing /\ Finished' = Finished
    <2>1. Writing' = Writing
      BY <1>5 DEF Writing
    <2> QED
      BY <1>1, <1>5, <2>1 DEF Finished, Writing
  <1>7. \A r, q : At(r, q)' = At(r, q)
    BY <1>1 DEF At
  <1>8. PacketType'
    <2> DEFINE W == 0..Len(writers)
    <2>1. thr \in [Caller -> [pc: {"idle", "text", "break"}, rec: 0..records, w: W]]
          /\ packet_file \in W
      BY <1>0, <1>2 DEF PacketType
    <2> HIDE DEF W
    <2>2. thr' \in [Caller -> [pc: {"idle", "text", "break"}, rec: 0..records, w: W]]
      BY <1>3, <2>1
    <2> QED
      BY <1>0, <1>1, <2>2 DEF PacketType, W
  <1>9. WriterThere'
    BY <1>1, <1>3, <1>6 DEF PacketInv, WriterThere
  <1>10. RecordsApart'
    <2>1. \A u \in Caller : thr'[u].pc = "idle" => thr'[u].w = 0
      BY <1>1, <1>4 DEF PacketInv, RecordsApart
    <2> QED
      BY <1>1, <1>5, <1>6, <2>1 DEF PacketInv, RecordsApart, Writing
  <1>11. ASSUME NEW u \in Writing' PROVE Progress(u)'
    <2>1. u \in Caller /\ Progress(u)
      BY <1>6, <1>11 DEF PacketInv, Writing
    <2>2. thr'[u].w = thr[u].w \/ thr'[u].w = packet_file
      BY <1>4, <2>1
    <2> QED
      BY <1>1, <1>5, <1>7, <2>1, <2>2 DEF Progress, Missing
  <1>12. (\A u \in Writing : thr[u].pc = "break" => TextKept(thr[u].rec))'
    BY <1>1, <1>5, <1>6, <1>7 DEF PacketInv, TextKept, Writing
  <1>13. RecordsWhole' /\ RecordsKept'
    BY <1>1, <1>6, <1>7 DEF PacketInv, RecordsWhole, RecordsKept
  <1> QED
    BY <1>8, <1>9, <1>10, <1>11, <1>12, <1>13 DEF PacketInv

\* A part goes to the end of the file: behind its text if nobody interfered.
LEMMA WriteKeeps ==
    ASSUME PacketInv, NEW t \in Caller, write(t) PROVE PacketInv'
  <1> SUFFICES ASSUME NEW r, r = thr[t].rec, NEW pc, pc = thr[t].pc,
                      NEW w, w = thr[t].w, NEW n, n = Len(file),
                      NEW ok \in BOOLEAN, ok => writers[w],
                      file' = IF ok THEN Append(file, <<r, pc>>) ELSE file,
                      unwritten' = IF writers[w] /\ ~ok THEN unwritten \cup {r} ELSE unwritten
               PROVE  PacketInv'
    <2>1. PICK ok \in BOOLEAN :
            LET open == writers[thr[t].w]
            IN  /\ file' = IF open /\ ok THEN Append(file, <<thr[t].rec, thr[t].pc>>) ELSE file
                /\ unwritten' = IF open /\ ~ok THEN unwritten \cup {thr[t].rec} ELSE unwritten
      BY DEF write, Part
    <2>2. CASE writers[thr[t].w] /\ ok
      BY <2>1, <2>2
    <2>3. CASE ~(writers[thr[t].w] /\ ok)
      BY <2>1, <2>3
    <2> QED
      BY <2>2, <2>3
  <1> DEFINE row == IF pc = "text" THEN [thr[t] EXCEPT !.pc = "break", !.w = 0] ELSE Idle
  <1>0. PacketType
    BY DEF PacketInv
  <1>1. /\ w # 0
        /\ thr' = [thr EXCEPT ![t] = row]
        /\ UNCHANGED <<loader, packet_file, writers, patched, records, overlapped, packetCrash>>
    BY <1>0 DEF write, Part, PacketType
  <1>2. /\ pc \in {"text", "break"} /\ r \in 1..records /\ t \in Writing
        /\ w \in 1..Len(writers) /\ n \in Nat /\ records \in Nat
    BY <1>0, <1>1, PacketRows DEF PacketInv, RecordsApart, Writing, PacketType
  <1>3. /\ row.pc = (IF pc = "text" THEN "break" ELSE "idle")
        /\ row.rec = (IF pc = "text" THEN r ELSE 0)
        /\ row.w = 0
        /\ row \in [pc: {"idle", "text", "break"}, rec: 0..records, w: 0..Len(writers)]
    <2>1. CASE pc = "text"
      <3>1. thr[t] \in [pc: {"idle", "text", "break"}, rec: 0..records, w: 0..Len(writers)]
        BY <1>0 DEF PacketType
      <3>2. 0 \in 0..Len(writers)
        BY <1>0, PacketRows
      <3> QED
        BY <2>1, <3>1, <3>2
    <2>2. CASE pc = "break"
      <3>1. 0 \in 0..Len(writers) /\ 0 \in 0..records
        BY <1>0, <1>2, PacketRows
      <3> QED
        BY <2>2, <3>1 DEF Idle
    <2> QED
      BY <1>2, <2>1, <2>2
  <1> HIDE DEF row
  <1>4. /\ thr'[t] = row /\ \A u \in Caller : u # t => thr'[u] = thr[u]
        /\ thr' \in [Caller -> [pc: {"idle", "text", "break"}, rec: 0..records, w: 0..Len(writers)]]
    BY <1>0, <1>1, <1>3 DEF PacketType
  <1>5. Writing' = IF pc = "text" THEN Writing ELSE Writing \ {t}
    BY <1>2, <1>3, <1>4 DEF Writing
  <1>6. ASSUME NEW u \in Writing', u # t
        PROVE  /\ u \in Writing /\ u \in Caller /\ thr'[u] = thr[u]
               /\ thr[u].rec # r /\ thr[u].rec \in overlapped
    BY <1>2, <1>4, <1>5, <1>6 DEF PacketInv, RecordsApart, Writing
  <1>7. /\ file' \in Seq((1..records) \X {"text", "break"})
        /\ Len(file') = IF ok THEN n + 1 ELSE n
        /\ \A q, part : At(q, part)' = IF ok /\ q = r /\ part = pc
                                       THEN At(q, part) \cup {n + 1}
                                       ELSE At(q, part)
    <2>1. CASE ~ok
      BY <1>0, <1>1, <2>1 DEF PacketType, At
    <2>2. CASE ok
      <3> DEFINE S == (1..records) \X {"text", "break"}
                 e == <<r, pc>>
      <3>1. file' = Append(file, e) /\ e \in S
        BY <1>1, <1>2, <2>2
      <3>2. file \in Seq(S)
        BY <1>0 DEF PacketType
      <3>3. \A q, part : e = <<q, part>> <=> q = r /\ part = pc
        OBVIOUS
      <3> HIDE DEF S, e
      <3>4. ASSUME NEW q, NEW part
            PROVE  At(q, part)' = IF e = <<q, part>> THEN At(q, part) \cup {Len(file) + 1}
                                                     ELSE At(q, part)
        BY <3>1, <3>2, AtAppend, Zenon
      <3>5. file' \in Seq(S) /\ Len(file') = n + 1
        BY <3>1, <3>2
      <3>6. \A q, part : At(q, part)' = IF q = r /\ part = pc THEN At(q, part) \cup {n + 1}
                                                             ELSE At(q, part)
        BY <3>3, <3>4, Zenon
      <3> QED
        BY <2>2, <3>5, <3>6 DEF S
    <2> QED
      BY <2>1, <2>2
  <1>u. /\ \A q : q \in unwritten => q \in unwritten'
        /\ \A q : q # r => (q \in unwritten' <=> q \in unwritten)
        /\ writers[w] /\ ~ok => r \in unwritten'
    OBVIOUS
  <1>8. PacketType'
    BY <1>0, <1>1, <1>4, <1>7 DEF PacketType
  <1>9. WriterThere'
    BY <1>1, <1>5 DEF PacketInv, WriterThere
  <1>10. RecordsApart'
    <2>1. \A u \in Caller : /\ thr'[u].pc = "idle" <=> thr'[u].rec = 0
                            /\ thr'[u].pc = "idle" => thr'[u].w = 0
      <3>1. /\ thr'[t].pc = "idle" <=> thr'[t].rec = 0
            /\ thr'[t].w = 0
        BY <1>2, <1>3, <1>4
      <3> QED
        BY <1>4, <3>1 DEF PacketInv, RecordsApart
    <2>2. ASSUME NEW u \in Writing', NEW v \in Writing', u # v
          PROVE  thr'[u].rec # thr'[v].rec /\ thr'[u].rec \in overlapped'
      <3>1. \A x \in Writing' : x \in Writing /\ thr'[x].rec = thr[x].rec
        BY <1>2, <1>3, <1>4, <1>5 DEF Writing
      <3> QED
        BY <1>1, <2>2, <3>1 DEF PacketInv, RecordsApart
    <2> QED
      BY <2>1, <2>2 DEF RecordsApart
  <1>11. ASSUME NEW u \in Writing', u # t PROVE Progress(u)'
    <2>1. PICK q : q = thr[u].rec /\ q = thr'[u].rec /\ q # r /\ q \in overlapped
      BY <1>6, <1>11
    <2>2. At(q, "text")' = At(q, "text") /\ At(q, "break")' = At(q, "break")
      BY <1>7, <2>1
    <2>3. thr[u].pc = "text" => Missing(q)
      BY <1>6, <1>11, <2>1 DEF PacketInv, Progress
    <2>4. thr'[u].pc = "text" => Missing(q)'
      BY <1>6, <1>11, <2>2, <2>3 DEF Missing
    <2> QED
      BY <1>1, <2>1, <2>4 DEF Progress
  <1>12. ASSUME NEW u \in Writing', u # t, thr'[u].pc = "break" PROVE TextKept(thr[u].rec)'
    <2>1. PICK q : q = thr[u].rec /\ q = thr'[u].rec /\ q # r
      BY <1>6, <1>12
    <2>2. At(q, "text")' = At(q, "text")
      BY <1>7, <2>1
    <2>3. TextKept(q)
      BY <1>6, <1>12, <2>1 DEF PacketInv
    <2>4. TextKept(q)'
      BY <1>1, <1>u, <2>2, <2>3 DEF TextKept
    <2> QED
      BY <2>1, <2>4
  <1>13. r \notin overlapped => w = packet_file
    BY <1>1, <1>2 DEF PacketInv, Progress
  <1>14. CASE pc = "text"
    <2>1. Missing(r)
      BY <1>2, <1>14 DEF PacketInv, Progress
    <2>2. Writing' = Writing /\ Finished' = Finished
      BY <1>1, <1>3, <1>4, <1>5, <1>14 DEF Finished, Writing
    <2>3. /\ At(r, "text")' = IF ok THEN {n + 1} ELSE {}
          /\ At(r, "break")' = {}
      BY <1>7, <1>14, <2>1 DEF Missing
    <2>t. thr'[t].rec = r /\ thr'[t].pc = "break" /\ thr'[t].w = 0
      BY <1>3, <1>4, <1>14
    <2>4. Progress(t)'
      <3>1. r \notin overlapped /\ r \notin unwritten' =>
               IF writers[packet_file]
               THEN At(r, "text")' = {Len(file')} /\ At(r, "break")' = {}
               ELSE Missing(r)'
        BY <1>7, <1>13, <1>u, <2>3 DEF Missing
      <3> QED
        BY <1>1, <2>t, <3>1 DEF Progress
    <2>5. TextKept(thr[t].rec)'
      <3>1. TextKept(r)'
        BY <1>0, <1>1, <1>2, <1>u, <2>3, PacketRows DEF TextKept
      <3> QED
        BY <2>t, <3>1
    <2>6. RecordsWhole' /\ RecordsKept'
      <3>1. \A q \in Finished : /\ At(q, "text")' = At(q, "text")
                                /\ At(q, "break")' = At(q, "break")
        BY <1>2, <1>7 DEF Finished
      <3>2. \A q \in Finished : q \in unwritten' <=> q \in unwritten
        BY <1>2, <1>u DEF Finished
      <3> QED
        BY <1>1, <2>2, <3>1, <3>2 DEF PacketInv, RecordsWhole, RecordsKept
    <2> QED
      BY <1>4, <1>6, <1>8, <1>9, <1>10, <1>11, <1>12, <2>4, <2>5, <2>6 DEF PacketInv
  <1>15. CASE pc = "break"
    <2>1. Writing' = Writing \ {t}
      BY <1>5, <1>15
    <2>2. \A q \in Finished' : q # r => q \in Finished
      BY <1>1, <1>4, <2>1 DEF Finished, Writing
    <2>3. /\ At(r, "text")' = At(r, "text")
          /\ At(r, "break")' = IF ok THEN At(r, "break") \cup {n + 1} ELSE At(r, "break")
          /\ \A q \in Finished' : q # r => /\ At(q, "text")' = At(q, "text")
                                            /\ At(q, "break")' = At(q, "break")
      BY <1>7, <1>15
    <2>4. RecordsKept'
      <3> SUFFICES ASSUME NEW q \in Finished', q \notin unwritten', At(q, "text")' = {}
                   PROVE  \E x \in DOMAIN writers : ~writers[x]
        BY <1>1 DEF RecordsKept
      <3>1. CASE q = r
        BY <1>2, <1>15, <1>u, <2>3, <3>1 DEF PacketInv, TextKept
      <3>2. CASE q # r
        BY <1>u, <2>2, <2>3, <3>2 DEF PacketInv, RecordsKept
      <3> QED
        BY <3>1, <3>2
    <2>5. RecordsWhole'
      <3> SUFFICES ASSUME NEW q \in Finished', q \notin overlapped, q \notin unwritten'
                   PROVE  \/ At(q, "text")' = {} /\ At(q, "break")' = {}
                          \/ \E i \in At(q, "text")' : At(q, "break")' = {i + 1}
        BY <1>1 DEF RecordsWhole
      <3>1. CASE q = r
        <4>1. IF writers[w]
              THEN At(q, "text") = {n} /\ At(q, "break") = {}
              ELSE Missing(q)
          BY <1>2, <1>13, <1>15, <1>u, <3>1 DEF PacketInv, Progress
        <4> QED
          BY <1>u, <2>3, <3>1, <4>1 DEF Missing
      <3>2. CASE q # r
        BY <1>u, <2>2, <2>3, <3>2 DEF PacketInv, RecordsWhole
      <3> QED
        BY <3>1, <3>2
    <2> QED
      BY <1>6, <1>8, <1>9, <1>10, <1>11, <1>12, <2>1, <2>4, <2>5 DEF PacketInv
  <1> QED
    BY <1>2, <1>14, <1>15

LEMMA PacketInvInit == PacketInit => PacketInv
  <1> SUFFICES ASSUME PacketInit PROVE PacketInv
    OBVIOUS
  <1>1. /\ loader = "idle" /\ packet_file = 0 /\ writers = <<>> /\ patched = FALSE
        /\ file = <<>> /\ thr = [t \in Caller |-> Idle] /\ records = 0
        /\ overlapped = {} /\ packetCrash = FALSE
    BY DEF PacketInit
  <1>2. \A t \in Caller : thr[t].pc = "idle" /\ thr[t].rec = 0 /\ thr[t].w = 0
    BY <1>1 DEF Idle
  <1>3. Writing = {} /\ Finished = {}
    BY <1>1, <1>2 DEF Writing, Finished
  <1>4. PacketType
    <2>1. Idle \in [pc: {"idle", "text", "break"}, rec: 0..0, w: 0..0]
      BY DEF Idle
    <2>2. Len(writers) = 0
      BY <1>1
    <2>3. thr \in [Caller -> [pc: {"idle", "text", "break"}, rec: 0..records, w: 0..Len(writers)]]
      BY <1>1, <2>1, <2>2
    <2>4. writers \in Seq(BOOLEAN) /\ file \in Seq((1..records) \X {"text", "break"})
      BY <1>1
    <2> QED
      BY <1>1, <2>2, <2>3, <2>4 DEF PacketType
  <1> QED
    BY <1>1, <1>2, <1>3, <1>4 DEF PacketInv, WriterThere, RecordsApart, RecordsWhole, RecordsKept

LEMMA PacketInvStep == PacketInv /\ PacketNext => PacketInv'
  <1> SUFFICES ASSUME PacketInv, PacketNext PROVE PacketInv'
    OBVIOUS
  <1>1. ASSUME NEW b \in BOOLEAN, fake_dlopen(b) PROVE PacketInv'
    BY <1>1, LoaderKeeps DEF fake_dlopen, PacketInv, PacketType
  <1>2. CASE DobbyHook
    BY <1>2, LoaderKeeps DEF DobbyHook
  <1> QED
    BY <1>1, <1>2, PangleKeeps, StrlenKeeps, LoadKeeps, WriteKeeps DEF PacketNext

LEMMA PacketInvStutter == PacketInv /\ UNCHANGED pvars => PacketInv'
  <1> SUFFICES ASSUME PacketInv, UNCHANGED pvars PROVE PacketInv'
    OBVIOUS
  <1> QED
    BY LoaderKeeps DEF pvars, PacketInv, PacketType

-----------------------------------------------------------------------------
(* Theorems.                                                               *)

LEMMA CaptureInvAlways == CSpec => []CaptureInv
  <1>1. CInit => CaptureInv
    BY LogInvInit, PacketInvInit, SnifferInvInit DEF CInit, CaptureInv
  <1>2. CaptureInv /\ [CNext]_cvars => CaptureInv'
    <2> SUFFICES ASSUME CaptureInv, [CNext]_cvars PROVE CaptureInv'
      OBVIOUS
    <2>1. CASE PacketNext /\ UNCHANGED <<svars, lvars>>
      BY <2>1, PacketInvStep, SnifferInvStutter, LogInvStutter DEF CaptureInv
    <2>2. CASE SnifferNext /\ UNCHANGED <<pvars, lvars>>
      BY <2>2, SnifferInvStep, PacketInvStutter, LogInvStutter DEF CaptureInv
    <2>3. CASE LogNext /\ UNCHANGED <<pvars, svars>>
      BY <2>3, LogInvStep, PacketInvStutter, SnifferInvStutter DEF CaptureInv
    <2>4. CASE UNCHANGED cvars
      BY <2>4, PacketInvStutter, SnifferInvStutter, LogInvStutter DEF CaptureInv, cvars
    <2> QED
      BY <2>1, <2>2, <2>3, <2>4 DEF CNext
  <1> QED
    BY <1>1, <1>2, PTL DEF CSpec

\* log2file never meets a null file unless the last use_file_log left none: the path
\* is set before the adapter, whatever the threads that log do meanwhile.
THEOREM LogStaysOpen == CSpec => []LogCrashOnlyUnopened
  <1>1. CaptureInv => LogCrashOnlyUnopened
    BY DEF CaptureInv, LogInv
  <1> QED
    BY <1>1, CaptureInvAlways, PTL

\* hook_pangle_strlen always has a writer, no two threads write the same record, a
\* record is lost only with a file that did not open, and only records that overlap
\* with others or with hook_pangle are broken up in packet.txt.
THEOREM RecordsStayRight == CSpec => []RecordsRight
  <1>1. CaptureInv => RecordsRight
    <2> SUFFICES ASSUME PacketInv PROVE RecordsRight
      BY DEF CaptureInv
    <2>1. PacketTypeOK
      BY PacketRows DEF PacketInv, PacketType, PacketTypeOK, RecordsApart
    <2> QED
      BY <2>1 DEF PacketInv, WriterThere, NoNullWriter, RecordsRight
  <1> QED
    BY <1>1, CaptureInvAlways, PTL

\* While tcpdump runs, the connections of the user are marked and both directions are
\* logged; and apart from users for whom a command failed, every mark that a run of the
\* sniffer adds is followed by its log rule, however many runs there were.
THEOREM RulesStayRight == CSpec => []RulesRight
  <1>1. CaptureInv => RulesRight
    <2> SUFFICES ASSUME SnifferInv PROVE RulesRight
      BY DEF CaptureInv
    <2>1. CaptureComplete
      BY DEF SnifferInv, CaptureComplete, MarkedFirst, Marks, Logs
    <2>2. ASSUME NEW uid \in Uid \ failed, sniffer.pc = "exit" \/ sniffer.uid # uid
          PROVE  Cardinality(Marks(uid)) = Cardinality(Logs(uid))
      <3>1. Ahead(uid) = 0
        BY <2>2 DEF Ahead
      <3>2. Cardinality(Logs(uid)) \in Nat
        BY PositionCount DEF Logs, SnifferInv, SnifferType
      <3> QED
        BY <3>1, <3>2 DEF SnifferInv
    <2>3. MarkedIsLogged
      BY <2>2 DEF MarkedIsLogged, Marks, Logs
    <2> QED
      BY <2>1, <2>3 DEF RulesRight
  <1> QED
    BY <1>1, CaptureInvAlways, PTL
=============================================================================
