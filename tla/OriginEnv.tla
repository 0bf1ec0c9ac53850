------------------------------ MODULE OriginEnv ------------------------------
(***************************************************************************)
(* The tid -> JNIEnv map of hook_jni/global_code.cpp and the hooks of      *)
(* hook_jni/jni_env_hook.cpp and jni_native_hook.cpp that use it.          *)
(*                                                                         *)
(* The traced module is meant to see one shared g_fake_env only.  Each     *)
(* hooked entry into the module records the thread's real JNIEnv under its *)
(* kernel thread id, and each JNI call the module makes looks the real one *)
(* up by thread id.  Threads end, detach and attach again; the system      *)
(* reuses kernel thread ids and JNIEnv addresses; and nothing removes or   *)
(* overwrites a map entry.                                                 *)
(***************************************************************************)
CONSTANTS
    JavaThread,    \* threads the Java runtime started, attached all their life
    NativeThread,  \* threads the module started, which attach and detach
    Tid,           \* kernel thread ids
    Env,           \* addresses at which the runtime can place a JNIEnv
    NoTid,         \* the thread is not running
    NoEnv          \* nullptr

Thread == JavaThread \cup NativeThread

ASSUME ThreadAssumption == JavaThread \cap NativeThread = {}
ASSUME NullAssumption ==
    /\ NoTid \notin Tid
    /\ NoEnv \notin Env \cup {"none", "dropped"}

VARIABLES
    tid,           \* tid[t]: what gettid() returns on thread t
    vmEnv,         \* vmEnv[t]: the JNIEnv the runtime keeps for t
    g_map_jnievn,  \* the map of global_code.cpp; NoEnv where there is no entry
    held,          \* held[t]: the environment pointer the module's code on t has
    outer,         \* outer[t]: the one of the frame below the native method that
                   \* t is in, "idle" when t is in no native method
    routed,        \* routed[t]: what became of t's last call through g_fake_env:
                   \* the environment it was routed with, or "none", "dropped"
    recycled       \* history: tids on which a recorded environment has ended

vars == <<tid, vmEnv, g_map_jnievn, held, outer, routed, recycled>>

Pointer == {"none", "fake", "real"}

Running(t) == tid[t] # NoTid
Attached(t) == vmEnv[t] # NoEnv

\* The module's code runs on t: always on a thread of its own, on a Java
\* thread only inside a native method.
InModule(t) == Running(t) /\ (t \in NativeThread \/ outer[t] # "idle")

FreeEnv == {e \in Env : \A t \in Thread : vmEnv[t] # e}
FreeTid == {k \in Tid : \A t \in Thread : tid[t] # k}

TypeOK ==
    /\ tid \in [Thread -> Tid \cup {NoTid}]
    /\ vmEnv \in [Thread -> Env \cup {NoEnv}]
    /\ g_map_jnievn \in [Tid -> Env \cup {NoEnv}]
    /\ held \in [Thread -> Pointer]
    /\ outer \in [Thread -> Pointer \cup {"idle"}]
    /\ routed \in [Thread -> Env \cup {NoEnv, "none", "dropped"}]
    /\ recycled \subseteq Tid

Init ==
    /\ tid = [t \in Thread |-> NoTid]
    /\ vmEnv = [t \in Thread |-> NoEnv]
    /\ g_map_jnievn = [k \in Tid |-> NoEnv]
    /\ held = [t \in Thread |-> "none"]
    /\ outer = [t \in Thread |-> "idle"]
    /\ routed = [t \in Thread |-> "none"]
    /\ recycled = {}

-----------------------------------------------------------------------------
(* The two operations of global_code.cpp.                                  *)

\* Mistake: one entry for the whole process instead of one per thread.
push_origin_env_process(t, origin_env) ==
    g_map_jnievn' = [k \in Tid |-> IF g_map_jnievn[k] = NoEnv
                                   THEN origin_env ELSE g_map_jnievn[k]]

\* std::map::insert under g_jnienv_lock: an existing entry is kept.
push_origin_env(t, origin_env) ==
    g_map_jnievn' = IF g_map_jnievn[tid[t]] = NoEnv
                    THEN [g_map_jnievn EXCEPT ![tid[t]] = origin_env]
                    ELSE g_map_jnievn

get_origin_env(t) == g_map_jnievn[tid[t]]

-----------------------------------------------------------------------------
(* The runtime and the kernel.                                             *)

StartJavaThread(t) ==
    /\ t \in JavaThread
    /\ ~Running(t)
    /\ \E k \in FreeTid, e \in FreeEnv :
          /\ tid' = [tid EXCEPT ![t] = k]
          /\ vmEnv' = [vmEnv EXCEPT ![t] = e]
    /\ UNCHANGED <<g_map_jnievn, held, outer, routed, recycled>>

StartNativeThread(t) ==
    /\ t \in NativeThread
    /\ ~Running(t)
    /\ \E k \in FreeTid : tid' = [tid EXCEPT ![t] = k]
    /\ UNCHANGED <<vmEnv, g_map_jnievn, held, outer, routed, recycled>>

\* The runtime frees the JNIEnv of t.  The map entry for its tid stays.
DropEnv(t) ==
    /\ vmEnv' = [vmEnv EXCEPT ![t] = NoEnv]
    /\ held' = [held EXCEPT ![t] = "none"]
    /\ routed' = [routed EXCEPT ![t] = "none"]
    /\ recycled' = recycled \cup {k \in {tid[t]} : g_map_jnievn[k] # NoEnv}

\* A native thread has to detach before it ends (the runtime aborts
\* otherwise); a Java thread is detached by the runtime as it ends.
ThreadExit(t) ==
    /\ Running(t)
    /\ outer[t] = "idle"
    /\ t \in NativeThread => ~Attached(t)
    /\ tid' = [tid EXCEPT ![t] = NoTid]
    /\ DropEnv(t)
    /\ UNCHANGED <<g_map_jnievn, outer>>

-----------------------------------------------------------------------------
(* Native methods of the module, called from Java code.  A thread is in at *)
(* most one of them at a time; on a native thread the frame below is the   *)
(* thread's own code, which called into Java.                              *)

EnterNative(t, pointer) ==
    /\ Running(t) /\ Attached(t)
    /\ outer[t] = "idle"
    /\ t \in NativeThread => held[t] # "none"
    /\ outer' = [outer EXCEPT ![t] = held[t]]
    /\ held' = [held EXCEPT ![t] = pointer]

\* The entry point is a hook: the real environment in REG0 is recorded and
\* the module's function is called with g_fake_env.
hook_native_func(t) ==
    /\ EnterNative(t, "fake")
    /\ push_origin_env(t, vmEnv[t])
    /\ UNCHANGED <<tid, vmEnv, routed, recycled>>

\* The entry point is the module's own function (RegisterNatives left it
\* alone, or it was bound before the hooks were set).
plain_native_func(t) ==
    /\ EnterNative(t, "real")
    /\ UNCHANGED <<tid, vmEnv, g_map_jnievn, routed, recycled>>

native_return(t) ==
    /\ outer[t] # "idle"
    /\ held' = [held EXCEPT ![t] = outer[t]]
    /\ outer' = [outer EXCEPT ![t] = "idle"]
    /\ routed' = [routed EXCEPT ![t] = "none"]
    /\ UNCHANGED <<tid, vmEnv, g_map_jnievn, recycled>>

-----------------------------------------------------------------------------
(* The functions of g_fake_jvm.                                            *)

\* Slot 4.  An attached thread gets its own environment again; attaching a
\* detached one may fail, and then *penv is nullptr.
fake_AttachCurrentThread(t) ==
    /\ InModule(t)
    /\ \/ \E e \in (IF Attached(t) THEN {vmEnv[t]} ELSE FreeEnv) :
             /\ vmEnv' = [vmEnv EXCEPT ![t] = e]
             /\ push_origin_env(t, e)
             /\ held' = [held EXCEPT ![t] = "fake"]
       \/ /\ ~Attached(t)
          /\ held' = [held EXCEPT ![t] = "none"]
          /\ UNCHANGED <<vmEnv, g_map_jnievn>>
    /\ UNCHANGED <<tid, outer, routed, recycled>>

\* Mistake: the faked environment is handed out without recording the real one.
fake_GetEnv_no_push(t) ==
    /\ InModule(t)
    /\ held' = [held EXCEPT ![t] = IF Attached(t) THEN "fake" ELSE "none"]
    /\ UNCHANGED <<tid, vmEnv, g_map_jnievn, outer, routed, recycled>>

\* Slot 6.  On a detached thread the runtime answers JNI_EDETACHED.
fake_GetEnv(t) ==
    /\ InModule(t)
    /\ \/ /\ Attached(t)
          /\ push_origin_env(t, vmEnv[t])
          /\ held' = [held EXCEPT ![t] = "fake"]
       \/ /\ ~Attached(t)
          /\ held' = [held EXCEPT ![t] = "none"]
          /\ UNCHANGED g_map_jnievn
    /\ UNCHANGED <<tid, vmEnv, outer, routed, recycled>>

\* Slot 7 has no case in hook_jvm_methods: the call is routed to
\* g_origin_jvm, which writes the real environment through penv.
AttachCurrentThreadAsDaemon(t) ==
    /\ InModule(t)
    /\ \E e \in (IF Attached(t) THEN {vmEnv[t]} ELSE FreeEnv) :
          vmEnv' = [vmEnv EXCEPT ![t] = e]
    /\ held' = [held EXCEPT ![t] = "real"]
    /\ UNCHANGED <<tid, g_map_jnievn, outer, routed, recycled>>

\* Slot 5, routed likewise.  The runtime aborts when a thread that still has
\* Java frames detaches.
DetachCurrentThread(t) ==
    /\ t \in NativeThread
    /\ Running(t) /\ Attached(t)
    /\ outer[t] = "idle"
    /\ DropEnv(t)
    /\ UNCHANGED <<tid, g_map_jnievn, outer>>

-----------------------------------------------------------------------------
(* The functions of g_fake_env.                                            *)

\* Mistake: REG0 is not replaced, and the call is made with g_fake_env again.
hook_other_methods_fake(t) ==
    /\ InModule(t)
    /\ held[t] = "fake"
    /\ routed' = [routed EXCEPT ![t] = held[t]]
    /\ UNCHANGED <<tid, vmEnv, g_map_jnievn, held, outer, recycled>>

hook_other_methods(t) ==
    /\ InModule(t)
    /\ held[t] = "fake"
    /\ routed' = [routed EXCEPT ![t] = get_origin_env(t)]
    /\ UNCHANGED <<tid, vmEnv, g_map_jnievn, held, outer, recycled>>

\* The Call<Type>Method family resolves and parses the name of the method
\* first; when that fails it returns 0 and never makes the call.
hook_call_methods(t) ==
    /\ InModule(t)
    /\ held[t] = "fake"
    /\ \E result \in {get_origin_env(t), "dropped"} :
          routed' = [routed EXCEPT ![t] = result]
    /\ UNCHANGED <<tid, vmEnv, g_map_jnievn, held, outer, recycled>>

Next ==
    \E t \in Thread :
        \/ StartJavaThread(t)
        \/ StartNativeThread(t)
        \/ ThreadExit(t)
        \/ hook_native_func(t)
        \/ plain_native_func(t)
        \/ native_return(t)
        \/ fake_AttachCurrentThread(t)
        \/ fake_GetEnv(t)
        \/ AttachCurrentThreadAsDaemon(t)
        \/ DetachCurrentThread(t)
        \/ hook_other_methods(t)
        \/ hook_call_methods(t)

Spec == Init /\ [][Next]_vars

-----------------------------------------------------------------------------
(* Properties.                                                             *)

\* A thread that works with g_fake_env always has an entry: the branch of
\* get_origin_env that logs "get_origin_env not found!!!" and returns nullptr,
\* which hook_other_methods would go on to route the call with, is never taken,
\* on any thread, in the innermost frame or the one below it.
FakeEnvResolves ==
    \A t \in Thread :
        /\ "fake" \in {held[t], outer[t]} => get_origin_env(t) # NoEnv
        /\ routed[t] # NoEnv

\* Unless an environment recorded under the thread's tid has ended before (a
\* detach, or the exit of an earlier thread with that tid), the environment a
\* call through g_fake_env is routed with is the calling thread's own live one.
\* push_origin_env never overwrites, so this is how far the map can be trusted.
OriginEnvCurrent ==
    \A t \in Thread :
        (held[t] = "fake" /\ tid[t] \notin recycled)
            => /\ get_origin_env(t) = vmEnv[t]
               /\ routed[t] \in {"none", "dropped", vmEnv[t]}

-----------------------------------------------------------------------------
(* The inductive invariant behind FakeEnvResolves and OriginEnvCurrent.    *)

TidUnique ==
    \A s, t \in Thread : (Running(t) /\ tid[s] = tid[t]) => s = t

\* A pointer to an environment is only held by a running, attached thread.
HolderAttached ==
    \A t \in Thread :
        (held[t] # "none" \/ outer[t] # "idle") => (Running(t) /\ Attached(t))

FakeRecorded ==
    \A t \in Thread :
        "fake" \in {held[t], outer[t]} => get_origin_env(t) # NoEnv

\* An entry whose tid was never recycled belongs to a thread that still runs
\* with that tid and that environment.
EntryOwned ==
    \A k \in Tid :
        (k \notin recycled /\ g_map_jnievn[k] # NoEnv)
            => \E t \in Thread : tid[t] = k /\ vmEnv[t] = g_map_jnievn[k]

\* A call is only ever routed with an entry that exists, and entries stay.
RoutedRecorded ==
    \A t \in Thread :
        routed[t] \notin {"none", "dropped"}
            => Running(t) /\ routed[t] # NoEnv /\ routed[t] = get_origin_env(t)

\* What the steps above preserve: each part needs the others.  In particular
\* EntryOwned carries a property of the thread to every tid, so that a thread
\* that starts on a used tid can only meet a recycled entry.
IInv ==
    /\ TypeOK
    /\ TidUnique
    /\ HolderAttached
    /\ FakeRecorded
    /\ EntryOwned
    /\ RoutedRecorded
=============================================================================
