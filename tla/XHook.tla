------------------------------- MODULE XHook -------------------------------
(***************************************************************************)
(* libxhook as the libc hooks use it: the lists of hooks and of exceptions,*)
(* the refresh that walks /proc/self/maps and rewrites the import slots of *)
(* every matching ELF, synchronously or in a thread of its own, the clear, *)
(* and the SIGSEGV handler that protects the walk (xh_core.c, xh_elf.c).   *)
(*                                                                         *)
(* xh_core_mutex guards the lists and the worker's flags, and              *)
(* xh_core_refresh_mutex the walk; but the walk reads the lists without    *)
(* the first, and the init flags are read, and cleared, under neither.     *)
(* Meanwhile the program loads and unloads ELFs.                           *)
(***************************************************************************)
EXTENDS Naturals, Sequences, FiniteSets

CONSTANTS
    Thread,      \* threads that call the library
    Worker,      \* asynchronous refresh threads that may ever be created
    Path,        \* pathnames of ELFs
    Base,
    At,          \* At[p]: the addresses at which the linker loads p
    Symbol,
    Hook,        \* calls of xhook_register: a regex, a symbol, the new function
                 \* and the variable for the old one
    Ignore,      \* calls of xhook_ignore
    Match,       \* Match[x]: the paths the regex of a hook or exception matches
    SymOf,       \* SymOf[x]: the symbol of a hook or exception, All for every one
    Calls,       \* Calls[t]: the calls that thread t makes: "register" (or ignore),
                 \* "sync" and "async" refreshes, "clear", "switch" of the protection
    Faulty,      \* ELFs whose tables make xh_elf_init read unmapped memory
    All,
    None,        \* no thread, no address, no path, no function
    Orig         \* the function an import slot is bound to when its ELF is loaded

ASSUME SetAssumption ==
    /\ \A x \in Hook \cup Ignore : Match[x] \subseteq Path /\ SymOf[x] \in Symbol \cup {All}
    /\ \A h \in Hook : SymOf[h] # All
    /\ Faulty \subseteq Path /\ At \in [Path -> SUBSET Base]
    /\ None \notin Thread \cup Worker \cup Base \cup Path \cup Hook \cup Ignore
    /\ Orig \notin Hook \cup {None}
    /\ Calls \in [Thread -> SUBSET {"register", "sync", "async", "clear", "switch"}]
    /\ Thread \cap Worker = {}
    /\ Hook \cap Ignore = {}

Runner == Thread \cup Worker

VARIABLES
    hook_info, ignore_info,        \* the two lists
    late,                          \* history: hooks entered after a refresh began
    inited, init_ok, async_inited, async_init_ok,
    running, do, tid,              \* of the asynchronous thread
    mutex, refresh_mutex,          \* their holders
    map_info,                      \* path -> base address of the last walk
    walk,                          \* the walk in progress
    missed,                        \* history: missed[p]: the hooks whose replacement
                                   \* failed in p since p was last taken up
    handler, flag, enable,         \* SIGSEGV: who handles it, and the protection
    once,                          \* act.sa_flags, never set, holds SA_RESETHAND
    exposed,                       \* history: the protection was lifted somehow
    mapped, used, fresh,           \* what the linker has loaded where; history: the
                                   \* addresses used, and if this one is a new one
    slot,                          \* slot[p][s]: what p's import of s points to
    old,                           \* old[h]: *old_func
    pc, arg,
    cleared, crashed

lists == <<hook_info, ignore_info, late>>
inits == <<inited, init_ok, async_inited, async_init_ok>>
async == <<running, do, tid>>
locks == <<mutex, refresh_mutex>>
walks == <<map_info, walk, missed>>
signals == <<handler, flag, enable, once, exposed>>
linker == <<mapped, used, fresh>>
code == <<slot, old>>
vars == <<lists, inits, async, locks, walks, signals, linker, code, pc, arg, cleared, crashed>>

NoWalk == [todo |-> {}, path |-> None, base |-> None, next |-> 1,
           refreshed |-> [p \in Path |-> None]]

Init ==
    /\ hook_info = <<>> /\ ignore_info = <<>> /\ late = {}
    /\ inited = FALSE /\ init_ok = FALSE /\ async_inited = FALSE /\ async_init_ok = FALSE
    /\ running = FALSE /\ do = FALSE /\ tid = None
    /\ mutex = None /\ refresh_mutex = None
    /\ map_info = [p \in Path |-> None] /\ walk = NoWalk /\ missed = [p \in Path |-> {}]
    /\ handler = "app" /\ flag = FALSE /\ enable = TRUE /\ once = FALSE /\ exposed = FALSE
    /\ mapped = [p \in Path |-> None] /\ used = [p \in Path |-> {}]
    /\ fresh = [p \in Path |-> TRUE]
    /\ slot = [p \in Path |-> [s \in Symbol |-> Orig]]
    /\ old = [h \in Hook |-> None]
    /\ pc = [t \in Runner |-> IF t \in Thread THEN "idle" ELSE "none"]
    /\ arg = [t \in Thread |-> None]
    /\ cleared = FALSE /\ crashed = FALSE

On(t, label) == ~crashed /\ pc[t] = label
Goto(t, label) == pc' = [pc EXCEPT ![t] = label]
Entries(list) == {list[i] : i \in 1..Len(list)}

(***************************************************************************)
(* xh_core_register and xh_core_ignore: xh_core_inited is read first, and  *)
(* the list is changed later, under the lock.                              *)
(***************************************************************************)
xh_core_register_check(t, x) ==
    /\ On(t, "idle") /\ "register" \in Calls[t] /\ ~inited
    /\ x \notin Entries(hook_info) \cup Entries(ignore_info)
    /\ \A u \in Thread : arg[u] # x
    /\ Goto(t, "enter")
    /\ arg' = [arg EXCEPT ![t] = x]
    /\ UNCHANGED <<lists, inits, async, locks, walks, signals, linker, code, cleared, crashed>>

xh_core_register_insert(t) ==
    /\ On(t, "enter") /\ mutex = None
    /\ IF arg[t] \in Hook
       THEN /\ hook_info' = Append(hook_info, arg[t])
            /\ late' = IF inited THEN late \cup {arg[t]} ELSE late
            /\ UNCHANGED ignore_info
       ELSE /\ ignore_info' = Append(ignore_info, arg[t])
            /\ late' = IF inited THEN late \cup Hook ELSE late
            /\ UNCHANGED hook_info
    /\ Goto(t, "idle")
    /\ arg' = [arg EXCEPT ![t] = None]
    /\ UNCHANGED <<inits, async, locks, walks, signals, linker, code, cleared, crashed>>

(***************************************************************************)
(* xh_core_refresh: the two "once" functions, and then a request to the    *)
(* worker or a walk.                                                       *)
(***************************************************************************)
xh_core_refresh(t) ==
    /\ On(t, "idle")
    /\ arg' \in {[arg EXCEPT ![t] = mode] : mode \in Calls[t] \cap {"sync", "async"}}
    /\ Goto(t, IF inited THEN "ready" ELSE "init")
    /\ UNCHANGED <<lists, inits, async, locks, walks, signals, linker, code, cleared, crashed>>

xh_core_init_once_lock(t) ==
    /\ On(t, "init") /\ mutex = None
    /\ IF inited
       THEN Goto(t, "ready") /\ UNCHANGED <<mutex, inited>>
       ELSE Goto(t, "initing") /\ mutex' = t /\ inited' = TRUE
    /\ UNCHANGED <<lists, init_ok, async_inited, async_init_ok, async, refresh_mutex, walks,
                   signals, linker, code, arg, cleared, crashed>>

\* Mistake: the way out after a failed sigaction keeps the lock.
xh_core_add_sigsegv_handler_return(t) ==
    /\ On(t, "initing")
    /\ init_ok' \in BOOLEAN
    /\ handler' = IF init_ok' THEN "xhook" ELSE handler
    /\ mutex' = IF init_ok' THEN None ELSE mutex
    /\ Goto(t, "ready")
    /\ UNCHANGED <<lists, inited, async_inited, async_init_ok, async, refresh_mutex, walks, flag,
                   enable, once, exposed, linker, code, arg, cleared, crashed>>

\* sigaction may fail, and then the library stays unusable.
xh_core_add_sigsegv_handler(t) ==
    /\ On(t, "initing")
    /\ \E ok \in BOOLEAN :
           /\ ~enable => ok
           /\ init_ok' = ok
           /\ handler' = IF enable /\ ok THEN "xhook" ELSE handler
    /\ once' \in IF handler' = "xhook" THEN BOOLEAN ELSE {once}
    /\ mutex' = None
    /\ Goto(t, "ready")
    /\ UNCHANGED <<lists, inited, async_inited, async_init_ok, async, refresh_mutex, walks, flag,
                   enable, exposed, linker, code, arg, cleared, crashed>>

xh_core_refresh_ready(t) ==
    /\ On(t, "ready")
    /\ Goto(t, CASE ~init_ok -> "idle"
                 [] init_ok /\ arg[t] = "sync" -> "lock"
                 [] init_ok /\ arg[t] = "async" /\ async_inited -> "aready"
                 [] OTHER -> "ainit")
    /\ arg' = [arg EXCEPT ![t] = IF init_ok THEN @ ELSE None]
    /\ UNCHANGED <<lists, inits, async, locks, walks, signals, linker, code, cleared, crashed>>

AsyncInited_unchecked == FALSE \* Mistake: the flag is not read again under the lock.
AsyncInited == async_inited

xh_core_init_async_once_lock(t) ==
    /\ On(t, "ainit") /\ mutex = None
    /\ IF AsyncInited
       THEN Goto(t, "aready") /\ UNCHANGED <<mutex, async_inited, running>>
       ELSE Goto(t, "create") /\ mutex' = t /\ async_inited' = TRUE /\ running' = TRUE
    /\ UNCHANGED <<lists, inited, init_ok, async_init_ok, do, tid, refresh_mutex, walks, signals,
                   linker, code, arg, cleared, crashed>>

\* pthread_create fails, or starts one of the workers.
xh_core_init_async_once_create(t) ==
    /\ On(t, "create")
    /\ mutex' = None
    /\ \/ /\ Goto(t, "aready")
          /\ running' = FALSE
          /\ UNCHANGED <<tid, async_init_ok>>
       \/ \E w \in Worker :
              /\ pc[w] = "none"
              /\ pc' = [pc EXCEPT ![t] = "aready", ![w] = "loop"]
              /\ tid' = w
              /\ async_init_ok' = TRUE
              /\ UNCHANGED running
    /\ UNCHANGED <<lists, inited, init_ok, async_inited, do, refresh_mutex, walks, signals,
                   linker, code, arg, cleared, crashed>>

Signalled_none(label) == label \* Mistake: the waiting thread is not signalled.
\* pthread_cond_signal wakes a thread that waits, if there is one.
Signalled(label) == [w \in Runner |-> IF label[w] = "waiting" THEN "take" ELSE label[w]]

xh_core_refresh_async(t) ==
    /\ On(t, "aready")
    /\ IF async_init_ok
       THEN /\ mutex = None
            /\ do' = TRUE
            /\ pc' = [Signalled(pc) EXCEPT ![t] = "idle"]
       ELSE UNCHANGED do /\ Goto(t, "idle")
    /\ arg' = [arg EXCEPT ![t] = None]
    /\ UNCHANGED <<lists, inits, running, tid, locks, walks, signals, linker, code, cleared,
                   crashed>>

(***************************************************************************)
(* xh_core_refresh_thread_func.                                            *)
(***************************************************************************)
refresh_thread_loop(w) ==
    /\ On(w, "loop")
    /\ Goto(w, IF running THEN "take" ELSE "exited")
    /\ UNCHANGED <<lists, inits, async, locks, walks, signals, linker, code, arg, cleared, crashed>>

refresh_thread_take(w) ==
    /\ On(w, "take") /\ mutex = None
    /\ Goto(w, CASE ~running -> "exited"
                 [] running /\ do -> "lock"
                 [] OTHER -> "waiting")
    /\ do' = (do /\ ~running)
    /\ UNCHANGED <<lists, inits, running, tid, locks, walks, signals, linker, code, arg, cleared,
                   crashed>>

(***************************************************************************)
(* xh_core_refresh_impl, by the holder of the refresh mutex.               *)
(***************************************************************************)
AfterWalk(t) == IF t \in Thread THEN "idle" ELSE "loop"

\* /proc/self/maps is opened; if that fails nothing changes.
refresh_begin(t) ==
    /\ On(t, "lock") /\ refresh_mutex = None
    /\ \/ /\ refresh_mutex' = t
          /\ walk' = [NoWalk EXCEPT !.todo = Path]
          /\ Goto(t, "scan")
          /\ UNCHANGED arg
       \/ /\ Goto(t, AfterWalk(t))
          /\ arg' = [u \in Thread |-> IF u = t THEN None ELSE arg[u]]
          /\ UNCHANGED <<refresh_mutex, walk>>
    /\ UNCHANGED <<lists, inits, async, mutex, map_info, missed, signals, linker, code, cleared,
                   crashed>>

Ignored(p, s) == \E i \in Entries(ignore_info) : p \in Match[i] /\ SymOf[i] = s
IgnoredAll(p) == Ignored(p, All)

\* The check of a path stops at the first hook that matches it: the ELF is left
\* out if that one's symbol is ignored, whatever hooks follow.
PathMatches(p) ==
    \E i \in 1..Len(hook_info) :
        /\ p \in Match[hook_info[i]]
        /\ \A j \in 1..(i - 1) : p \notin Match[hook_info[j]]
        /\ ~IgnoredAll(p)
        /\ ~Ignored(p, SymOf[hook_info[i]])

\* Mistake: the flag that tells the handler to jump is not set.
Protect_none == FALSE
Protect == enable

\* A line of the maps: one per path, because of repeated ones the first counts.
refresh_line(t, p) ==
    /\ On(t, "scan") /\ p \in walk.todo
    /\ IF mapped[p] # None /\ PathMatches(p)
       THEN /\ walk' = [walk EXCEPT !.todo = @ \ {p}, !.path = p, !.base = mapped[p]]
            /\ flag' = Protect
            /\ Goto(t, "header")
       ELSE /\ walk' = [walk EXCEPT !.todo = @ \ {p}]
            /\ UNCHANGED <<flag, pc>>
    /\ UNCHANGED <<lists, inits, async, locks, map_info, missed, handler, enable, once, exposed,
                   linker, code, arg, cleared, crashed>>

EndElf == [walk EXCEPT !.path = None, !.base = None, !.next = 1]

\* The walk is done with the ELF.
EndHook(t) ==
    /\ walk' = EndElf
    /\ flag' = FALSE
    /\ Goto(t, "scan")
    /\ UNCHANGED <<handler, enable, once, exposed, map_info, missed, code, crashed>>

\* The ELF of the line is not where the line said any more.  Nothing else is taken to be
\* mapped there in the meantime: what is read there faults.
Gone == mapped[walk.path] # walk.base

\* SIGSEGV in the walking thread: the handler jumps back behind the access.
\* With SA_RESETHAND the kernel takes the handler out on the way.
Fault(t) ==
    /\ walk' = EndElf
    /\ flag' = FALSE
    /\ IF handler = "xhook" /\ flag
       THEN /\ Goto(t, "scan")
            /\ handler' = IF once THEN "default" ELSE handler
            /\ exposed' = (exposed \/ once)
            /\ UNCHANGED crashed
       ELSE crashed' = TRUE /\ UNCHANGED <<pc, handler, exposed>>
    /\ UNCHANGED <<enable, once, map_info, missed, code>>

\* The header is checked, and the entry goes to the new tree, unless a new one
\* cannot be allocated: then the next walk takes the ELF up again.  An ELF of the
\* last walk that is where it was is left alone.
KnownBase_path(p, b) == map_info[p] # None \* Mistake: the address is not compared.
KnownBase(p, b) == map_info[p] = b

Checked(t) ==
    LET p == walk.path
        known == KnownBase(p, walk.base)
    IN  /\ walk' = [walk EXCEPT !.refreshed[p] = walk.base,
                                !.path = IF known THEN None ELSE @,
                                !.base = IF known THEN None ELSE @]
        /\ missed' = [missed EXCEPT ![p] = IF known THEN @ ELSE {}]
        /\ flag' = (Protect /\ ~known)
        /\ Goto(t, IF known THEN "scan" ELSE "hook")
        /\ UNCHANGED <<handler, enable, once, exposed, map_info, code, crashed>>

xh_core_check_elf_header(t) ==
    /\ On(t, "header")
    /\ IF Gone THEN Fault(t)
       ELSE Checked(t) \/ (map_info[walk.path] = None /\ EndHook(t))
    /\ UNCHANGED <<lists, inits, async, locks, linker, arg, cleared>>

\* Hook h is to be put into its slot of p: it matches the path, is not ignored, and
\* is not in the slot already.
Due(p, h) == p \in Match[h] /\ ~Ignored(p, SymOf[h]) /\ slot[p][SymOf[h]] # h

\* The next hook is left out: it is not due, or the page of the slot is not found in
\* the maps or cannot be made writable.  Nobody looks at the result of xh_elf_hook.
PassHook ==
    LET p == walk.path
        h == hook_info[walk.next]
    IN  /\ walk' = [walk EXCEPT !.next = @ + 1]
        /\ missed' = IF Due(p, h) THEN [missed EXCEPT ![p] = @ \cup {h}] ELSE missed
        /\ UNCHANGED <<pc, code>>

\* Mistake: the slot is written before the old function is stored.
HookNext_slot_first(t) ==
    LET p == walk.path
        h == hook_info[walk.next]
    IN  \/ /\ Due(p, h)
           /\ slot' = [slot EXCEPT ![p][SymOf[h]] = h]
           /\ Goto(t, "replace")
           /\ UNCHANGED <<walk, missed, old>>
        \/ PassHook

\* xh_core_hook_impl for the next hook.  The old function is stored here; the slot
\* is written in the next step.
HookNext(t) ==
    LET p == walk.path
        h == hook_info[walk.next]
    IN  \/ /\ Due(p, h)
           /\ old' = [old EXCEPT ![h] = slot[p][SymOf[h]]]
           /\ Goto(t, "replace")
           /\ UNCHANGED <<walk, missed, slot>>
        \/ PassHook

\* Tables that are no good make xh_elf_init fault, or refuse the ELF.
xh_core_hook(t) ==
    LET over == walk.next > Len(hook_info) \/ IgnoredAll(walk.path)
    IN  /\ On(t, "hook")
        /\ \/ (Gone \/ walk.path \in Faulty) /\ Fault(t)
           \/ ~Gone /\ (walk.path \in Faulty \/ over) /\ EndHook(t)
           \/ /\ ~Gone /\ walk.path \notin Faulty /\ ~over
              /\ HookNext(t)
              /\ UNCHANGED <<flag, handler, enable, once, exposed, map_info, crashed>>
        /\ UNCHANGED <<lists, inits, async, locks, linker, arg, cleared>>

xh_elf_replace_function(t) ==
    /\ On(t, "replace")
    /\ IF Gone THEN Fault(t)
       ELSE LET h == hook_info[walk.next]
            IN  /\ slot' = [slot EXCEPT ![walk.path][SymOf[h]] = h]
                /\ walk' = [walk EXCEPT !.next = @ + 1]
                /\ Goto(t, "hook")
                /\ UNCHANGED <<missed, old, flag, handler, enable, once, exposed, map_info,
                               crashed>>
    /\ UNCHANGED <<lists, inits, async, locks, linker, arg, cleared>>

\* The entries that were not met again are freed, and the new tree is kept.
refresh_end(t) ==
    /\ On(t, "scan") /\ walk.todo = {}
    /\ map_info' = walk.refreshed
    /\ walk' = NoWalk
    /\ refresh_mutex' = None
    /\ Goto(t, AfterWalk(t))
    /\ arg' = [u \in Thread |-> IF u = t THEN None ELSE arg[u]]
    /\ UNCHANGED <<lists, inits, async, mutex, missed, signals, linker, code, cleared, crashed>>

(***************************************************************************)
(* xh_core_clear: stops the worker, resets the flags without a lock, and   *)
(* frees the lists.  The slots stay as they are.                           *)
(***************************************************************************)
xh_core_clear(t) ==
    /\ On(t, "idle") /\ "clear" \in Calls[t]
    /\ cleared' = TRUE
    /\ Goto(t, IF async_init_ok THEN "stop" ELSE "reset_async")
    /\ UNCHANGED <<lists, inits, async, locks, walks, signals, linker, code, arg, crashed>>

clear_stop(t) ==
    /\ On(t, "stop") /\ mutex = None
    /\ running' = FALSE
    /\ pc' = [Signalled(pc) EXCEPT ![t] = "join"]
    /\ UNCHANGED <<lists, inits, do, tid, locks, walks, signals, linker, code, arg, cleared,
                   crashed>>

\* pthread_join is called with the thread that the variable names by now.
clear_join(t) ==
    /\ On(t, "join")
    /\ arg' = [arg EXCEPT ![t] = tid]
    /\ Goto(t, "joining")
    /\ UNCHANGED <<lists, inits, async, locks, walks, signals, linker, code, cleared, crashed>>

\* Joining a thread that another clear has joined is undefined: bionic aborts.
clear_joined(t) ==
    /\ On(t, "joining") /\ pc[arg[t]] \in {"exited", "joined"}
    /\ IF pc[arg[t]] = "exited"
       THEN /\ pc' = [pc EXCEPT ![arg[t]] = "joined", ![t] = "reset_async"]
            /\ async_init_ok' = FALSE
            /\ UNCHANGED crashed
       ELSE crashed' = TRUE /\ UNCHANGED <<pc, async_init_ok>>
    /\ arg' = [arg EXCEPT ![t] = None]
    /\ UNCHANGED <<lists, inited, init_ok, async_inited, async, locks, walks, signals, linker,
                   code, cleared>>

clear_reset_async(t) ==
    /\ On(t, "reset_async")
    /\ async_inited' = FALSE
    /\ Goto(t, "reset")
    /\ UNCHANGED <<lists, inited, init_ok, async_init_ok, async, locks, walks, signals, linker,
                   code, arg, cleared, crashed>>

xh_core_del_sigsegv_handler(t) ==
    /\ On(t, "reset")
    /\ handler' = IF init_ok /\ enable THEN "app" ELSE handler
    /\ exposed' = (exposed \/ init_ok)
    /\ init_ok' = FALSE /\ inited' = FALSE
    /\ Goto(t, "free")
    /\ UNCHANGED <<lists, async_inited, async_init_ok, async, locks, walks, flag, enable, once,
                   linker, code, arg, cleared, crashed>>

clear_lock(t) ==
    /\ On(t, "free") /\ mutex = None
    /\ mutex' = t
    /\ Goto(t, "freeing")
    /\ UNCHANGED <<lists, inits, async, refresh_mutex, walks, signals, linker, code, arg, cleared,
                   crashed>>

clear_free(t) ==
    /\ On(t, "freeing") /\ refresh_mutex = None
    /\ map_info' = [p \in Path |-> None]
    /\ hook_info' = <<>> /\ ignore_info' = <<>> /\ late' = {}
    /\ mutex' = None
    /\ Goto(t, "idle")
    /\ UNCHANGED <<inits, async, refresh_mutex, walk, missed, signals, linker, code, arg, cleared,
                   crashed>>

xh_core_enable_sigsegv_protection(t) ==
    /\ On(t, "idle") /\ "switch" \in Calls[t]
    /\ enable' = ~enable
    /\ exposed' = TRUE
    /\ UNCHANGED <<lists, inits, async, locks, walks, handler, flag, once, linker, code, pc, arg,
                   cleared, crashed>>

(***************************************************************************)
(* The program around the library.                                         *)
(***************************************************************************)
\* A fault of the program's own, which its own handler would survive.  In the
\* middle of a protected access xhook's handler jumps to the walking thread's
\* frame on the wrong thread.
program_fault ==
    /\ ~crashed /\ handler = "xhook" /\ ~exposed
    /\ exposed' = TRUE
    /\ IF flag
       THEN crashed' = TRUE /\ UNCHANGED handler
       ELSE handler' = "app" /\ UNCHANGED crashed
    /\ UNCHANGED <<lists, inits, async, locks, walks, flag, enable, once, linker, code, pc, arg,
                   cleared>>

dlopen(p, b) ==
    /\ ~crashed /\ mapped[p] = None
    /\ mapped' = [mapped EXCEPT ![p] = b]
    /\ fresh' = [fresh EXCEPT ![p] = b \notin used[p]]
    /\ used' = [used EXCEPT ![p] = @ \cup {b}]
    /\ slot' = [slot EXCEPT ![p] = [s \in Symbol |-> Orig]]
    /\ UNCHANGED <<lists, inits, async, locks, walks, signals, old, pc, arg, cleared, crashed>>

dlclose(p) ==
    /\ ~crashed /\ mapped[p] # None
    /\ mapped' = [mapped EXCEPT ![p] = None]
    /\ UNCHANGED <<lists, inits, async, locks, walks, signals, used, fresh, code, pc, arg, cleared,
                   crashed>>

Call(t) ==
    \/ \E x \in Hook \cup Ignore : xh_core_register_check(t, x)
    \/ xh_core_refresh(t)
    \/ xh_core_clear(t)
    \/ xh_core_enable_sigsegv_protection(t)

Walk(t) ==
    \/ refresh_begin(t)
    \/ \E p \in Path : refresh_line(t, p)
    \/ xh_core_check_elf_header(t)
    \/ xh_core_hook(t)
    \/ xh_elf_replace_function(t)
    \/ refresh_end(t)

ThreadStep(t) ==
    \/ xh_core_register_insert(t)
    \/ xh_core_init_once_lock(t) \/ xh_core_add_sigsegv_handler(t)
    \/ xh_core_refresh_ready(t)
    \/ xh_core_init_async_once_lock(t) \/ xh_core_init_async_once_create(t)
    \/ xh_core_refresh_async(t)
    \/ Walk(t)
    \/ clear_stop(t) \/ clear_join(t) \/ clear_joined(t) \/ clear_reset_async(t)
    \/ xh_core_del_sigsegv_handler(t) \/ clear_lock(t) \/ clear_free(t)

WorkerStep(w) == refresh_thread_loop(w) \/ refresh_thread_take(w) \/ Walk(w)

Next ==
    \/ \E t \in Thread : Call(t) \/ ThreadStep(t)
    \/ \E w \in Worker : WorkerStep(w)
    \/ program_fault
    \/ \E p \in Path : dlclose(p) \/ \E b \in At[p] : dlopen(p, b)

Spec == Init /\ [][Next]_vars

\* A thread inside the library runs on, and gets a mutex that is released over and
\* over in the end.
LiveSpec ==
    /\ Spec
    /\ \A t \in Thread : SF_vars(ThreadStep(t))
    /\ \A w \in Worker : SF_vars(WorkerStep(w))

-----------------------------------------------------------------------------
Labels == {"idle", "enter", "init", "initing", "ready", "ainit", "create", "aready", "lock",
           "scan", "header", "hook", "replace", "stop", "join", "joining", "reset_async", "reset", "free",
           "freeing"}
WorkerLabels == {"none", "loop", "take", "waiting", "exited", "joined", "lock", "scan", "header",
                 "hook", "replace"}
Walking == {"scan", "header", "hook", "replace"}

\* The type invariant: of the library's variables, the linker's and the program's.
\* The walk belongs to the holder of the refresh mutex.
TypeOK ==
    /\ hook_info \in Seq(Hook) /\ ignore_info \in Seq(Ignore) /\ late \subseteq Hook
    /\ {inited, init_ok, async_inited, async_init_ok, running, do} \subseteq BOOLEAN
    /\ tid \in Worker \cup {None}
    /\ mutex \in Thread \cup {None} /\ refresh_mutex \in Runner \cup {None}
    /\ map_info \in [Path -> Base \cup {None}]
    /\ walk \in [todo : SUBSET Path, path : Path \cup {None}, base : Base \cup {None},
                 next : Nat \ {0}, refreshed : [Path -> Base \cup {None}]]
    /\ missed \in [Path -> SUBSET Hook]
    /\ handler \in {"app", "xhook", "default"}
    /\ {flag, enable, once, exposed, cleared, crashed} \subseteq BOOLEAN
    /\ mapped \in [Path -> Base \cup {None}]
    /\ used \in [Path -> SUBSET Base] /\ fresh \in [Path -> BOOLEAN]
    /\ slot \in [Path -> [Symbol -> Hook \cup {Orig}]]
    /\ old \in [Hook -> Hook \cup {Orig, None}]
    /\ \A t \in Thread : pc[t] \in Labels
    /\ \A w \in Worker : pc[w] \in WorkerLabels
    /\ arg \in [Thread -> Hook \cup Ignore \cup {"sync", "async", None} \cup Worker]
    /\ \A t \in Runner : pc[t] \in Walking => refresh_mutex = t

\* The functions a call through f passes, when each hook calls its old function: the
\* smallest set that holds f and, with a hook, its old function.
Callee == Hook \cup {Orig, None}
Closed(S) == \A h \in S \cap Hook : old[h] \in S
Reached(f) == {g \in Callee : \A S \in SUBSET Callee : f \in S /\ Closed(S) => g \in S}

\* A call through a slot never meets a hook without an old function, not even while
\* the slot is being written (xh_elf_replace_function stores the old one first), and
\* it ends in the original function as long as the library was never cleared: hooks
\* of one symbol chain up and never in a circle.
CallReachesOriginal ==
    \A p \in Path, s \in Symbol :
        /\ None \notin Reached(slot[p][s])
        /\ ~cleared => Orig \in Reached(slot[p][s])

\* What a refresh leaves behind: in an ELF at the address of the last walk, the
\* slot of every symbol holds the last hook that matches the path, is not ignored
\* and whose replacement did not fail (no later walk tries that again), the original
\* if there is none, or a hook that was entered late.  It leaves out what the walk
\* cannot know: an ELF that came back to an address it had before.
Wanted(p, s) == {i \in 1..Len(hook_info) :
                    /\ p \in Match[hook_info[i]] /\ SymOf[hook_info[i]] = s
                    /\ ~Ignored(p, s) /\ ~IgnoredAll(p)
                    /\ hook_info[i] \notin late \cup missed[p]}
RefreshHooks ==
    (~cleared /\ ~crashed /\ refresh_mutex = None) =>
        \A p \in Path \ Faulty, s \in Symbol :
            (map_info[p] # None /\ mapped[p] = map_info[p] /\ fresh[p]) =>
                \/ slot[p][s] \in late
                \/ slot[p][s] = Orig /\ Wanted(p, s) = {}
                \/ \E i \in Wanted(p, s) :
                       slot[p][s] = hook_info[i] /\ \A j \in Wanted(p, s) : j <= i

\* A fault of the walk ends the process only when the protection was lifted: by
\* the program's own fault, a clear, the switch, or the uninitialised sa_flags.
CrashOnlyWhenExposed == crashed => exposed \/ cleared

\* However many threads ask for the first asynchronous refresh, there is one
\* worker; only a clear, which resets the flags unlocked, can lead to a second.
OneWorker ==
    ~cleared => Cardinality({w \in Worker : pc[w] \notin {"none", "exited", "joined"}}) <= 1

\* Walks never meet: the state is well formed, a walk holds refresh_mutex until it
\* ends, and there is one worker to make them.
WalksApart == TypeOK /\ OneWorker

\* A request for an asynchronous refresh is taken up, unless the library is cleared.
AsyncServed == do ~> (~do \/ cleared \/ crashed)

\* Every call of the library returns: no lock is kept, no signal is lost, and the
\* worker that a clear waits for exits.
CallReturns == \A t \in Thread : (pc[t] # "idle") ~> (pc[t] = "idle" \/ crashed)
=============================================================================
