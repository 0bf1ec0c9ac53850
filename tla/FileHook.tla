------------------------------ MODULE FileHook ------------------------------
(***************************************************************************)
(* The libc file hooks of hook_libc: the registrations and the open and    *)
(* close hooks of file_hook.cpp, the handle map of base_hook.cpp, and the  *)
(* file_hook object of file_hook.h, in the arm64 build.                    *)
(*                                                                         *)
(* The map g_hook and the list of registrations have a lock each, which is *)
(* held for one lookup or one change at a time: between these steps other  *)
(* threads run, and the system reuses the handles that were closed.  The   *)
(* hooked program is correct: a thread uses and closes the handles it      *)
(* opened itself, and closes each once.                                    *)
(***************************************************************************)
EXTENDS Naturals, Sequences, FiniteSets

CONSTANTS
    Thread,
    Client,      \* users of register_file_hook
    Path,
    Pattern,     \* regular expressions of registrations
    Matches,     \* Matches[r]: the paths that pattern r matches
    Kind,        \* Kind[r]: the filter that the factory of r creates: "memory"
                 \* (memory_file), "none" (none_file_filter) or "pass" (a filter
                 \* that lets the open happen)
    RealHandle,  \* descriptors and FILE pointers of the system
    NoPattern,
    NoThread,
    MaxOpens,    \* bound: file_hook objects created
    MaxReg       \* bound: successful registrations

ASSUME PatternAssumption ==
    /\ Matches \in [Pattern -> SUBSET Path]
    /\ Kind \in [Pattern -> {"memory", "none", "pass"}]
    /\ NoPattern \notin Pattern
    /\ NoThread \notin Thread
ASSUME BoundAssumption == MaxOpens \in Nat /\ MaxReg \in Nat

\* A memory_file gives its own address as the FILE pointer.
FakeHandle == {<<"filter", i>> : i \in 1..MaxOpens}
Handle == RealHandle \cup FakeHandle

\* A filter is an object of its own: its address is no FILE pointer of libc.
ASSUME HandleAssumption ==
    /\ Path # {} /\ RealHandle # {}
    /\ RealHandle \cap FakeHandle = {}

VARIABLES
    hook_file_list,  \* pattern by handle of the registration (from 1 for 0),
                     \* NoPattern once it is erased
    reg,             \* reg[c]: what register_file_hook last gave client c
    refused,         \* history: a duplicate registration was answered with 0
    objs,            \* the file_hook objects
    g_hook,          \* handle -> object, 0 where there is none
    open,            \* the real handles that the system has open
    owner,           \* owner[h]: who opened h, and the object made for it
    thr,             \* what each thread is doing
    failed,          \* history: objects whose open returned no handle
    reused,          \* history: a handle was given out again before the close
                     \* of its last use was over
    fakeInLibc,      \* history: libc or an int load was given a filter's address
    crashed

vars == <<hook_file_list, reg, refused, objs, g_hook, open, owner, thr, failed,
          reused, fakeInLibc, crashed>>

NoRegistration == [pattern |-> NoPattern, handle |-> 0]
NoOwner == [thread |-> NoThread, obj |-> 0]
Idle == [pc |-> "idle", path |-> CHOOSE p \in Path : TRUE, h |-> CHOOSE h \in RealHandle : TRUE,
         obj |-> 0]

Init ==
    /\ hook_file_list = <<>>
    /\ reg = [c \in Client |-> NoRegistration]
    /\ refused = FALSE
    /\ objs = <<>>
    /\ g_hook = [h \in Handle |-> 0]
    /\ open = {}
    /\ owner = [h \in Handle |-> NoOwner]
    /\ thr = [t \in Thread |-> Idle]
    /\ failed = {}
    /\ reused = FALSE
    /\ fakeInLibc = FALSE
    /\ crashed = FALSE

-----------------------------------------------------------------------------
(* Registrations.                                                          *)

FilesUnchanged == UNCHANGED <<objs, g_hook, open, owner, thr, failed, reused,
                              fakeInLibc, crashed>>

check_hook_info(r) == \A i \in DOMAIN hook_file_list : hook_file_list[i] # r

\* Mistake: the handle is the next number, not the one just used.
register_file_hook_late(c, r) ==
    /\ reg[c] = NoRegistration
    /\ check_hook_info(r)
    /\ Len(hook_file_list) < MaxReg
    /\ hook_file_list' = Append(hook_file_list, r)
    /\ reg' = [reg EXCEPT ![c] = [pattern |-> r, handle |-> Len(hook_file_list) + 2]]
    /\ UNCHANGED refused
    /\ FilesUnchanged

\* A duplicate is answered with false, which is the number 0 (here 1).
register_file_hook(c, r) ==
    /\ reg[c] = NoRegistration
    /\ \/ /\ check_hook_info(r)
          /\ Len(hook_file_list) < MaxReg
          /\ hook_file_list' = Append(hook_file_list, r)
          /\ reg' = [reg EXCEPT ![c] = [pattern |-> r, handle |-> Len(hook_file_list) + 1]]
          /\ UNCHANGED refused
       \/ /\ ~check_hook_info(r)
          /\ reg' = [reg EXCEPT ![c] = [pattern |-> r, handle |-> 1]]
          /\ refused' = TRUE
          /\ UNCHANGED hook_file_list
    /\ FilesUnchanged

\* Mistake: the newest registration goes.
unregister_file_hook_newest(c) ==
    /\ reg[c] # NoRegistration
    /\ hook_file_list' = [hook_file_list EXCEPT ![Len(hook_file_list)] = NoPattern]
    /\ reg' = [reg EXCEPT ![c] = NoRegistration]
    /\ UNCHANGED refused
    /\ FilesUnchanged

unregister_file_hook(c) ==
    /\ reg[c] # NoRegistration
    /\ hook_file_list' = [hook_file_list EXCEPT ![reg[c].handle] = NoPattern]
    /\ reg' = [reg EXCEPT ![c] = NoRegistration]
    /\ UNCHANGED refused
    /\ FilesUnchanged

-----------------------------------------------------------------------------
(* hook_fopen and hook_open.                                               *)

RegUnchanged == UNCHANGED <<hook_file_list, reg, refused>>
HistoryUnchanged == UNCHANGED <<failed, reused, fakeInLibc, crashed>>

Hits(path) == {i \in DOMAIN hook_file_list :
                 hook_file_list[i] # NoPattern /\ path \in Matches[hook_file_list[i]]}
FirstHit(path) == CHOOSE i \in Hits(path) : \A j \in Hits(path) : i <= j

\* The first registration that matches makes the object, under lock_open.
check_and_create_handle(t, path, next) ==
    /\ thr[t].pc = "idle"
    /\ \/ /\ Hits(path) # {}
          /\ Len(objs) < MaxOpens
          /\ objs' = Append(objs, [kind |-> Kind[hook_file_list[FirstHit(path)]], live |-> TRUE])
          /\ thr' = [thr EXCEPT ![t].pc = next, ![t].path = path, ![t].obj = Len(objs) + 1]
       \/ /\ Hits(path) = {}
          /\ thr' = [thr EXCEPT ![t].pc = next, ![t].path = path, ![t].obj = 0]
          /\ UNCHANGED objs
    /\ UNCHANGED <<g_hook, open, owner>>
    /\ HistoryUnchanged
    /\ RegUnchanged

hook_open(t, path) == check_and_create_handle(t, path, "open")

\* Another thread has closed h but has still to take it out of g_hook.
Closing(h) == \E s \in Thread : thr[s].pc = "remove" /\ thr[s].h = h

\* The real open, for a path without a filter or with one that lets it happen.
real_open(t) ==
    /\ thr[t].pc = "open"
    /\ thr[t].obj # 0 => objs[thr[t].obj].kind = "pass"
    /\ \E h \in RealHandle \ open :
          /\ open' = open \cup {h}
          /\ owner' = [owner EXCEPT ![h] = [thread |-> t, obj |-> thr[t].obj]]
          /\ reused' = (reused \/ Closing(h))
          /\ thr' = [thr EXCEPT ![t].h = h,
                                ![t].pc = IF thr[t].obj = 0 THEN "idle" ELSE "insert"]
    /\ UNCHANGED <<objs, g_hook, failed, fakeInLibc, crashed>>
    /\ RegUnchanged

\* No handle: the real open fails, or none_file_filter answers fopen with null.
\* The object is not deleted.
open_fails(t) ==
    /\ thr[t].pc = "open"
    /\ thr[t].obj # 0 => objs[thr[t].obj].kind \in {"pass", "none"}
    /\ failed' = failed \cup ({thr[t].obj} \ {0})
    /\ thr' = [thr EXCEPT ![t] = Idle]
    /\ UNCHANGED <<objs, g_hook, open, owner, reused, fakeInLibc, crashed>>
    /\ RegUnchanged

\* fopen on a memory_file.
memory_open(t) ==
    LET h == <<"filter", thr[t].obj>> IN
    /\ thr[t].pc = "open"
    /\ thr[t].obj # 0 /\ objs[thr[t].obj].kind = "memory"
    /\ owner' = [owner EXCEPT ![h] = [thread |-> t, obj |-> thr[t].obj]]
    /\ thr' = [thr EXCEPT ![t].pc = "insert", ![t].h = h]
    /\ UNCHANGED <<objs, g_hook, open>>
    /\ HistoryUnchanged
    /\ RegUnchanged

\* open on a filter that answers itself: arm64 code loads an int from the
\* descriptor, which is no address (65555 and up, or -1).
device_open_load(t) ==
    /\ thr[t].pc = "open"
    /\ thr[t].obj # 0 /\ objs[thr[t].obj].kind \in {"memory", "none"}
    /\ fakeInLibc' = TRUE
    /\ crashed' = TRUE
    /\ UNCHANGED <<objs, g_hook, open, owner, thr, failed, reused>>
    /\ RegUnchanged

\* std::map::insert: an entry that is there stays.
insert_hook_handle(t) ==
    /\ thr[t].pc = "insert"
    /\ g_hook' = [g_hook EXCEPT ![thr[t].h] = IF @ = 0 THEN thr[t].obj ELSE @]
    /\ thr' = [thr EXCEPT ![t] = Idle]
    /\ UNCHANGED <<objs, open, owner>>
    /\ HistoryUnchanged
    /\ RegUnchanged

-----------------------------------------------------------------------------
(* Reads and writes.                                                       *)

\* get_hook_handle looks h up under lock_handle; the object is used after it.
get_hook_handle(t, h, next) ==
    /\ thr[t].pc = "idle"
    /\ owner[h].thread = t
    /\ thr' = [thr EXCEPT ![t].pc = next, ![t].h = h, ![t].obj = g_hook[h]]
    /\ UNCHANGED <<objs, g_hook, open, owner>>
    /\ HistoryUnchanged
    /\ RegUnchanged

hook_read(t, h) == get_hook_handle(t, h, "use")

Live(t) == thr[t].obj = 0 \/ objs[thr[t].obj].live

\* The filter answers, or the real function does.  When a memory_file has
\* nothing more to give, the real function is called with the filter's address.
read_done(t) ==
    /\ thr[t].pc = "use"
    /\ \/ /\ thr' = [thr EXCEPT ![t] = Idle]
          /\ UNCHANGED <<fakeInLibc, crashed>>
       \/ /\ thr[t].h \in FakeHandle
          /\ fakeInLibc' = TRUE
          /\ crashed' \in BOOLEAN
          /\ thr' = [thr EXCEPT ![t] = Idle]
       \/ /\ ~Live(t)
          /\ crashed' = TRUE
          /\ UNCHANGED <<thr, fakeInLibc>>
    /\ UNCHANGED <<objs, g_hook, open, owner, failed, reused>>
    /\ RegUnchanged

-----------------------------------------------------------------------------
(* hook_fclose and hook_close.                                             *)

hook_close(t, h) == get_hook_handle(t, h, "close")

\* p->fclose, or the real function: the handle is free for others from here.
\* For a memory_file libc gets the filter's address.
real_close(t) ==
    LET h == thr[t].h IN
    /\ thr[t].pc = "close"
    /\ \/ /\ open' = open \ {h}
          /\ owner' = [owner EXCEPT ![h] = NoOwner]
          /\ fakeInLibc' = (fakeInLibc \/ h \in FakeHandle)
          /\ crashed' \in (IF h \in FakeHandle THEN BOOLEAN ELSE {FALSE})
          /\ thr' = [thr EXCEPT ![t] = IF @.obj = 0 THEN Idle ELSE [@ EXCEPT !.pc = "remove"]]
       \/ /\ ~Live(t)
          /\ crashed' = TRUE
          /\ UNCHANGED <<open, owner, fakeInLibc, thr>>
    /\ UNCHANGED <<objs, g_hook, failed, reused>>
    /\ RegUnchanged

\* Mistake: the entry stays in the map.
remove_hook_handle_skip(t) ==
    /\ thr[t].pc = "remove"
    /\ thr' = [thr EXCEPT ![t].pc = "delete"]
    /\ UNCHANGED <<objs, g_hook, open, owner>>
    /\ HistoryUnchanged
    /\ RegUnchanged

\* erase(find(h)) of a missing entry is undefined.
remove_hook_handle(t) ==
    /\ thr[t].pc = "remove"
    /\ IF g_hook[thr[t].h] # 0
       THEN /\ g_hook' = [g_hook EXCEPT ![thr[t].h] = 0]
            /\ thr' = [thr EXCEPT ![t].pc = "delete"]
            /\ UNCHANGED crashed
       ELSE /\ crashed' = TRUE
            /\ UNCHANGED <<g_hook, thr>>
    /\ UNCHANGED <<objs, open, owner, failed, reused, fakeInLibc>>
    /\ RegUnchanged

\* Mistake: the object is forgotten.
delete_handle_skip(t) ==
    /\ thr[t].pc = "delete"
    /\ thr' = [thr EXCEPT ![t] = Idle]
    /\ UNCHANGED <<objs, g_hook, open, owner>>
    /\ HistoryUnchanged
    /\ RegUnchanged

delete_handle(t) ==
    /\ thr[t].pc = "delete"
    /\ IF Live(t)
       THEN /\ objs' = [objs EXCEPT ![thr[t].obj].live = FALSE]
            /\ thr' = [thr EXCEPT ![t] = Idle]
            /\ UNCHANGED crashed
       ELSE /\ crashed' = TRUE
            /\ UNCHANGED <<objs, thr>>
    /\ UNCHANGED <<g_hook, open, owner, failed, reused, fakeInLibc>>
    /\ RegUnchanged

-----------------------------------------------------------------------------
(* hook_lstat, hook_stat, hook_rename and hook_access.                     *)

hook_stat(t, path) == check_and_create_handle(t, path, "path")

\* The object lives for one call, which the filter answers or not.
stat_done(t) ==
    LET i == thr[t].obj IN
    /\ thr[t].pc = "path"
    /\ objs' = IF i = 0 THEN objs ELSE [objs EXCEPT ![i].live = FALSE]
    /\ thr' = [thr EXCEPT ![t] = Idle]
    /\ UNCHANGED <<g_hook, open, owner, failed, reused, fakeInLibc, crashed>>
    /\ RegUnchanged

-----------------------------------------------------------------------------
ThreadStep(t) ==
    \/ \E path \in Path : hook_open(t, path) \/ hook_stat(t, path)
    \/ stat_done(t)
    \/ real_open(t)
    \/ open_fails(t)
    \/ memory_open(t)
    \/ device_open_load(t)
    \/ insert_hook_handle(t)
    \/ \E h \in Handle : hook_read(t, h) \/ hook_close(t, h)
    \/ read_done(t)
    \/ real_close(t)
    \/ remove_hook_handle(t)
    \/ delete_handle(t)

Next ==
    /\ ~crashed
    /\ \/ \E c \in Client : \/ \E r \in Pattern : register_file_hook(c, r)
                            \/ unregister_file_hook(c)
       \/ \E t \in Thread : ThreadStep(t)

Spec == Init /\ [][Next]_vars

-----------------------------------------------------------------------------
(* Properties.                                                             *)

TypeOK ==
    /\ hook_file_list \in Seq(Pattern \cup {NoPattern})
    /\ reg \in [Client -> [pattern: Pattern \cup {NoPattern}, handle: 0..MaxReg]]
    /\ refused \in BOOLEAN
    /\ objs \in Seq([kind: {"memory", "none", "pass"}, live: BOOLEAN])
    /\ g_hook \in [Handle -> 0..Len(objs)]
    /\ open \subseteq RealHandle
    /\ owner \in [Handle -> [thread: Thread \cup {NoThread}, obj: 0..Len(objs)]]
    /\ thr \in [Thread -> [pc: {"idle", "open", "insert", "use", "close", "remove", "delete", "path"},
                           path: Path, h: Handle, obj: 0..Len(objs)]]
    /\ failed \subseteq DOMAIN objs
    /\ {reused, fakeInLibc, crashed} \subseteq BOOLEAN

\* Every read, write and close of a handle goes through the filter of the path it
\* was opened with, and through none when that path has none, as long as the
\* system has not given a handle out again between the real close and
\* remove_hook_handle: hook_fclose closes first and removes after.
RightFilter ==
    reused \/ \A t \in Thread :
        (thr[t].pc \in {"use", "close"}) => /\ thr[t].obj = owner[thr[t].h].obj
                                            /\ Live(t)

\* The hooks bring the process down only when a handle was reused as above, or
\* when a filter's own handle reached libc.
CrashOnlyAfterReuseOrFake == crashed => (reused \/ fakeInLibc)

\* Every use of a handle meets the filter it was opened with, and the process
\* survives it, but for the two ways out that the parts name.
FiltersRight == RightFilter /\ CrashOnlyAfterReuseOrFake

\* Every file_hook object in existence is reachable from the map or in the hands
\* of a thread, except those whose open gave no handle, which hook_fopen and
\* hook_open never delete; after a reuse the insertion may be lost as well.
NoOtherLeak ==
    reused \/ \A i \in DOMAIN objs :
        objs[i].live => \/ i \in failed
                        \/ \E h \in Handle : g_hook[h] = i
                        \/ \E t \in Thread : thr[t].obj = i

\* No pattern is registered twice, in whatever order clients come and go.
NoDuplicatePattern ==
    \A i, j \in DOMAIN hook_file_list :
        (i # j /\ hook_file_list[i] # NoPattern) => hook_file_list[i] # hook_file_list[j]

\* As long as no duplicate was refused, a registration stays until its own client
\* takes it back.  (The answer to a duplicate is 0, the handle of the first
\* registration, and unregistering that removes the first.)
RegistrationKept ==
    refused \/ \A c \in Client :
        reg[c] # NoRegistration => hook_file_list[reg[c].handle] = reg[c].pattern

\* Registrations neither double nor disappear, but for the answer to a duplicate.
RegistrationsRight == NoDuplicatePattern /\ RegistrationKept
=============================================================================
