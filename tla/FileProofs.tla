----------------------------- MODULE FileProofs -----------------------------
(***************************************************************************)
(* The file hooks and the memory files they hand out.                      *)
(*                                                                         *)
(* FileHook, for any number of clients, patterns, paths, threads, handles  *)
(* and objects: what the registrations promise (RegInv), and what the map  *)
(* of handles and the objects behind it do (FileInv).                      *)
(*                                                                         *)
(* MemoryFile, for every set of bytes, every bound on offsets and on the   *)
(* length of a call, and every initial capacity: the buffer is large       *)
(* enough (MemInv), and a memory_file implements ByteFile.                 *)
(***************************************************************************)
EXTENDS FileHook, MemoryFile, TLAPS, WellFoundedInduction

RegType ==
    /\ hook_file_list \in Seq(Pattern \cup {NoPattern})
    /\ reg \in [Client -> [pattern: Pattern \cup {NoPattern}, handle: Nat]]
    /\ refused \in BOOLEAN

Registered(c) == reg[c] # NoRegistration

\* A client's number is that of an entry of the list, erased or not.
HandleIssued ==
    \A c \in Client : Registered(c) => reg[c].handle \in 1..Len(hook_file_list)

\* Until a duplicate is answered with 0, no two clients have the same number.
HandleOwn ==
    refused \/ \A c, d \in Client :
        (c # d /\ Registered(c) /\ Registered(d)) => reg[c].handle # reg[d].handle

RegInv ==
    /\ RegType
    /\ HandleIssued
    /\ HandleOwn
    /\ NoDuplicatePattern
    /\ RegistrationKept

-----------------------------------------------------------------------------
\* No step of a thread inside the hooks touches the registrations.
LEMMA ThreadsKeepRegistrations ==
    ASSUME NEW t \in Thread, ThreadStep(t)
    PROVE  UNCHANGED <<hook_file_list, reg, refused>>
  BY DEF ThreadStep, RegUnchanged, hook_open, hook_stat, check_and_create_handle,
         real_open, open_fails, memory_open, device_open_load, insert_hook_handle,
         hook_read, hook_close, get_hook_handle, read_done, real_close,
         remove_hook_handle, delete_handle, stat_done

\* A successful registration: a new entry at the end, under a new number.
LEMMA RegisterKeeps ==
    ASSUME RegInv, NEW c \in Client, NEW r \in Pattern, register_file_hook(c, r)
    PROVE  RegInv'
  <1> USE PatternAssumption
  <1> DEFINE n == Len(hook_file_list)
  <1>0. /\ hook_file_list \in Seq(Pattern \cup {NoPattern}) /\ n \in Nat
        /\ DOMAIN hook_file_list = 1..n
    BY DEF RegInv, RegType
  <1>1. CASE /\ check_hook_info(r)
             /\ hook_file_list' = Append(hook_file_list, r)
             /\ reg' = [reg EXCEPT ![c] = [pattern |-> r, handle |-> n + 1]]
             /\ UNCHANGED refused
    <2>1. /\ Len(hook_file_list') = n + 1
          /\ DOMAIN hook_file_list' = 1..(n + 1)
          /\ hook_file_list'[n + 1] = r
          /\ \A i \in 1..n : hook_file_list'[i] = hook_file_list[i]
          /\ hook_file_list' \in Seq(Pattern \cup {NoPattern})
      BY <1>0, <1>1
    <2>2. /\ reg'[c] = [pattern |-> r, handle |-> n + 1]
          /\ \A d \in Client : d # c => reg'[d] = reg[d]
          /\ reg' \in [Client -> [pattern: Pattern \cup {NoPattern}, handle: Nat]]
      BY <1>0, <1>1 DEF RegInv, RegType
    <2>3. RegType'
      BY <1>1, <2>1, <2>2 DEF RegInv, RegType
    <2>4. HandleIssued'
      BY <1>0, <2>1, <2>2 DEF RegInv, HandleIssued, Registered
    <2>5. HandleOwn'
      BY <1>0, <1>1, <2>2 DEF RegInv, HandleIssued, HandleOwn, Registered
    <2>6. NoDuplicatePattern'
      BY <1>0, <1>1, <2>1 DEF RegInv, NoDuplicatePattern, check_hook_info
    <2>7. RegistrationKept'
      BY <1>0, <1>1, <2>1, <2>2 DEF RegInv, HandleIssued, RegistrationKept, Registered
    <2> QED
      BY <2>3, <2>4, <2>5, <2>6, <2>7 DEF RegInv
  <1>2. CASE /\ ~check_hook_info(r)
             /\ reg' = [reg EXCEPT ![c] = [pattern |-> r, handle |-> 1]]
             /\ refused' = TRUE
             /\ UNCHANGED hook_file_list
    <2>1. 1 \in 1..n
      BY <1>0, <1>2 DEF check_hook_info
    <2>2. /\ reg'[c] = [pattern |-> r, handle |-> 1]
          /\ \A d \in Client : d # c => reg'[d] = reg[d]
          /\ reg' \in [Client -> [pattern: Pattern \cup {NoPattern}, handle: Nat]]
      BY <1>2 DEF RegInv, RegType
    <2>3. RegType' /\ HandleIssued'
      BY <1>0, <1>2, <2>1, <2>2 DEF RegInv, RegType, HandleIssued, Registered
    <2>4. HandleOwn' /\ NoDuplicatePattern' /\ RegistrationKept'
      BY <1>2 DEF RegInv, HandleOwn, NoDuplicatePattern, RegistrationKept
    <2> QED
      BY <2>3, <2>4 DEF RegInv
  <1> QED
    BY <1>1, <1>2 DEF register_file_hook

\* An unregistration erases one entry, which no other client relies on.
LEMMA UnregisterKeeps ==
    ASSUME RegInv, NEW c \in Client, unregister_file_hook(c)
    PROVE  RegInv'
  <1> USE PatternAssumption
  <1> DEFINE n == Len(hook_file_list)
             k == reg[c].handle
  <1>1. /\ hook_file_list \in Seq(Pattern \cup {NoPattern}) /\ n \in Nat
        /\ DOMAIN hook_file_list = 1..n
        /\ k \in 1..n
    BY DEF RegInv, RegType, HandleIssued, Registered, unregister_file_hook
  <1>2. /\ hook_file_list' = [hook_file_list EXCEPT ![k] = NoPattern]
        /\ reg' = [reg EXCEPT ![c] = NoRegistration]
        /\ refused' = refused
    BY DEF unregister_file_hook
  <1>3. /\ DOMAIN hook_file_list' = 1..n
        /\ Len(hook_file_list') = n
        /\ hook_file_list'[k] = NoPattern
        /\ \A i \in 1..n : i # k => hook_file_list'[i] = hook_file_list[i]
        /\ hook_file_list' \in Seq(Pattern \cup {NoPattern})
    BY <1>1, <1>2
  <1>4. /\ reg'[c] = NoRegistration
        /\ \A d \in Client : d # c => reg'[d] = reg[d]
        /\ reg' \in [Client -> [pattern: Pattern \cup {NoPattern}, handle: Nat]]
    BY <1>2 DEF RegInv, RegType, NoRegistration
  <1>5. RegType' /\ HandleIssued' /\ HandleOwn'
    BY <1>2, <1>3, <1>4 DEF RegInv, RegType, HandleIssued, HandleOwn, Registered
  <1>6. NoDuplicatePattern'
    BY <1>1, <1>3 DEF RegInv, NoDuplicatePattern
  <1>7. RegistrationKept'
    <2> SUFFICES ASSUME ~refused, NEW d \in Client, d # c, Registered(d)
                 PROVE  hook_file_list'[reg[d].handle] = reg[d].pattern
      BY <1>2, <1>4 DEF RegistrationKept, Registered
    <2>1. reg[d].handle \in 1..n /\ reg[d].handle # k
      BY DEF RegInv, HandleIssued, HandleOwn, Registered, unregister_file_hook
    <2> QED
      BY <1>3, <2>1 DEF RegInv, RegistrationKept, Registered
  <1> QED
    BY <1>5, <1>6, <1>7 DEF RegInv

LEMMA RegInvInit == Init => RegInv
  <1> SUFFICES ASSUME Init PROVE RegInv
    OBVIOUS
  <1>1. /\ hook_file_list = <<>>
        /\ reg = [c \in Client |-> NoRegistration]
        /\ refused = FALSE
    BY DEF Init
  <1>2. RegType
    <2>1. NoRegistration \in [pattern: Pattern \cup {NoPattern}, handle: Nat]
      BY DEF NoRegistration
    <2>2. reg \in [Client -> [pattern: Pattern \cup {NoPattern}, handle: Nat]]
      BY <1>1, <2>1
    <2>3. hook_file_list \in Seq(Pattern \cup {NoPattern})
      BY <1>1
    <2> QED
      BY <1>1, <2>2, <2>3 DEF RegType
  <1>3. \A c \in Client : ~Registered(c)
    BY <1>1 DEF Registered
  <1>4. HandleIssued /\ HandleOwn /\ RegistrationKept
    BY <1>3 DEF HandleIssued, HandleOwn, RegistrationKept, Registered
  <1>5. NoDuplicatePattern
    BY <1>1 DEF NoDuplicatePattern
  <1> QED
    BY <1>2, <1>4, <1>5 DEF RegInv

LEMMA RegInvStep == RegInv /\ [Next]_vars => RegInv'
  <1> SUFFICES ASSUME RegInv, [Next]_vars PROVE RegInv'
    OBVIOUS
  <1>1. ASSUME NEW c \in Client, NEW r \in Pattern, register_file_hook(c, r) PROVE RegInv'
    BY <1>1, RegisterKeeps
  <1>2. ASSUME NEW c \in Client, unregister_file_hook(c) PROVE RegInv'
    BY <1>2, UnregisterKeeps
  <1>3. CASE UNCHANGED <<hook_file_list, reg, refused>>
    BY <1>3 DEF RegInv, RegType, HandleIssued, HandleOwn, NoDuplicatePattern,
                RegistrationKept, Registered
  <1>4. ASSUME NEW t \in Thread, ThreadStep(t) PROVE RegInv'
    BY <1>3, <1>4, ThreadsKeepRegistrations
  <1>5. CASE UNCHANGED vars
    BY <1>3, <1>5 DEF vars
  <1> QED
    BY <1>1, <1>2, <1>4, <1>5 DEF Next

LEMMA RegInvAlways == Spec => []RegInv
  BY RegInvInit, RegInvStep, PTL DEF Spec

\* No pattern is registered twice at the same time, whatever clients register,
\* take back and register again through register_file_hook.
THEOREM PatternsStayDistinct == Spec => []NoDuplicatePattern
  <1>1. RegInv => NoDuplicatePattern
    BY DEF RegInv
  <1> QED
    BY <1>1, RegInvAlways, PTL

\* Without refused duplicates the entry of every client stays in hook_file_list
\* until that client calls unregister_file_hook.
THEOREM RegistrationsStay == Spec => []RegistrationKept
  <1>1. RegInv => RegistrationKept
    BY DEF RegInv
  <1> QED
    BY <1>1, RegInvAlways, PTL

\* register_file_hook and unregister_file_hook keep the registrations right, for any
\* number of clients and patterns.
THEOREM RegistrationsStayRight == Spec => []RegistrationsRight
  BY PatternsStayDistinct, RegistrationsStay, PTL DEF RegistrationsRight

-----------------------------------------------------------------------------
(* Types.                                                                  *)

Obj == [kind: {"memory", "none", "pass"}, live: BOOLEAN]
Pc == {"idle", "open", "insert", "use", "close", "remove", "delete", "path"}

FileType ==
    /\ objs \in Seq(Obj)
    /\ Len(objs) <= MaxOpens
    /\ g_hook \in [Handle -> 0..Len(objs)]
    /\ open \in SUBSET RealHandle
    /\ owner \in [Handle -> [thread: Thread \cup {NoThread}, obj: 0..Len(objs)]]
    /\ thr \in [Thread -> [pc: Pc, path: Path, h: Handle, obj: 0..Len(objs)]]
    /\ failed \in SUBSET (1..Len(objs))
    /\ reused \in BOOLEAN /\ fakeInLibc \in BOOLEAN /\ crashed \in BOOLEAN

\* The bound on registrations is one on the numbers that clients get.
RegBound ==
    /\ Len(hook_file_list) <= MaxReg
    /\ \A c \in Client : reg[c].handle <= MaxReg

\* A set of numbers that is not empty has a smallest element.
LEMMA SmallestExists ==
    ASSUME NEW S, S \subseteq Nat, S # {}
    PROVE  \E i \in S : \A j \in S : i <= j
  <1> DEFINE R == OpToRel(<, Nat)
  <1>1. \E i \in S : \A j \in S : ~ (<<j, i>> \in R)
    BY WFMin, NatLessThanWellFounded, Zenon
  <1>2. \A i, j \in Nat : j < i => <<j, i>> \in R
    BY DEF OpToRel
  <1> HIDE DEF R
  <1>3. PICK i \in S : \A j \in S : ~ (<<j, i>> \in R)
    BY <1>1
  <1>4. \A j \in S : i \in Nat /\ j \in Nat /\ ~ (j < i)
    BY <1>2, <1>3
  <1>5. \A j \in S : i <= j
    BY <1>4
  <1> QED
    BY <1>5

\* The registration that hook_open takes for a path is one in the list that
\* matches it, and none before it does.
LEMMA FirstHitIsHit ==
    ASSUME RegInv, NEW path \in Path, Hits(path) # {}
    PROVE  /\ FirstHit(path) \in Hits(path)
           /\ \A j \in Hits(path) : FirstHit(path) <= j
           /\ hook_file_list[FirstHit(path)] \in Pattern
  <1>1. /\ Hits(path) \subseteq Nat
        /\ \A i \in Hits(path) : hook_file_list[i] \in Pattern
    BY DEF Hits, RegInv, RegType
  <1>2. \E i \in Hits(path) : \A j \in Hits(path) : i <= j
    BY <1>1, SmallestExists
  <1>3. /\ FirstHit(path) \in Hits(path)
        /\ \A j \in Hits(path) : FirstHit(path) <= j
    BY <1>2, Zenon DEF FirstHit
  <1> QED
    BY <1>1, <1>3

LEMMA RegBoundStep == RegInv /\ RegBound /\ [Next]_vars => RegBound'
  <1> SUFFICES ASSUME RegInv, RegBound, [Next]_vars PROVE RegBound'
    OBVIOUS
  <1> USE BoundAssumption
  <1>0. hook_file_list \in Seq(Pattern \cup {NoPattern}) /\ Len(hook_file_list) \in Nat
    BY DEF RegInv, RegType
  <1>1. ASSUME NEW c \in Client, NEW r \in Pattern, register_file_hook(c, r) PROVE RegBound'
    <2>1. CASE /\ Len(hook_file_list) < MaxReg
               /\ hook_file_list' = Append(hook_file_list, r)
               /\ reg' = [reg EXCEPT ![c] = [pattern |-> r, handle |-> Len(hook_file_list) + 1]]
      <3>1. Len(hook_file_list') = Len(hook_file_list) + 1
        BY <1>0, <2>1
      <3> QED
        BY <1>0, <2>1, <3>1 DEF RegBound, RegInv, RegType
    <2>2. CASE /\ ~check_hook_info(r)
               /\ reg' = [reg EXCEPT ![c] = [pattern |-> r, handle |-> 1]]
               /\ UNCHANGED hook_file_list
      <3>1. Len(hook_file_list) >= 1
        BY <1>0, <2>2 DEF check_hook_info
      <3> QED
        BY <1>0, <2>2, <3>1 DEF RegBound, RegInv, RegType
    <2> QED
      BY <1>1, <2>1, <2>2 DEF register_file_hook
  <1>2. ASSUME NEW c \in Client, unregister_file_hook(c) PROVE RegBound'
    <2>1. /\ hook_file_list' = [hook_file_list EXCEPT ![reg[c].handle] = NoPattern]
          /\ reg' = [reg EXCEPT ![c] = NoRegistration]
      BY <1>2 DEF unregister_file_hook
    <2>2. Len(hook_file_list') = Len(hook_file_list)
      BY <1>0, <2>1
    <2> QED
      BY <2>1, <2>2 DEF RegBound, RegInv, RegType, NoRegistration
  <1>3. CASE UNCHANGED <<hook_file_list, reg, refused>>
    BY <1>3 DEF RegBound
  <1>4. ASSUME NEW t \in Thread, ThreadStep(t) PROVE RegBound'
    BY <1>3, <1>4, ThreadsKeepRegistrations
  <1>5. CASE UNCHANGED vars
    BY <1>3, <1>5 DEF vars
  <1> QED
    BY <1>1, <1>2, <1>4, <1>5 DEF Next

LEMMA IdleType ==
    ASSUME FileType
    PROVE  Idle \in [pc: Pc, path: Path, h: Handle, obj: 0..Len(objs)]
  <1>1. (CHOOSE p \in Path : TRUE) \in Path
    BY HandleAssumption
  <1>2. (CHOOSE h \in RealHandle : TRUE) \in Handle
    BY HandleAssumption DEF Handle
  <1>3. 0 \in 0..Len(objs)
    BY DEF FileType
  <1> QED
    BY <1>1, <1>2, <1>3 DEF Idle, Pc

-----------------------------------------------------------------------------
(* Handles and objects.                                                    *)

\* A thread has the object to itself: it has yet to enter it in g_hook, or is
\* about to take it out of there and delete it.
Holds(t) == thr[t].obj # 0 /\ thr[t].pc \in {"open", "insert", "path", "remove", "delete"}

IdleRight ==
    \A t \in Thread : /\ thr[t].pc = "idle" => thr[t].obj = 0
                      /\ thr[t].pc \in {"remove", "delete"} => thr[t].obj # 0

\* owner is the truth about handles: what is open, and for whom.
OwnersRight ==
    /\ \A h \in Handle : owner[h].thread = NoThread => owner[h].obj = 0
    /\ \A h \in RealHandle : h \in open <=> owner[h].thread # NoThread
    /\ \A i \in 1..MaxOpens :
          owner[<<"filter", i>>].thread # NoThread => owner[<<"filter", i>>].obj = i
    /\ \A t \in Thread : thr[t].pc \in {"insert", "use", "close"} =>
          owner[thr[t].h].thread = t /\ owner[thr[t].h].obj = thr[t].obj

\* g_hook follows owner, except between the open and the insertion and between
\* the close and the removal.
EntriesRight ==
    /\ \A h \in Handle : owner[h].thread # NoThread =>
          g_hook[h] = IF /\ thr[owner[h].thread].pc = "insert"
                         /\ thr[owner[h].thread].h = h
                      THEN 0
                      ELSE owner[h].obj
    /\ \A h \in Handle : owner[h].thread = NoThread /\ g_hook[h] # 0 => Closing(h)

\* Whoever is about to remove an entry finds its own, and alone.
RemovalsRight ==
    /\ \A t \in Thread : thr[t].pc = "remove" =>
          /\ thr[t].obj # 0
          /\ g_hook[thr[t].h] = thr[t].obj
          /\ owner[thr[t].h].thread = NoThread
    /\ \A s, t \in Thread :
          s # t /\ thr[s].pc = "remove" /\ thr[t].pc = "remove" => thr[s].h # thr[t].h
    /\ \A t \in Thread, i \in 1..MaxOpens :
          thr[t].pc = "remove" /\ thr[t].h = <<"filter", i>> => thr[t].obj = i

\* An object is in the hands of one thread or behind one handle.
ObjectsApart ==
    /\ \A s, t \in Thread : s # t /\ Holds(s) /\ Holds(t) => thr[s].obj # thr[t].obj
    /\ \A t \in Thread : Holds(t) /\ thr[t].pc # "insert" =>
          \A h \in Handle : owner[h].obj # thr[t].obj
    /\ \A h, k \in Handle : h # k /\ owner[h].obj # 0 => owner[h].obj # owner[k].obj

\* What can be reached exists.
HeldLive ==
    /\ \A t \in Thread : Holds(t) => objs[thr[t].obj].live
    /\ \A h \in Handle : owner[h].obj # 0 => objs[owner[h].obj].live

\* What exists can be reached.
LiveHeld ==
    \A i \in DOMAIN objs :
        objs[i].live => \/ i \in failed
                        \/ \E h \in Handle : g_hook[h] = i
                        \/ \E t \in Thread : Holds(t) /\ thr[t].obj = i

Sound == OwnersRight /\ EntriesRight /\ RemovalsRight /\ ObjectsApart /\ HeldLive /\ LiveHeld

FileInv ==
    /\ FileType
    /\ IdleRight
    /\ reused \/ Sound
    /\ CrashOnlyAfterReuseOrFake

\* The object that a read, a write or a close is about to use, and the one that a
\* close is about to delete, exist.
LEMMA UsedAreLive ==
    ASSUME FileType, Sound, NEW t \in Thread, thr[t].pc # "idle" PROVE Live(t)
  BY DEF FileType, Sound, OwnersRight, HeldLive, Holds, Live, Pc

\* The types of the rows, one field at a time.
LEMMA Rows ==
    ASSUME FileType
    PROVE  /\ Len(objs) \in Nat
           /\ DOMAIN objs = 1..Len(objs)
           /\ \A t \in Thread : /\ thr[t].pc \in Pc
                                /\ thr[t].h \in Handle
                                /\ thr[t].obj \in 0..Len(objs)
           /\ \A h \in Handle : /\ owner[h].thread \in Thread \cup {NoThread}
                                /\ owner[h].obj \in 0..Len(objs)
                                /\ g_hook[h] \in 0..Len(objs)
  BY DEF FileType

\* An object in the hands of a thread is not in the map, unless that thread is about
\* to take it out.
LEMMA HeldNotMapped ==
    ASSUME FileType, Sound, NEW t \in Thread, Holds(t),
           NEW h \in Handle, g_hook[h] = thr[t].obj
    PROVE  thr[t].pc = "remove" /\ thr[t].h = h
  <1>1. CASE owner[h].thread = NoThread
    <2>1. PICK s \in Thread : thr[s].pc = "remove" /\ thr[s].h = h
      BY <1>1 DEF Sound, EntriesRight, Closing, Holds
    <2>2. thr[s].obj = thr[t].obj /\ Holds(s)
      BY <2>1 DEF Sound, RemovalsRight, Holds
    <2> QED
      BY <2>1, <2>2 DEF Sound, ObjectsApart
  <1>2. CASE owner[h].thread # NoThread
    <2>1. /\ g_hook[h] = owner[h].obj
          /\ ~ (thr[owner[h].thread].pc = "insert" /\ thr[owner[h].thread].h = h)
      BY <1>2 DEF Sound, EntriesRight, Holds
    <2>2. thr[t].pc = "insert"
      BY <2>1 DEF Sound, ObjectsApart
    <2>3. owner[thr[t].h].obj = thr[t].obj /\ owner[thr[t].h].thread = t
      BY <2>2 DEF Sound, OwnersRight
    <2>4. thr[t].h = h
      BY <2>1, <2>3, Rows DEF Sound, ObjectsApart, Holds
    <2> QED
      BY <2>1, <2>2, <2>3, <2>4
  <1> QED
    BY <1>1, <1>2

\* A thread that neither had an object to itself nor comes to have one changes
\* nothing for the others.
LEMMA LookKeeps ==
    ASSUME FileType, Sound, NEW t \in Thread,
           UNCHANGED <<objs, g_hook, open, owner, failed>>,
           \A s \in Thread : s # t => thr'[s] = thr[s],
           ~Holds(t), ~Holds(t)',
           thr[t].pc \notin {"insert", "remove"},
           thr'[t].pc \notin {"insert", "remove"},
           thr'[t].pc \in {"use", "close"} =>
               owner[thr'[t].h].thread = t /\ owner[thr'[t].h].obj = thr'[t].obj
    PROVE  Sound'
  <1>1. \A s \in Thread : s # t => (Holds(s)' <=> Holds(s))
    BY DEF Holds
  <1>2. OwnersRight' /\ RemovalsRight'
    BY DEF Sound, OwnersRight, RemovalsRight
  <1>3. EntriesRight'
    <2>1. \A h \in Handle : Closing(h) => Closing(h)'
      BY DEF Closing
    <2> QED
      BY <2>1, Rows DEF Sound, EntriesRight
  <1>4. ObjectsApart'
    BY <1>1 DEF Sound, ObjectsApart
  <1>5. HeldLive'
    BY <1>1 DEF Sound, HeldLive
  <1>6. LiveHeld'
    BY <1>1 DEF Sound, LiveHeld
  <1> QED
    BY <1>2, <1>3, <1>4, <1>5, <1>6 DEF Sound

\* check_and_create_handle: a new object, which nobody else can have met.
LEMMA CreateKeeps ==
    ASSUME FileInv, RegInv, NEW t \in Thread, NEW path \in Path, NEW next \in {"open", "path"},
           check_and_create_handle(t, path, next)
    PROVE  FileInv'
  <1> USE BoundAssumption
  <1> DEFINE n == Len(objs)
  <1>0. /\ objs \in Seq(Obj) /\ n \in Nat /\ DOMAIN objs = 1..n
        /\ UNCHANGED <<g_hook, open, owner, failed, reused, fakeInLibc, crashed>>
        /\ thr[t].pc = "idle" /\ thr[t].obj = 0 /\ thr \in [Thread -> [pc: Pc, path: Path, h: Handle, obj: 0..n]]
    BY DEF FileInv, FileType, IdleRight, check_and_create_handle, HistoryUnchanged
  <1>1. CASE /\ Hits(path) # {}
             /\ n < MaxOpens
             /\ objs' = Append(objs, [kind |-> Kind[hook_file_list[FirstHit(path)]], live |-> TRUE])
             /\ thr' = [thr EXCEPT ![t].pc = next, ![t].path = path, ![t].obj = n + 1]
    <2>1. [kind |-> Kind[hook_file_list[FirstHit(path)]], live |-> TRUE] \in Obj
      BY <1>1, FirstHitIsHit, PatternAssumption DEF Obj
    <2>2. /\ objs' \in Seq(Obj) /\ Len(objs') = n + 1 /\ DOMAIN objs' = 1..(n + 1)
          /\ \A i \in 1..n : objs'[i] = objs[i]
          /\ objs'[n + 1].live
      BY <1>0, <1>1, <2>1
    <2>3. /\ \A s \in Thread : s # t => thr'[s] = thr[s]
          /\ thr'[t].pc = next /\ thr'[t].obj = n + 1
          /\ thr' \in [Thread -> [pc: Pc, path: Path, h: Handle, obj: 0..(n + 1)]]
      BY <1>0, <1>1 DEF Pc
    <2>4. FileType'
      BY <1>0, <1>1, <2>2, <2>3 DEF FileInv, FileType
    <2>5. IdleRight' /\ CrashOnlyAfterReuseOrFake'
      BY <1>0, <2>3 DEF FileInv, IdleRight, CrashOnlyAfterReuseOrFake
    <2>6. ASSUME Sound PROVE Sound'
      <3>0. /\ \A s \in Thread : s # t => (Holds(s)' <=> Holds(s))
            /\ Holds(t)' /\ ~Holds(t)
        BY <1>0, <2>3 DEF Holds
      <3>r. /\ \A s \in Thread : thr[s].obj \in 0..n /\ thr[s].obj # n + 1
            /\ \A h \in Handle : owner[h].obj \in 0..n /\ owner[h].obj # n + 1
        BY Rows DEF FileInv
      <3>1. OwnersRight'
        BY <1>0, <2>3, <2>6 DEF Sound, OwnersRight
      <3>3. RemovalsRight'
        <4>1. \A s \in Thread : thr'[s].pc = "remove" => thr'[s] = thr[s]
          BY <1>0, <2>3
        <4> QED
          BY <1>0, <2>6, <4>1 DEF Sound, RemovalsRight
      <3>2. EntriesRight'
        <4>1. \A h \in Handle : Closing(h) => Closing(h)'
          BY <1>0, <2>3 DEF Closing
        <4> QED
          BY <1>0, <2>3, <2>6, <4>1, Rows DEF FileInv, Sound, EntriesRight
      <3>4. ObjectsApart'
        <4>1. ASSUME NEW r \in Thread, NEW s \in Thread, r # s, Holds(r)', Holds(s)'
              PROVE  thr'[r].obj # thr'[s].obj
          <5>1. CASE r # t /\ s # t
            BY <2>3, <2>6, <3>0, <4>1, <5>1 DEF Sound, ObjectsApart
          <5>2. CASE r = t \/ s = t
            BY <2>3, <3>r, <4>1, <5>2
          <5> QED
            BY <5>1, <5>2
        <4>2. ASSUME NEW s \in Thread, Holds(s)', thr'[s].pc # "insert", NEW h \in Handle
              PROVE  owner'[h].obj # thr'[s].obj
          BY <1>0, <2>3, <2>6, <3>0, <3>r, <4>2 DEF Sound, ObjectsApart
        <4> QED
          BY <1>0, <2>6, <4>1, <4>2 DEF Sound, ObjectsApart
      <3>5. HeldLive'
        BY <1>0, <2>2, <2>3, <2>6, <3>0, <3>r DEF Sound, HeldLive, Holds
      <3>6. LiveHeld'
        <4>1. \A i \in 1..n : (\E s \in Thread : Holds(s) /\ thr[s].obj = i)
                    => (\E s \in Thread : Holds(s)' /\ thr'[s].obj = i)
          BY <1>0, <2>3, <3>0
        <4>2. Holds(t)' /\ thr'[t].obj = n + 1
          BY <2>3, <3>0
        <4> QED
          BY <1>0, <2>2, <2>6, <4>1, <4>2 DEF Sound, LiveHeld
      <3> QED
        BY <3>1, <3>2, <3>3, <3>4, <3>5, <3>6 DEF Sound
    <2> QED
      BY <1>0, <2>4, <2>5, <2>6 DEF FileInv
  <1>2. CASE /\ thr' = [thr EXCEPT ![t].pc = next, ![t].path = path, ![t].obj = 0]
             /\ UNCHANGED objs
    <2>3. /\ \A s \in Thread : s # t => thr'[s] = thr[s]
          /\ thr'[t].pc = next /\ thr'[t].obj = 0
      BY <1>0, <1>2
    <2>t. thr' \in [Thread -> [pc: Pc, path: Path, h: Handle, obj: 0..n]]
      <3>1. 0 \in 0..n /\ next \in Pc
        BY <1>0 DEF Pc
      <3> HIDE DEF n
      <3> QED
        BY <1>0, <1>2, <3>1
    <2>4. FileType' /\ IdleRight' /\ CrashOnlyAfterReuseOrFake'
      BY <1>0, <1>2, <2>3, <2>t DEF FileInv, FileType, IdleRight, CrashOnlyAfterReuseOrFake
    <2>6. ASSUME Sound PROVE Sound'
      BY <1>0, <1>2, <2>3, <2>6, LookKeeps DEF FileInv, Holds
    <2> QED
      BY <1>0, <2>4, <2>6 DEF FileInv
  <1> QED
    BY <1>1, <1>2 DEF check_and_create_handle

\* A hook that is done.
LEMMA DoneRow ==
    ASSUME FileType, NEW t \in Thread, thr' = [thr EXCEPT ![t] = Idle]
    PROVE  /\ thr' \in [Thread -> [pc: Pc, path: Path, h: Handle, obj: 0..Len(objs)]]
           /\ \A s \in Thread : s # t => thr'[s] = thr[s]
           /\ thr'[t].pc = "idle" /\ thr'[t].obj = 0
  <1>1. Idle.pc = "idle" /\ Idle.obj = 0
    BY DEF Idle
  <1> QED
    BY <1>1, IdleType DEF FileType

\* A thread that gives up an object which is not in the map.
LEMMA GiveUpKeeps ==
    ASSUME FileType, Sound, NEW t \in Thread,
           UNCHANGED <<g_hook, open, owner>>,
           \A s \in Thread : s # t => thr'[s] = thr[s],
           thr[t].pc \in {"open", "path", "delete"}, thr'[t].pc = "idle"
    PROVE  /\ OwnersRight' /\ EntriesRight' /\ RemovalsRight' /\ ObjectsApart'
           /\ \A s \in Thread : Holds(s)' => s # t /\ Holds(s)
           /\ \A s \in Thread : s # t /\ Holds(s) => Holds(s)'
  <1>1. /\ \A s \in Thread : Holds(s)' => s # t /\ Holds(s)
        /\ \A s \in Thread : s # t /\ Holds(s) => Holds(s)'
    BY DEF Holds
  <1>2. OwnersRight' /\ RemovalsRight'
    BY DEF Sound, OwnersRight, RemovalsRight
  <1>3. EntriesRight'
    <2>1. \A h \in Handle : Closing(h) => Closing(h)'
      BY DEF Closing
    <2> QED
      BY <2>1, Rows DEF Sound, EntriesRight
  <1>4. ObjectsApart'
    BY <1>1 DEF Sound, ObjectsApart
  <1> QED
    BY <1>1, <1>2, <1>3, <1>4

\* hook_close and hook_stat delete an object that nobody else can reach.
LEMMA DeleteKeeps ==
    ASSUME FileInv, NEW t \in Thread, thr[t].pc \in {"path", "delete"}, thr[t].obj # 0,
           objs' = [objs EXCEPT ![thr[t].obj].live = FALSE],
           thr' = [thr EXCEPT ![t] = Idle],
           UNCHANGED <<g_hook, open, owner, failed, reused, fakeInLibc, crashed>>
    PROVE  FileInv'
  <1> DEFINE i == thr[t].obj
  <1>0. FileType
    BY DEF FileInv
  <1>1. /\ objs \in Seq(Obj) /\ Len(objs) \in Nat /\ DOMAIN objs = 1..Len(objs)
        /\ i \in 1..Len(objs)
    BY <1>0, Rows DEF FileType
  <1>2. /\ objs' \in Seq(Obj) /\ Len(objs') = Len(objs) /\ DOMAIN objs' = 1..Len(objs)
        /\ ~objs'[i].live
        /\ \A j \in 1..Len(objs) : j # i => objs'[j] = objs[j]
    <2>0. \A o \in Obj : [o EXCEPT !.live = FALSE] \in Obj /\ [o EXCEPT !.live = FALSE].live = FALSE
      BY DEF Obj
    <2>1. [objs[i] EXCEPT !.live = FALSE] \in Obj /\ [objs[i] EXCEPT !.live = FALSE].live = FALSE
      BY <1>1, <2>0
    <2>2. objs' = [objs EXCEPT ![i] = [objs[i] EXCEPT !.live = FALSE]]
      OBVIOUS
    <2> QED
      BY <1>1, <2>1, <2>2
  <1>3. FileType' /\ IdleRight' /\ CrashOnlyAfterReuseOrFake'
    BY <1>0, <1>2, DoneRow DEF FileInv, FileType, IdleRight, CrashOnlyAfterReuseOrFake
  <1>4. ASSUME Sound PROVE Sound'
    <2>0. Holds(t)
      BY DEF Holds
    <2>1. /\ OwnersRight' /\ EntriesRight' /\ RemovalsRight' /\ ObjectsApart'
          /\ \A s \in Thread : Holds(s)' => s # t /\ Holds(s)
          /\ \A s \in Thread : s # t /\ Holds(s) => Holds(s)'
      BY <1>0, <1>4, DoneRow, GiveUpKeeps
    <2>2. HeldLive'
      <3>1. ASSUME NEW s \in Thread, Holds(s)' PROVE objs'[thr'[s].obj].live
        <4>1. s # t /\ Holds(s) /\ thr'[s] = thr[s]
          BY <1>0, <2>1, <3>1, DoneRow
        <4>2. thr[s].obj # i /\ objs[thr[s].obj].live /\ thr[s].obj \in 1..Len(objs)
          BY <1>0, <1>1, <1>4, <2>0, <4>1, Rows DEF Sound, ObjectsApart, HeldLive, Holds
        <4> QED
          BY <1>2, <4>1, <4>2
      <3>2. ASSUME NEW h \in Handle, owner[h].obj # 0 PROVE objs'[owner[h].obj].live
        <4>1. owner[h].obj # i /\ objs[owner[h].obj].live /\ owner[h].obj \in 1..Len(objs)
          BY <1>0, <1>1, <1>4, <2>0, <3>2, Rows DEF Sound, ObjectsApart, HeldLive
        <4> QED
          BY <1>2, <4>1
      <3> QED
        BY <3>1, <3>2 DEF HeldLive
    <2>3. LiveHeld'
      <3> SUFFICES ASSUME NEW j \in 1..Len(objs), objs'[j].live
                   PROVE  \/ j \in failed
                          \/ \E h \in Handle : g_hook[h] = j
                          \/ \E s \in Thread : Holds(s)' /\ thr'[s].obj = j
        BY <1>2 DEF LiveHeld
      <3>1. j # i /\ objs[j].live
        BY <1>2
      <3>2. ASSUME NEW s \in Thread, Holds(s), thr[s].obj = j
            PROVE  Holds(s)' /\ thr'[s].obj = j
        BY <1>0, <2>1, <3>1, <3>2, DoneRow
      <3> QED
        BY <1>1, <1>4, <3>1, <3>2 DEF Sound, LiveHeld
    <2> QED
      BY <2>1, <2>2, <2>3 DEF Sound
  <1> QED
    BY <1>3, <1>4 DEF FileInv

\* hook_stat and the others that take a path.
LEMMA StatKeeps ==
    ASSUME FileInv, NEW t \in Thread, stat_done(t) PROVE FileInv'
  <1>1. CASE thr[t].obj # 0
    BY <1>1, DeleteKeeps DEF stat_done
  <1>2. CASE thr[t].obj = 0
    <2>0. FileType
      BY DEF FileInv
    <2>1. /\ thr[t].pc = "path" /\ thr' = [thr EXCEPT ![t] = Idle]
          /\ UNCHANGED <<objs, g_hook, open, owner, failed, reused, fakeInLibc, crashed>>
      BY <1>2 DEF stat_done
    <2>2. FileType' /\ IdleRight' /\ CrashOnlyAfterReuseOrFake'
      BY <2>0, <2>1, DoneRow DEF FileInv, FileType, IdleRight, CrashOnlyAfterReuseOrFake
    <2>3. ASSUME Sound PROVE Sound'
      BY <1>2, <2>0, <2>1, <2>3, DoneRow, LookKeeps DEF Holds
    <2> QED
      BY <2>1, <2>2, <2>3 DEF FileInv
  <1> QED
    BY <1>1, <1>2

\* A failed open leaves its object behind, and failed says so.
LEMMA FailKeeps ==
    ASSUME FileInv, NEW t \in Thread, open_fails(t) PROVE FileInv'
  <1>0. FileType
    BY DEF FileInv
  <1>1. /\ thr[t].pc = "open" /\ thr' = [thr EXCEPT ![t] = Idle]
        /\ failed' = failed \cup ({thr[t].obj} \ {0})
        /\ UNCHANGED <<objs, g_hook, open, owner, reused, fakeInLibc, crashed>>
    BY DEF open_fails
  <1>2. failed' \in SUBSET (1..Len(objs))
    <2>1. thr[t].obj \in 0..Len(objs) /\ Len(objs) \in Nat
      BY <1>0, Rows
    <2>2. ({thr[t].obj} \ {0}) \subseteq 1..Len(objs)
      BY <2>1
    <2> QED
      BY <1>0, <1>1, <2>2 DEF FileType
  <1>3. FileType' /\ IdleRight' /\ CrashOnlyAfterReuseOrFake'
    BY <1>0, <1>1, <1>2, DoneRow DEF FileInv, FileType, IdleRight, CrashOnlyAfterReuseOrFake
  <1>4. ASSUME Sound PROVE Sound'
    <2>1. /\ OwnersRight' /\ EntriesRight' /\ RemovalsRight' /\ ObjectsApart'
          /\ \A s \in Thread : Holds(s)' => s # t /\ Holds(s)
          /\ \A s \in Thread : s # t /\ Holds(s) => Holds(s)'
      BY <1>0, <1>1, <1>4, DoneRow, GiveUpKeeps
    <2>2. HeldLive'
      BY <1>0, <1>1, <1>4, <2>1, DoneRow DEF Sound, HeldLive
    <2>3. ASSUME NEW s \in Thread, Holds(s)
          PROVE  thr[s].obj \in failed' \/ (Holds(s)' /\ thr'[s].obj = thr[s].obj)
      BY <1>0, <1>1, <2>1, <2>3, DoneRow DEF Holds
    <2>4. LiveHeld'
      BY <1>1, <1>4, <2>3 DEF Sound, LiveHeld
    <2> QED
      BY <2>1, <2>2, <2>4 DEF Sound
  <1> QED
    BY <1>1, <1>3, <1>4 DEF FileInv

\* A process that crashes leaves everything as it was.
LEMMA CrashKeeps ==
    ASSUME FileInv, crashed' = TRUE, fakeInLibc' \in BOOLEAN,
           fakeInLibc' \/ reused,
           UNCHANGED <<objs, g_hook, open, owner, thr, failed, reused>>
    PROVE  FileInv'
  <1>1. Sound => Sound'
    BY DEF Sound, OwnersRight, EntriesRight, Closing, RemovalsRight, ObjectsApart, HeldLive,
           LiveHeld, Holds
  <1> QED
    BY <1>1 DEF FileInv, FileType, IdleRight, CrashOnlyAfterReuseOrFake

\* get_hook_handle finds the object that the handle was opened with.
LEMMA LookUpKeeps ==
    ASSUME FileInv, NEW t \in Thread, NEW h \in Handle, NEW next \in {"use", "close"},
           get_hook_handle(t, h, next)
    PROVE  FileInv'
  <1>0. FileType
    BY DEF FileInv
  <1>1. /\ thr[t].pc = "idle" /\ owner[h].thread = t
        /\ thr' = [thr EXCEPT ![t].pc = next, ![t].h = h, ![t].obj = g_hook[h]]
        /\ UNCHANGED <<objs, g_hook, open, owner, failed, reused, fakeInLibc, crashed>>
    BY DEF get_hook_handle, HistoryUnchanged
  <1>2. /\ \A s \in Thread : s # t => thr'[s] = thr[s]
        /\ thr'[t].pc = next /\ thr'[t].h = h /\ thr'[t].obj = g_hook[h]
    BY <1>0, <1>1 DEF FileType
  <1>3. thr' \in [Thread -> [pc: Pc, path: Path, h: Handle, obj: 0..Len(objs)]]
    <2> DEFINE Objects == 0..Len(objs)
    <2>1. /\ g_hook[h] \in Objects /\ next \in Pc
          /\ thr \in [Thread -> [pc: Pc, path: Path, h: Handle, obj: Objects]]
      BY <1>0, Rows DEF Pc, FileType
    <2> HIDE DEF Objects
    <2>2. thr' \in [Thread -> [pc: Pc, path: Path, h: Handle, obj: Objects]]
      BY <1>1, <2>1
    <2> QED
      BY <2>2 DEF Objects
  <1>4. FileType' /\ IdleRight' /\ CrashOnlyAfterReuseOrFake'
    BY <1>0, <1>1, <1>2, <1>3 DEF FileInv, FileType, IdleRight, CrashOnlyAfterReuseOrFake
  <1>5. ASSUME Sound PROVE Sound'
    <2>1. owner[h].obj = g_hook[h]
      BY <1>1, <1>5, PatternAssumption DEF Sound, EntriesRight
    <2> QED
      BY <1>0, <1>1, <1>2, <1>5, <2>1, LookKeeps DEF Holds
  <1> QED
    BY <1>1, <1>4, <1>5 DEF FileInv

\* The filter answers, or the real function does.
LEMMA ReadKeeps ==
    ASSUME FileInv, NEW t \in Thread, read_done(t) PROVE FileInv'
  <1>0. FileType
    BY DEF FileInv
  <1>1. CASE /\ thr' = [thr EXCEPT ![t] = Idle]
             /\ \/ UNCHANGED <<fakeInLibc, crashed>>
                \/ fakeInLibc' = TRUE /\ crashed' \in BOOLEAN
    <2>1. thr[t].pc = "use" /\ UNCHANGED <<objs, g_hook, open, owner, failed, reused>>
      BY DEF read_done
    <2>2. fakeInLibc' \in BOOLEAN /\ crashed' \in BOOLEAN
      BY <1>0, <1>1, Zenon DEF FileType
    <2>3. FileType' /\ IdleRight'
      BY <1>0, <1>1, <2>1, <2>2, DoneRow DEF FileInv, FileType, IdleRight
    <2>4. CrashOnlyAfterReuseOrFake'
      BY <1>1, <2>1, Zenon DEF FileInv, CrashOnlyAfterReuseOrFake
    <2>5. ASSUME Sound PROVE Sound'
      BY <1>0, <1>1, <2>1, <2>5, DoneRow, LookKeeps DEF Holds
    <2> QED
      BY <2>1, <2>3, <2>4, <2>5 DEF FileInv
  <1>2. CASE ~Live(t) /\ crashed' = TRUE /\ UNCHANGED <<thr, fakeInLibc>>
    <2>1. reused
      BY <1>0, <1>2, UsedAreLive DEF FileInv, read_done
    <2> QED
      BY <1>0, <1>2, <2>1, CrashKeeps DEF read_done, FileType
  <1> QED
    BY <1>1, <1>2 DEF read_done

\* An open that gives handle h, which nobody has: t goes on to enter it in the map if
\* there is an object.
LEMMA OpenKeeps ==
    ASSUME FileType, Sound, NEW t \in Thread, NEW h \in Handle,
           thr[t].pc = "open", owner[h].thread = NoThread, ~Closing(h),
           \A i \in 1..MaxOpens : h = <<"filter", i>> => thr[t].obj = i,
           open' = open \cup ({h} \cap RealHandle),
           owner' = [owner EXCEPT ![h] = [thread |-> t, obj |-> thr[t].obj]],
           \A s \in Thread : s # t => thr'[s] = thr[s],
           thr'[t].h = h, thr'[t].obj = thr[t].obj,
           thr'[t].pc = IF thr[t].obj = 0 THEN "idle" ELSE "insert",
           UNCHANGED <<objs, g_hook, failed>>
    PROVE  Sound'
  <1> DEFINE i == thr[t].obj
  <1>0. /\ owner'[h].thread = t /\ owner'[h].obj = i
        /\ \A k \in Handle : k # h => owner'[k] = owner[k]
        /\ t # NoThread
    BY PatternAssumption DEF FileType
  <1>1. /\ \A s \in Thread : Holds(s)' <=> Holds(s)
        /\ \A s \in Thread : thr'[s].obj = thr[s].obj
    BY DEF Holds
  <1>2. \A k \in Handle : owner[k].obj # 0 => owner[k].obj # i
    BY DEF Sound, ObjectsApart, Holds
  <1>3. OwnersRight'
    <2>1. \A k \in Handle : owner'[k].thread = NoThread => owner'[k].obj = 0
      BY <1>0 DEF Sound, OwnersRight
    <2>2. \A k \in RealHandle : k \in open' <=> owner'[k].thread # NoThread
      BY <1>0 DEF Sound, OwnersRight, Handle
    <2>3. \A j \in 1..MaxOpens :
             owner'[<<"filter", j>>].thread # NoThread => owner'[<<"filter", j>>].obj = j
      <3> SUFFICES ASSUME NEW j \in 1..MaxOpens, owner'[<<"filter", j>>].thread # NoThread
                   PROVE  owner'[<<"filter", j>>].obj = j
        OBVIOUS
      <3>1. <<"filter", j>> \in Handle
        BY DEF Handle, FakeHandle
      <3> QED
        BY <1>0, <3>1 DEF Sound, OwnersRight
    <2>4. ASSUME NEW s \in Thread, thr'[s].pc \in {"insert", "use", "close"}
          PROVE  owner'[thr'[s].h].thread = s /\ owner'[thr'[s].h].obj = thr'[s].obj
      <3>1. CASE s = t
        BY <1>0, <3>1
      <3>2. CASE s # t
        <4>1. /\ thr[s].pc \in {"insert", "use", "close"} /\ thr'[s] = thr[s]
              /\ owner[thr[s].h].thread = s /\ owner[thr[s].h].obj = thr[s].obj
              /\ thr[s].h \in Handle
          BY <2>4, <3>2, Rows DEF Sound, OwnersRight
        <4>2. thr[s].h # h
          BY <4>1, PatternAssumption
        <4> QED
          BY <1>0, <4>1, <4>2
      <3> QED
        BY <3>1, <3>2
    <2> QED
      BY <2>1, <2>2, <2>3, <2>4 DEF OwnersRight
  <1>4. EntriesRight'
    <2>1. \A k \in Handle : Closing(k)' <=> Closing(k)
      BY DEF Closing
    <2>2. g_hook[h] = 0
      BY DEF Sound, EntriesRight
    <2>3. ASSUME NEW k \in Handle, k # h, owner'[k].thread # NoThread
          PROVE  g_hook[k] = IF /\ thr'[owner'[k].thread].pc = "insert"
                                /\ thr'[owner'[k].thread].h = k
                             THEN 0
                             ELSE owner'[k].obj
      <3>1. owner'[k] = owner[k] /\ owner[k].thread \in Thread
        BY <1>0, <2>3, Rows
      <3>2. (thr'[owner[k].thread].pc = "insert" /\ thr'[owner[k].thread].h = k)
              <=> (thr[owner[k].thread].pc = "insert" /\ thr[owner[k].thread].h = k)
        BY <2>3, <3>1
      <3> QED
        BY <2>3, <3>1, <3>2 DEF Sound, EntriesRight
    <2>4. g_hook[h] = IF /\ thr'[owner'[h].thread].pc = "insert"
                         /\ thr'[owner'[h].thread].h = h
                      THEN 0
                      ELSE owner'[h].obj
      BY <1>0, <2>2
    <2> QED
      BY <1>0, <2>1, <2>2, <2>3, <2>4 DEF Sound, EntriesRight
  <1>5. RemovalsRight'
    <2>1. \A s \in Thread : thr'[s].pc = "remove" =>
             thr'[s] = thr[s] /\ thr[s].h # h /\ thr[s].h \in Handle
      BY Rows DEF Closing
    <2> QED
      BY <1>0, <2>1 DEF Sound, RemovalsRight
  <1>6. ObjectsApart'
    <2>1. ASSUME NEW s \in Thread, Holds(s)', thr'[s].pc # "insert", NEW k \in Handle
          PROVE  owner'[k].obj # thr'[s].obj
      <3>1. s # t /\ Holds(s) /\ thr'[s] = thr[s]
        BY <1>1, <2>1 DEF Holds
      <3>2. owner[k].obj # thr[s].obj
        BY <2>1, <3>1 DEF Sound, ObjectsApart
      <3>3. thr[s].obj # i
        BY <3>1 DEF Sound, ObjectsApart, Holds
      <3> QED
        BY <1>0, <3>1, <3>2, <3>3
    <2>2. \A j, k \in Handle : j # k /\ owner'[j].obj # 0 => owner'[j].obj # owner'[k].obj
      BY <1>0, <1>2 DEF Sound, ObjectsApart
    <2> QED
      BY <1>1, <2>1, <2>2 DEF Sound, ObjectsApart
  <1>7. HeldLive'
    BY <1>0, <1>1 DEF Sound, HeldLive, Holds
  <1>8. LiveHeld'
    BY <1>1 DEF Sound, LiveHeld
  <1> QED
    BY <1>3, <1>4, <1>5, <1>6, <1>7, <1>8 DEF Sound

\* The real open: the system gives a handle that is not open.
LEMMA RealOpenKeeps ==
    ASSUME FileInv, NEW t \in Thread, real_open(t) PROVE FileInv'
  <1>0. FileType
    BY DEF FileInv
  <1>1. PICK h \in RealHandle \ open :
          /\ open' = open \cup {h}
          /\ owner' = [owner EXCEPT ![h] = [thread |-> t, obj |-> thr[t].obj]]
          /\ reused' = (reused \/ Closing(h))
          /\ thr' = [thr EXCEPT ![t].h = h,
                                ![t].pc = IF thr[t].obj = 0 THEN "idle" ELSE "insert"]
    BY DEF real_open
  <1>2. thr[t].pc = "open" /\ UNCHANGED <<objs, g_hook, failed, fakeInLibc, crashed>>
    BY DEF real_open
  <1>3. /\ \A s \in Thread : s # t => thr'[s] = thr[s]
        /\ thr'[t].h = h /\ thr'[t].obj = thr[t].obj
        /\ thr'[t].pc = IF thr[t].obj = 0 THEN "idle" ELSE "insert"
    BY <1>0, <1>1 DEF FileType
  <1>4. FileType'
    <2> DEFINE Objects == 0..Len(objs)
               pc == IF thr[t].obj = 0 THEN "idle" ELSE "insert"
    <2>1. /\ h \in Handle /\ thr[t].obj \in Objects
          /\ pc \in Pc
          /\ thr' = [thr EXCEPT ![t].h = h, ![t].pc = pc]
          /\ thr \in [Thread -> [pc: Pc, path: Path, h: Handle, obj: Objects]]
          /\ owner \in [Handle -> [thread: Thread \cup {NoThread}, obj: Objects]]
      BY <1>0, <1>1, Rows DEF Pc, FileType, Handle
    <2> HIDE DEF Objects, pc
    <2>2. thr' \in [Thread -> [pc: Pc, path: Path, h: Handle, obj: Objects]]
      BY <2>1
    <2>3. owner' \in [Handle -> [thread: Thread \cup {NoThread}, obj: Objects]]
      BY <1>1, <2>1
    <2>4. reused' \in BOOLEAN
      BY <1>0, <1>1, Zenon DEF FileType, Closing
    <2> QED
      BY <1>0, <1>1, <1>2, <2>2, <2>3, <2>4 DEF FileType, Objects
  <1>5. IdleRight'
    BY <1>2, <1>3 DEF FileInv, IdleRight
  <1>6. CrashOnlyAfterReuseOrFake'
    BY <1>1, <1>2 DEF FileInv, CrashOnlyAfterReuseOrFake
  <1>7. ASSUME ~reused' PROVE Sound'
    <2>1. Sound /\ ~Closing(h) /\ h \in Handle
      BY <1>1, <1>7 DEF FileInv, Handle
    <2>2. owner[h].thread = NoThread
      BY <1>1, <2>1 DEF Sound, OwnersRight
    <2>3. \A i \in 1..MaxOpens : h # <<"filter", i>>
      BY <1>1, HandleAssumption DEF FakeHandle
    <2>4. open' = open \cup ({h} \cap RealHandle)
      BY <1>1
    <2> QED
      BY <1>0, <1>1, <1>2, <1>3, <2>1, <2>2, <2>3, <2>4, OpenKeeps
  <1> QED
    BY <1>4, <1>5, <1>6, <1>7 DEF FileInv

\* fopen on a memory_file: its address is new, and nobody else gets it.
LEMMA MemoryOpenKeeps ==
    ASSUME FileInv, NEW t \in Thread, memory_open(t) PROVE FileInv'
  <1> DEFINE i == thr[t].obj
             h == <<"filter", i>>
  <1>0. FileType
    BY DEF FileInv
  <1>1. /\ thr[t].pc = "open" /\ i # 0
        /\ owner' = [owner EXCEPT ![h] = [thread |-> t, obj |-> i]]
        /\ thr' = [thr EXCEPT ![t].pc = "insert", ![t].h = h]
        /\ UNCHANGED <<objs, g_hook, open, failed, reused, fakeInLibc, crashed>>
    BY DEF memory_open, HistoryUnchanged
  <1>2. i \in 1..MaxOpens /\ h \in Handle /\ h \notin RealHandle
    <2>1. i \in 1..MaxOpens
      BY <1>0, <1>1, Rows, BoundAssumption DEF FileType
    <2>2. h \in FakeHandle
      BY <2>1 DEF FakeHandle
    <2> QED
      BY <2>1, <2>2, HandleAssumption DEF Handle
  <1> HIDE DEF h
  <1>3. /\ \A s \in Thread : s # t => thr'[s] = thr[s]
        /\ thr'[t].h = h /\ thr'[t].obj = thr[t].obj /\ thr'[t].pc = "insert"
    BY <1>0, <1>1 DEF FileType
  <1>4. FileType'
    <2> DEFINE Objects == 0..Len(objs)
    <2>1. /\ i \in Objects /\ "insert" \in Pc
          /\ thr \in [Thread -> [pc: Pc, path: Path, h: Handle, obj: Objects]]
          /\ owner \in [Handle -> [thread: Thread \cup {NoThread}, obj: Objects]]
      BY <1>0, Rows DEF Pc, FileType
    <2> HIDE DEF Objects
    <2>2. thr' \in [Thread -> [pc: Pc, path: Path, h: Handle, obj: Objects]]
      BY <1>1, <1>2, <2>1
    <2>3. owner' \in [Handle -> [thread: Thread \cup {NoThread}, obj: Objects]]
      BY <1>1, <2>1
    <2> QED
      BY <1>0, <1>1, <2>2, <2>3 DEF FileType, Objects
  <1>5. IdleRight' /\ CrashOnlyAfterReuseOrFake'
    BY <1>1, <1>3 DEF FileInv, IdleRight, CrashOnlyAfterReuseOrFake
  <1>6. ASSUME Sound PROVE Sound'
    <2>1. owner[h].thread = NoThread
      <3>1. owner[h].obj # i
        BY <1>1, <1>2, <1>6 DEF Sound, ObjectsApart, Holds
      <3> QED
        BY <1>2, <1>6, <3>1 DEF Sound, OwnersRight, h
    <2>2. ~Closing(h)
      <3> SUFFICES ASSUME NEW s \in Thread, thr[s].pc = "remove", thr[s].h = h
                   PROVE  FALSE
        BY DEF Closing
      <3>1. thr[s].obj = i
        BY <1>2, <1>6 DEF Sound, RemovalsRight, h
      <3> QED
        BY <1>1, <1>6, <3>1 DEF Sound, ObjectsApart, Holds
    <2>3. \A j \in 1..MaxOpens : h = <<"filter", j>> => i = j
      BY DEF h
    <2>4. open' = open \cup ({h} \cap RealHandle)
      BY <1>1, <1>2
    <2> QED
      BY <1>0, <1>1, <1>2, <1>3, <1>6, <2>1, <2>2, <2>3, <2>4, OpenKeeps
  <1> QED
    BY <1>1, <1>4, <1>5, <1>6 DEF FileInv

\* insert_hook_handle: the place of a handle that was just opened is free.
LEMMA InsertKeeps ==
    ASSUME FileInv, NEW t \in Thread, insert_hook_handle(t) PROVE FileInv'
  <1> DEFINE i == thr[t].obj
             h == thr[t].h
  <1>0. FileType
    BY DEF FileInv
  <1>1. /\ thr[t].pc = "insert" /\ thr' = [thr EXCEPT ![t] = Idle]
        /\ g_hook' = [g_hook EXCEPT ![h] = IF g_hook[h] = 0 THEN i ELSE g_hook[h]]
        /\ UNCHANGED <<objs, open, owner, failed, reused, fakeInLibc, crashed>>
    BY <1>0 DEF insert_hook_handle, HistoryUnchanged
  <1>2. /\ h \in Handle /\ i \in 0..Len(objs) /\ g_hook \in [Handle -> 0..Len(objs)]
    BY <1>0, Rows DEF FileType
  <1> HIDE DEF h, i
  <1>3. /\ g_hook' \in [Handle -> 0..Len(objs)]
        /\ \A k \in Handle : k # h => g_hook'[k] = g_hook[k]
        /\ g_hook[h] = 0 => g_hook'[h] = i
    BY <1>1, <1>2
  <1>4. FileType' /\ IdleRight' /\ CrashOnlyAfterReuseOrFake'
    BY <1>0, <1>1, <1>3, DoneRow DEF FileInv, FileType, IdleRight, CrashOnlyAfterReuseOrFake
  <1>5. ASSUME Sound PROVE Sound'
    <2>1. owner[h].thread = t /\ owner[h].obj = i /\ t # NoThread
      BY <1>1, <1>5, PatternAssumption DEF Sound, OwnersRight, h, i
    <2>2. g_hook[h] = 0 /\ g_hook'[h] = i
      BY <1>1, <1>2, <1>3, <1>5, <2>1 DEF Sound, EntriesRight, h
    <2>3. /\ \A s \in Thread : s # t => (Holds(s)' <=> Holds(s)) /\ thr'[s] = thr[s]
          /\ ~Holds(t)' /\ thr'[t].pc = "idle"
      BY <1>0, <1>1, DoneRow DEF Holds
    <2>4. OwnersRight'
      BY <1>1, <1>5, <2>3 DEF Sound, OwnersRight
    <2>5. EntriesRight'
      <3>1. \A k \in Handle : Closing(k) => Closing(k)'
        BY <1>1, <2>3 DEF Closing
      <3>2. ASSUME NEW k \in Handle, k # h, owner[k].thread # NoThread
            PROVE  g_hook'[k] = IF /\ thr'[owner[k].thread].pc = "insert"
                                   /\ thr'[owner[k].thread].h = k
                                THEN 0
                                ELSE owner[k].obj
        <4>1. owner[k].thread \in Thread
          BY <1>0, <3>2, Rows
        <4>2. (thr'[owner[k].thread].pc = "insert" /\ thr'[owner[k].thread].h = k)
                <=> (thr[owner[k].thread].pc = "insert" /\ thr[owner[k].thread].h = k)
          BY <2>3, <3>2, <4>1 DEF h
        <4> QED
          BY <1>3, <1>5, <3>2, <4>2 DEF Sound, EntriesRight
      <3>3. g_hook'[h] = IF /\ thr'[owner[h].thread].pc = "insert"
                            /\ thr'[owner[h].thread].h = h
                         THEN 0
                         ELSE owner[h].obj
        BY <2>1, <2>2, <2>3
      <3> QED
        BY <1>1, <1>3, <1>5, <2>1, <3>1, <3>2, <3>3 DEF Sound, EntriesRight
    <2>6. RemovalsRight'
      <3>1. \A s \in Thread : thr'[s].pc = "remove" =>
               thr'[s] = thr[s] /\ thr[s].h # h /\ thr[s].h \in Handle
        BY <1>0, <1>1, <1>5, <2>1, <2>3, Rows DEF Sound, RemovalsRight
      <3> QED
        BY <1>1, <1>3, <1>5, <3>1 DEF Sound, RemovalsRight
    <2>7. ObjectsApart' /\ HeldLive'
      BY <1>1, <1>5, <2>3 DEF Sound, ObjectsApart, HeldLive
    <2>8. LiveHeld'
      <3>1. \A k \in Handle : g_hook[k] # 0 => g_hook'[k] = g_hook[k]
        BY <1>3, <2>2
      <3>2. \A s \in Thread : Holds(s) => (Holds(s)' /\ thr'[s].obj = thr[s].obj)
                                          \/ g_hook'[h] = thr[s].obj
        BY <2>2, <2>3 DEF i
      <3> QED
        BY <1>0, <1>1, <1>2, <1>5, <3>1, <3>2, Rows DEF Sound, LiveHeld
    <2> QED
      BY <2>4, <2>5, <2>6, <2>7, <2>8 DEF Sound
  <1> QED
    BY <1>1, <1>4, <1>5 DEF FileInv

\* The real close: from here on the handle is free, and its entry is still there.
LEMMA RealCloseKeeps ==
    ASSUME FileInv, NEW t \in Thread, real_close(t) PROVE FileInv'
  <1> DEFINE i == thr[t].obj
             h == thr[t].h
             row == IF i = 0 THEN Idle ELSE [thr[t] EXCEPT !.pc = "remove"]
  <1>0. FileType
    BY DEF FileInv
  <1>1. CASE /\ open' = open \ {h}
             /\ owner' = [owner EXCEPT ![h] = NoOwner]
             /\ fakeInLibc' = (fakeInLibc \/ h \in FakeHandle)
             /\ crashed' \in (IF h \in FakeHandle THEN BOOLEAN ELSE {FALSE})
             /\ thr' = [thr EXCEPT ![t] = row]
    <2>1. thr[t].pc = "close" /\ UNCHANGED <<objs, g_hook, failed, reused>>
      BY DEF real_close
    <2>2. /\ row.pc = (IF i = 0 THEN "idle" ELSE "remove") /\ row.obj = i
          /\ i # 0 => row.h = h
          /\ row \in [pc: Pc, path: Path, h: Handle, obj: 0..Len(objs)]
      <3>1. CASE i = 0
        BY <1>0, <3>1, IdleType DEF Idle
      <3>2. CASE i # 0
        <4>1. thr[t] \in [pc: Pc, path: Path, h: Handle, obj: 0..Len(objs)] /\ "remove" \in Pc
          BY <1>0 DEF FileType, Pc
        <4> QED
          BY <3>2, <4>1
      <3> QED
        BY <3>1, <3>2
    <2> HIDE DEF row
    <2>3. /\ thr' \in [Thread -> [pc: Pc, path: Path, h: Handle, obj: 0..Len(objs)]]
          /\ \A s \in Thread : s # t => thr'[s] = thr[s]
          /\ thr'[t] = row
      BY <1>0, <1>1, <2>2 DEF FileType
    <2>4. /\ h \in Handle /\ owner'[h].thread = NoThread /\ owner'[h].obj = 0
          /\ \A k \in Handle : k # h => owner'[k] = owner[k]
          /\ owner' \in [Handle -> [thread: Thread \cup {NoThread}, obj: 0..Len(objs)]]
      <3>1. /\ NoOwner \in [thread: Thread \cup {NoThread}, obj: 0..Len(objs)]
            /\ NoOwner.thread = NoThread /\ NoOwner.obj = 0
        BY <1>0, Rows DEF NoOwner
      <3>2. h \in Handle /\ owner \in [Handle -> [thread: Thread \cup {NoThread}, obj: 0..Len(objs)]]
        BY <1>0, Rows DEF FileType
      <3> HIDE DEF h
      <3> QED
        BY <1>1, <3>1, <3>2
    <2>5. fakeInLibc' \in BOOLEAN /\ crashed' \in BOOLEAN
      BY <1>0, <1>1, Zenon DEF FileType
    <2>6. FileType'
      BY <1>0, <1>1, <2>1, <2>3, <2>4, <2>5 DEF FileType
    <2>7. IdleRight'
      BY <2>2, <2>3 DEF FileInv, IdleRight
    <2>8. CrashOnlyAfterReuseOrFake'
      BY <1>1, <2>1 DEF FileInv, CrashOnlyAfterReuseOrFake
    <2>9. ASSUME Sound PROVE Sound'
      <3>1. owner[h].thread = t /\ owner[h].obj = i /\ t # NoThread
        BY <2>1, <2>9, PatternAssumption DEF Sound, OwnersRight
      <3>2. g_hook[h] = i
        BY <2>1, <2>4, <2>9, <3>1 DEF Sound, EntriesRight
      <3>3. \A s \in Thread : thr[s].pc = "remove" => thr[s].h # h
        BY <2>9, <3>1 DEF Sound, RemovalsRight
      <3>4. /\ \A s \in Thread : s # t => (Holds(s)' <=> Holds(s)) /\ thr'[s] = thr[s]
            /\ Holds(t)' <=> i # 0
            /\ ~Holds(t)
        BY <2>1, <2>2, <2>3 DEF Holds
      <3> HIDE DEF h, i
      <3>5. OwnersRight'
        <4>1. \A k \in Handle : owner'[k].thread = NoThread => owner'[k].obj = 0
          BY <2>4, <2>9 DEF Sound, OwnersRight
        <4>2. \A k \in RealHandle : k \in open' <=> owner'[k].thread # NoThread
          BY <1>1, <2>4, <2>9 DEF Sound, OwnersRight, Handle
        <4>3. \A j \in 1..MaxOpens :
                 owner'[<<"filter", j>>].thread # NoThread => owner'[<<"filter", j>>].obj = j
          <5> SUFFICES ASSUME NEW j \in 1..MaxOpens, owner'[<<"filter", j>>].thread # NoThread
                       PROVE  owner'[<<"filter", j>>].obj = j
            OBVIOUS
          <5>1. <<"filter", j>> \in Handle
            BY DEF Handle, FakeHandle
          <5> QED
            BY <2>4, <2>9, <5>1 DEF Sound, OwnersRight
        <4>4. ASSUME NEW s \in Thread, thr'[s].pc \in {"insert", "use", "close"}
              PROVE  owner'[thr'[s].h].thread = s /\ owner'[thr'[s].h].obj = thr'[s].obj
          <5>1. s # t /\ thr'[s] = thr[s]
            BY <2>2, <2>3, <4>4
          <5>2. owner[thr[s].h].thread = s /\ owner[thr[s].h].obj = thr[s].obj /\ thr[s].h \in Handle
            BY <1>0, <2>9, <4>4, <5>1, Rows DEF Sound, OwnersRight
          <5>3. thr[s].h # h
            BY <3>1, <5>1, <5>2
          <5> QED
            BY <2>4, <5>1, <5>2, <5>3
        <4> QED
          BY <4>1, <4>2, <4>3, <4>4 DEF OwnersRight
      <3>6. EntriesRight'
        <4>1. \A k \in Handle : Closing(k) => Closing(k)'
          BY <2>1, <2>3 DEF Closing
        <4>2. g_hook[h] # 0 => thr'[t].pc = "remove" /\ thr'[t].h = h
          BY <2>2, <2>3, <3>2 DEF h, i
        <4>3. ASSUME NEW k \in Handle, k # h, owner[k].thread # NoThread
              PROVE  g_hook[k] = IF /\ thr'[owner[k].thread].pc = "insert"
                                    /\ thr'[owner[k].thread].h = k
                                 THEN 0
                                 ELSE owner[k].obj
          <5>1. owner[k].thread \in Thread
            BY <1>0, <4>3, Rows
          <5>2. (thr'[owner[k].thread].pc = "insert" /\ thr'[owner[k].thread].h = k)
                  <=> (thr[owner[k].thread].pc = "insert" /\ thr[owner[k].thread].h = k)
            BY <2>1, <2>2, <2>3, <5>1
          <5> QED
            BY <2>9, <4>3, <5>2 DEF Sound, EntriesRight
        <4>4. ASSUME NEW k \in Handle, owner'[k].thread # NoThread
              PROVE  g_hook'[k] = IF /\ thr'[owner'[k].thread].pc = "insert"
                                     /\ thr'[owner'[k].thread].h = k
                                  THEN 0
                                  ELSE owner'[k].obj
          BY <2>1, <2>4, <4>3, <4>4
        <4>5. ASSUME NEW k \in Handle, owner'[k].thread = NoThread, g_hook'[k] # 0
              PROVE  Closing(k)'
          <5>1. CASE k = h
            BY <2>1, <4>2, <4>5, <5>1 DEF Closing
          <5>2. CASE k # h
            BY <2>1, <2>4, <2>9, <4>1, <4>5, <5>2 DEF Sound, EntriesRight
          <5> QED
            BY <5>1, <5>2
        <4> QED
          BY <4>4, <4>5 DEF EntriesRight
      <3>7. RemovalsRight'
        <4>1. ASSUME NEW s \in Thread, thr'[s].pc = "remove", s # t
              PROVE  /\ thr'[s] = thr[s] /\ thr[s].h # h /\ thr[s].h \in Handle
                     /\ owner'[thr[s].h] = owner[thr[s].h]
          BY <1>0, <2>3, <2>4, <3>3, <4>1, Rows
        <4>2. thr'[t].pc = "remove" => thr'[t].h = h /\ thr'[t].obj = i /\ i # 0
          BY <2>2, <2>3 DEF h, i
        <4>3. \A j \in 1..MaxOpens : h = <<"filter", j>> => i = j
          BY <2>9, <3>1 DEF Sound, OwnersRight
        <4>4. \A s \in Thread : thr'[s].pc = "remove" =>
                /\ thr'[s].obj # 0
                /\ g_hook'[thr'[s].h] = thr'[s].obj
                /\ owner'[thr'[s].h].thread = NoThread
          BY <2>1, <2>4, <2>9, <3>2, <4>1, <4>2 DEF Sound, RemovalsRight
        <4>5. \A r, s \in Thread :
                r # s /\ thr'[r].pc = "remove" /\ thr'[s].pc = "remove" => thr'[r].h # thr'[s].h
          BY <2>9, <4>1, <4>2 DEF Sound, RemovalsRight
        <4>6. \A s \in Thread, j \in 1..MaxOpens :
                thr'[s].pc = "remove" /\ thr'[s].h = <<"filter", j>> => thr'[s].obj = j
          BY <2>9, <4>1, <4>2, <4>3 DEF Sound, RemovalsRight
        <4> QED
          BY <4>4, <4>5, <4>6 DEF RemovalsRight
      <3>8. ObjectsApart'
        <4>1. ASSUME NEW s \in Thread, Holds(s), s # t PROVE thr[s].obj # i
          <5>1. CASE thr[s].pc = "insert"
            <6>1. owner[thr[s].h].thread = s /\ owner[thr[s].h].obj = thr[s].obj /\ thr[s].h \in Handle
              BY <1>0, <2>9, <5>1, Rows DEF Sound, OwnersRight
            <6>2. thr[s].h # h /\ owner[thr[s].h].obj # 0
              BY <3>1, <4>1, <6>1 DEF Holds
            <6> QED
              BY <2>4, <2>9, <3>1, <6>1, <6>2 DEF Sound, ObjectsApart
          <5>2. CASE thr[s].pc # "insert"
            BY <2>4, <2>9, <3>1, <4>1, <5>2 DEF Sound, ObjectsApart
          <5> QED
            BY <5>1, <5>2
        <4>2. thr'[t].obj = i
          BY <2>2, <2>3 DEF i
        <4>3. \A r, s \in Thread : r # s /\ Holds(r)' /\ Holds(s)' => thr'[r].obj # thr'[s].obj
          BY <2>9, <3>4, <4>1, <4>2 DEF Sound, ObjectsApart
        <4>4. ASSUME NEW s \in Thread, Holds(s)', thr'[s].pc # "insert", NEW k \in Handle
              PROVE  owner'[k].obj # thr'[s].obj
          <5>1. thr'[s].obj # 0
            BY <4>4 DEF Holds
          <5>2. CASE s = t
            BY <2>4, <2>9, <3>1, <4>2, <5>1, <5>2 DEF Sound, ObjectsApart
          <5>3. CASE s # t
            BY <2>4, <2>9, <3>4, <4>4, <5>1, <5>3 DEF Sound, ObjectsApart
          <5> QED
            BY <5>2, <5>3
        <4>5. \A j, k \in Handle : j # k /\ owner'[j].obj # 0 => owner'[j].obj # owner'[k].obj
          BY <2>4, <2>9 DEF Sound, ObjectsApart
        <4> QED
          BY <4>3, <4>4, <4>5 DEF ObjectsApart
      <3>9. HeldLive'
        <4>1. ASSUME NEW s \in Thread, Holds(s)' PROVE objs'[thr'[s].obj].live
          <5>1. CASE s = t
            <6>1. thr'[s].obj = owner[h].obj /\ owner[h].obj # 0
              BY <2>2, <2>3, <3>1, <3>4, <4>1, <5>1 DEF i
            <6> QED
              BY <2>1, <2>4, <2>9, <6>1 DEF Sound, HeldLive
          <5>2. CASE s # t
            BY <2>1, <2>9, <3>4, <4>1, <5>2 DEF Sound, HeldLive
          <5> QED
            BY <5>1, <5>2
        <4>2. \A k \in Handle : owner'[k].obj # 0 => objs'[owner'[k].obj].live
          BY <2>1, <2>4, <2>9 DEF Sound, HeldLive
        <4> QED
          BY <4>1, <4>2 DEF HeldLive
      <3>10. LiveHeld'
        <4>1. \A s \in Thread : Holds(s) => Holds(s)' /\ thr'[s].obj = thr[s].obj
          BY <3>4
        <4> QED
          BY <2>1, <2>9, <4>1 DEF Sound, LiveHeld
      <3> QED
        BY <3>5, <3>6, <3>7, <3>8, <3>9, <3>10 DEF Sound
    <2> QED
      BY <2>1, <2>6, <2>7, <2>8, <2>9 DEF FileInv
  <1>2. CASE ~Live(t) /\ crashed' = TRUE /\ UNCHANGED <<open, owner, fakeInLibc, thr>>
    <2>1. reused
      BY <1>0, <1>2, UsedAreLive DEF FileInv, real_close
    <2> QED
      BY <1>0, <1>2, <2>1, CrashKeeps DEF real_close, FileType
  <1> QED
    BY <1>0, <1>1, <1>2 DEF real_close, FileType

\* remove_hook_handle takes out the entry that this thread closed.
LEMMA RemoveKeeps ==
    ASSUME FileInv, NEW t \in Thread, remove_hook_handle(t) PROVE FileInv'
  <1> DEFINE i == thr[t].obj
             h == thr[t].h
  <1>0. FileType
    BY DEF FileInv
  <1>1. CASE /\ g_hook' = [g_hook EXCEPT ![h] = 0]
             /\ thr' = [thr EXCEPT ![t].pc = "delete"]
             /\ UNCHANGED crashed
    <2>1. thr[t].pc = "remove" /\ UNCHANGED <<objs, open, owner, failed, reused, fakeInLibc>>
      BY DEF remove_hook_handle
    <2>2. /\ \A s \in Thread : s # t => thr'[s] = thr[s]
          /\ thr'[t].pc = "delete" /\ thr'[t].obj = i
      BY <1>0, <1>1 DEF FileType
    <2>3. thr' \in [Thread -> [pc: Pc, path: Path, h: Handle, obj: 0..Len(objs)]]
      <3>1. "delete" \in Pc
        BY DEF Pc
      <3> QED
        BY <1>0, <1>1, <3>1 DEF FileType
    <2>4. /\ g_hook' \in [Handle -> 0..Len(objs)]
          /\ h \in Handle /\ g_hook'[h] = 0
          /\ \A k \in Handle : k # h => g_hook'[k] = g_hook[k]
      BY <1>0, <1>1, Rows DEF FileType
    <2>5. FileType'
      BY <1>0, <1>1, <2>1, <2>3, <2>4 DEF FileType
    <2>6. IdleRight' /\ CrashOnlyAfterReuseOrFake'
      BY <1>1, <2>1, <2>2 DEF FileInv, IdleRight, CrashOnlyAfterReuseOrFake
    <2>7. ASSUME Sound PROVE Sound'
      <3>1. i # 0 /\ g_hook[h] = i /\ owner[h].thread = NoThread
        BY <2>1, <2>7 DEF Sound, RemovalsRight
      <3>2. \A s \in Thread : (Holds(s)' <=> Holds(s)) /\ thr'[s].obj = thr[s].obj
        BY <2>1, <2>2 DEF Holds
      <3>3. Holds(t)
        BY <2>1, <3>1 DEF Holds
      <3>4. OwnersRight'
        BY <2>1, <2>2, <2>7 DEF Sound, OwnersRight
      <3>5. EntriesRight'
        <4>1. \A k \in Handle : k # h /\ Closing(k) => Closing(k)'
          BY <2>2 DEF Closing
        <4>2. ASSUME NEW k \in Handle, owner[k].thread # NoThread
              PROVE  g_hook'[k] = IF /\ thr'[owner[k].thread].pc = "insert"
                                     /\ thr'[owner[k].thread].h = k
                                  THEN 0
                                  ELSE owner[k].obj
          <5>1. k # h /\ owner[k].thread \in Thread
            BY <1>0, <3>1, <4>2, Rows
          <5>2. (thr'[owner[k].thread].pc = "insert" /\ thr'[owner[k].thread].h = k)
                  <=> (thr[owner[k].thread].pc = "insert" /\ thr[owner[k].thread].h = k)
            BY <2>1, <2>2, <5>1
          <5> QED
            BY <2>4, <2>7, <4>2, <5>1, <5>2 DEF Sound, EntriesRight
        <4> HIDE DEF h
        <4>3. ASSUME NEW k \in Handle, owner[k].thread = NoThread, g_hook'[k] # 0
              PROVE  Closing(k)'
          BY <2>4, <2>7, <4>1, <4>3 DEF Sound, EntriesRight
        <4> QED
          BY <2>1, <4>2, <4>3 DEF EntriesRight
      <3>6. RemovalsRight'
        <4>1. \A s \in Thread : thr'[s].pc = "remove" =>
                /\ s # t /\ thr'[s] = thr[s] /\ thr[s].h \in Handle /\ thr[s].h # h
                /\ g_hook'[thr[s].h] = g_hook[thr[s].h]
          BY <1>0, <2>1, <2>2, <2>4, <2>7, Rows DEF Sound, RemovalsRight
        <4> QED
          BY <2>1, <2>7, <4>1 DEF Sound, RemovalsRight
      <3>7. ObjectsApart'
        BY <2>1, <2>2, <2>7, <3>2 DEF Sound, ObjectsApart
      <3>8. HeldLive'
        BY <2>1, <2>7, <3>2 DEF Sound, HeldLive
      <3>9. LiveHeld'
        <4>1. \A k \in Handle : k = h \/ g_hook'[k] = g_hook[k]
          BY <2>4
        <4>2. Holds(t)' /\ thr'[t].obj = g_hook[h]
          BY <3>1, <3>2, <3>3
        <4> HIDE DEF h, i
        <4> QED
          BY <2>1, <2>7, <3>2, <4>1, <4>2 DEF Sound, LiveHeld
      <3> QED
        BY <3>4, <3>5, <3>6, <3>7, <3>8, <3>9 DEF Sound
    <2> QED
      BY <2>1, <2>5, <2>6, <2>7 DEF FileInv
  <1>2. CASE g_hook[h] = 0 /\ crashed' = TRUE /\ UNCHANGED <<g_hook, thr>>
    <2>1. reused
      BY <1>2 DEF FileInv, remove_hook_handle, Sound, RemovalsRight
    <2> QED
      BY <1>0, <1>2, <2>1, CrashKeeps DEF remove_hook_handle, FileType
  <1> QED
    BY <1>1, <1>2 DEF remove_hook_handle

\* delete in hook_close.
LEMMA DeleteStepKeeps ==
    ASSUME FileInv, NEW t \in Thread, delete_handle(t) PROVE FileInv'
  <1>1. CASE /\ objs' = [objs EXCEPT ![thr[t].obj].live = FALSE]
             /\ thr' = [thr EXCEPT ![t] = Idle]
             /\ UNCHANGED crashed
    BY <1>1, DeleteKeeps DEF delete_handle, FileInv, IdleRight
  <1>2. CASE ~Live(t) /\ crashed' = TRUE /\ UNCHANGED <<objs, thr>>
    <2>1. reused
      BY <1>2, UsedAreLive DEF FileInv, delete_handle
    <2> QED
      BY <1>2, <2>1, CrashKeeps DEF delete_handle, FileInv, FileType
  <1> QED
    BY <1>1, <1>2 DEF delete_handle

LEMMA FileInvInit == Init => FileInv
  <1> SUFFICES ASSUME Init PROVE FileInv
    OBVIOUS
  <1>1. /\ objs = <<>> /\ Len(objs) = 0
        /\ g_hook = [h \in Handle |-> 0]
        /\ open = {}
        /\ owner = [h \in Handle |-> NoOwner]
        /\ thr = [t \in Thread |-> Idle]
        /\ failed = {}
        /\ reused = FALSE /\ fakeInLibc = FALSE /\ crashed = FALSE
    BY DEF Init
  <1>2. /\ NoOwner \in [thread: Thread \cup {NoThread}, obj: 0..0]
        /\ NoOwner.thread = NoThread /\ NoOwner.obj = 0
    BY DEF NoOwner
  <1>3. /\ Idle \in [pc: Pc, path: Path, h: Handle, obj: 0..0]
        /\ Idle.pc = "idle" /\ Idle.obj = 0
    <2>1. (CHOOSE p \in Path : TRUE) \in Path
      BY HandleAssumption
    <2>2. (CHOOSE h \in RealHandle : TRUE) \in Handle
      BY HandleAssumption DEF Handle
    <2> QED
      BY <2>1, <2>2 DEF Idle, Pc
  <1>4. FileType
    <2>1. /\ g_hook \in [Handle -> 0..Len(objs)]
          /\ owner \in [Handle -> [thread: Thread \cup {NoThread}, obj: 0..Len(objs)]]
          /\ thr \in [Thread -> [pc: Pc, path: Path, h: Handle, obj: 0..Len(objs)]]
      BY <1>1, <1>2, <1>3
    <2>2. objs \in Seq(Obj) /\ Len(objs) <= MaxOpens
      BY <1>1, BoundAssumption
    <2> QED
      BY <1>1, <2>1, <2>2 DEF FileType
  <1>5. \A t \in Thread : thr[t].pc = "idle" /\ thr[t].obj = 0 /\ ~Holds(t)
    BY <1>1, <1>3 DEF Holds
  <1>6. \A h \in Handle : owner[h].thread = NoThread /\ owner[h].obj = 0 /\ g_hook[h] = 0
    BY <1>1, <1>2
  <1>7. OwnersRight
    <2>1. \A i \in 1..MaxOpens : <<"filter", i>> \in Handle
      BY DEF Handle, FakeHandle
    <2>2. RealHandle \subseteq Handle
      BY DEF Handle
    <2> QED
      BY <1>1, <1>5, <1>6, <2>1, <2>2 DEF OwnersRight
  <1>8. EntriesRight /\ RemovalsRight /\ ObjectsApart /\ HeldLive
    BY <1>5, <1>6 DEF EntriesRight, RemovalsRight, ObjectsApart, HeldLive
  <1>9. LiveHeld
    BY <1>1 DEF LiveHeld
  <1> QED
    BY <1>1, <1>4, <1>5, <1>7, <1>8, <1>9 DEF FileInv, IdleRight, Sound, CrashOnlyAfterReuseOrFake

LEMMA FileInvStep == FileInv /\ RegInv /\ [Next]_vars => FileInv'
  <1> SUFFICES ASSUME FileInv, RegInv, [Next]_vars PROVE FileInv'
    OBVIOUS
  <1>1. CASE UNCHANGED <<objs, g_hook, open, owner, thr, failed, reused, fakeInLibc, crashed>>
    <2>1. Sound => Sound'
      BY <1>1 DEF Sound, OwnersRight, EntriesRight, Closing, RemovalsRight, ObjectsApart,
                  HeldLive, LiveHeld, Holds
    <2> QED
      BY <1>1, <2>1 DEF FileInv, FileType, IdleRight, CrashOnlyAfterReuseOrFake
  <1>2. ASSUME NEW c \in Client, NEW r \in Pattern, register_file_hook(c, r) PROVE FileInv'
    BY <1>1, <1>2 DEF register_file_hook, FilesUnchanged
  <1>3. ASSUME NEW c \in Client, unregister_file_hook(c) PROVE FileInv'
    BY <1>1, <1>3 DEF unregister_file_hook, FilesUnchanged
  <1>4. ASSUME NEW t \in Thread, ThreadStep(t) PROVE FileInv'
    <2>1. ASSUME NEW path \in Path, hook_open(t, path) \/ hook_stat(t, path) PROVE FileInv'
      BY <2>1, CreateKeeps DEF hook_open, hook_stat
    <2>2. CASE device_open_load(t)
      BY <2>2, CrashKeeps DEF device_open_load
    <2>3. ASSUME NEW h \in Handle, hook_read(t, h) \/ hook_close(t, h) PROVE FileInv'
      BY <2>3, LookUpKeeps DEF hook_read, hook_close
    <2> QED
      BY <1>4, <2>1, <2>2, <2>3, StatKeeps, RealOpenKeeps, FailKeeps, MemoryOpenKeeps,
         InsertKeeps, ReadKeeps, RealCloseKeeps, RemoveKeeps, DeleteStepKeeps DEF ThreadStep
  <1>5. CASE UNCHANGED vars
    BY <1>1, <1>5 DEF vars
  <1> QED
    BY <1>2, <1>3, <1>4, <1>5 DEF Next

LEMMA FileInvAlways == Spec => [](RegInv /\ RegBound /\ FileInv)
  <1>1. Init => RegBound
    <2> SUFFICES ASSUME Init PROVE RegBound
      OBVIOUS
    <2>1. hook_file_list = <<>> /\ reg = [c \in Client |-> NoRegistration]
      BY DEF Init
    <2>2. Len(hook_file_list) = 0 /\ NoRegistration.handle = 0
      BY <2>1 DEF NoRegistration
    <2> QED
      BY <2>1, <2>2, BoundAssumption DEF RegBound
  <1> QED
    BY <1>1, RegInvAlways, RegBoundStep, FileInvInit, FileInvStep, PTL DEF Spec

\* Every variable of the hooks has its type: the map, the owners and the threads name
\* only objects that check_and_create_handle made.
THEOREM TypeCorrect == Spec => []TypeOK
  <1>1. RegInv /\ RegBound /\ FileInv => TypeOK
    <2> SUFFICES ASSUME RegInv, RegBound, FileInv PROVE TypeOK
      OBVIOUS
    <2>1. reg \in [Client -> [pattern: Pattern \cup {NoPattern}, handle: 0..MaxReg]]
      <3>1. /\ reg \in [Client -> [pattern: Pattern \cup {NoPattern}, handle: Nat]]
            /\ \A c \in Client : reg[c].handle <= MaxReg
        BY DEF RegInv, RegType, RegBound
      <3>2. \A c \in Client : reg[c] \in [pattern: Pattern \cup {NoPattern}, handle: 0..MaxReg]
        BY <3>1, BoundAssumption
      <3> QED
        BY <3>1, <3>2
    <2>2. hook_file_list \in Seq(Pattern \cup {NoPattern}) /\ refused \in BOOLEAN
      BY DEF RegInv, RegType
    <2>3. FileType
      BY DEF FileInv
    <2>4. failed \subseteq DOMAIN objs /\ {reused, fakeInLibc, crashed} \subseteq BOOLEAN
      BY <2>3 DEF FileType
    <2> QED
      BY <2>1, <2>2, <2>3, <2>4 DEF TypeOK, FileType, Obj, Pc
  <1> QED
    BY <1>1, FileInvAlways, PTL

\* As long as no handle is given out again between the real close and
\* remove_hook_handle, every read, write and close meets the filter of the path the
\* handle was opened with, and that filter exists; and the hooks crash the process
\* only after such a reuse or when a filter's address reached libc.
THEOREM FiltersStayRight == Spec => []FiltersRight
  <1>1. FileInv => FiltersRight
    <2> SUFFICES ASSUME FileInv PROVE FiltersRight
      OBVIOUS
    <2>1. ASSUME Sound, NEW t \in Thread, thr[t].pc \in {"use", "close"}
          PROVE  thr[t].obj = owner[thr[t].h].obj /\ Live(t)
      BY <2>1, UsedAreLive DEF FileInv, Sound, OwnersRight
    <2> QED
      BY <2>1 DEF FileInv, FiltersRight, RightFilter
  <1> QED
    BY <1>1, FileInvAlways, PTL

\* A file_hook object that nothing refers to is one whose open failed: hook_close
\* and hook_stat delete what they are done with, whatever the other threads do.
THEOREM OnlyFailedOpensLeak == Spec => []NoOtherLeak
  <1>1. FileInv => NoOtherLeak
    BY DEF FileInv, Sound, LiveHeld, NoOtherLeak
  <1> QED
    BY <1>1, FileInvAlways, PTL

-----------------------------------------------------------------------------
(* memory_file: its invariant.                                             *)

\* The buffer behind the end of the file is zero: growing, which copies the file
\* and clears the rest, changes no byte.
ZeroTail == \A i \in Offset : i >= len => share_data[i] = Zero

MemInv ==
    /\ MemTypeOK
    /\ ZeroTail
    /\ OverrunOnlyFromOutside
    /\ WriteStores

-----------------------------------------------------------------------------
(* Facts about the operators.                                              *)

LEMMA DataLen ==
    ASSUME NEW b \in Data
    PROVE  Len(b) \in 0..MaxIO /\ \A i \in 1..Len(b) : b[i] \in Byte
  <1>1. PICK n \in 0..MaxIO : b \in [1..n -> Byte]
    BY DEF Data
  <1>2. n \in Nat /\ b \in Seq(Byte) /\ Len(b) = n
    BY <1>1, CapacityAssumption
  <1> QED
    BY <1>1, <1>2

LEMMA SliceType ==
    ASSUME MemTypeOK, NEW k \in 0..MaxIO, ~Outside(k, alloc)
    PROVE  Slice(k) \in Data
  <1>1. \A i \in 1..k : off + i - 1 \in Offset
    BY CapacityAssumption DEF MemTypeOK, Outside, Offset, Position
  <1>2. Slice(k) \in [1..k -> Byte]
    BY <1>1 DEF Slice, MemTypeOK
  <1> QED
    BY <1>2 DEF Data

LEMMA ReadLenBounds ==
    ASSUME MemTypeOK, NEW n \in Nat
    PROVE  /\ ReadLen(n) \in Nat
           /\ ReadLen(n) <= n
           /\ ReadLen(n) > 0 => off + ReadLen(n) <= len
  BY CapacityAssumption DEF MemTypeOK, ReadLen, Position

LEMMA RoomBounds ==
    ASSUME MemTypeOK, NEW cap \in Nat, NEW w \in Nat
    PROVE  /\ Room(cap, w) \in Nat
           /\ Room(cap, w) <= w
           /\ off <= cap => off + Room(cap, w) <= cap
           /\ (Room(cap, w) = 0 /\ w > 0) => off = cap
  BY CapacityAssumption DEF MemTypeOK, Room, Position

LEMMA GrownBounds ==
    ASSUME NEW cap \in Nat
    PROVE  Grown(cap) \in Nat /\ Grown(cap) >= cap /\ (Grown(cap) = cap => cap < 2)
  BY DEF Grown

LEMMA MovedIsSame ==
    ASSUME MemTypeOK, ZeroTail
    PROVE  Moved = share_data
  <1>1. \A i \in Offset : (IF i < len THEN share_data[i] ELSE Zero) = share_data[i]
    BY CapacityAssumption DEF ZeroTail, MemTypeOK, Offset
  <1>2. share_data = [i \in Offset |-> share_data[i]]
    BY DEF MemTypeOK
  <1> QED
    BY <1>1, <1>2, Zenon DEF Moved

-----------------------------------------------------------------------------
LEMMA MemInvInit == MemInit => MemInv
  <1> SUFFICES ASSUME MemInit PROVE MemInv
    OBVIOUS
  <1> USE CapacityAssumption
  <1>1. alloc \in 0..Limit /\ alllen \in 0..Limit /\ len \in 0..Limit
    BY DEF MemInit
  <1>2. <<>> \in Data
    <2>1. <<>> \in [1..0 -> Byte]
      OBVIOUS
    <2> QED
      BY <2>1 DEF Data
  <1>3. MemTypeOK
    <2>1. off \in Position /\ out \in Data
      BY <1>2 DEF MemInit, Position
    <2>2. stuck \in BOOLEAN /\ broken = "no" /\ share_data \in [Offset -> Byte]
      BY DEF MemInit
    <2> QED
      BY <1>1, <2>1, <2>2, Zenon DEF MemTypeOK
  <1>4. ZeroTail /\ OverrunOnlyFromOutside /\ WriteStores
    BY DEF MemInit, ZeroTail, OverrunOnlyFromOutside, WriteStores
  <1> QED
    BY <1>3, <1>4 DEF MemInv

\* A call that moves the position and gives bytes out keeps the invariant.
LEMMA GiveKeeps ==
    ASSUME MemInv, out' \in Data, off' \in Position, stuck' = FALSE,
           UNCHANGED <<share_data, alloc, alllen, len, broken>>, broken = "no"
    PROVE  MemInv'
  BY DEF MemInv, MemTypeOK, ZeroTail, OverrunOnlyFromOutside, WriteStores

LEMMA MemReadKeeps ==
    ASSUME MemInv, broken = "no", NEW n \in 0..MaxIO, read(n)
    PROVE  MemInv'
  <1> USE CapacityAssumption
  <1>0. MemTypeOK /\ n \in Nat
    BY DEF MemInv
  <1>1. ReadLen(n) \in 0..MaxIO /\ (ReadLen(n) > 0 => off + ReadLen(n) <= len)
    BY <1>0, ReadLenBounds
  <1>2. CASE Outside(ReadLen(n), alloc) /\ Breaks("read")
    <2>1. alloc < alllen \/ off < 0 \/ len > alllen
      BY <1>0, <1>1, <1>2 DEF Outside, MemTypeOK, Position
    <2> QED
      BY <1>2, <2>1 DEF MemInv, Breaks, MemTypeOK, ZeroTail, OverrunOnlyFromOutside, WriteStores
  <1>3. CASE /\ ~Outside(ReadLen(n), alloc)
             /\ out' = Slice(ReadLen(n))
             /\ off' = off + ReadLen(n)
             /\ stuck' = FALSE
             /\ UNCHANGED <<share_data, alloc, alllen, len, broken>>
    <2>1. out' \in Data
      BY <1>0, <1>1, <1>3, SliceType
    <2>2. off' \in Position
      BY <1>0, <1>1, <1>3 DEF MemTypeOK, Position
    <2> QED
      BY <1>3, <2>1, <2>2, GiveKeeps
  <1> QED
    BY <1>2, <1>3 DEF read

LEMMA FgetsKeeps ==
    ASSUME MemInv, broken = "no", NEW n \in 0..MaxIO, fgets(n)
    PROVE  MemInv'
  <1> USE CapacityAssumption
  <1>0. MemTypeOK /\ n \in Nat
    BY DEF MemInv
  <1>1. CASE /\ out' = <<>>
             /\ stuck' = FALSE
             /\ UNCHANGED <<share_data, alloc, alllen, len, off, broken>>
    <2>1. <<>> \in [1..0 -> Byte]
      OBVIOUS
    <2>2. out' \in Data
      BY <1>1, <2>1 DEF Data
    <2> QED
      BY <1>0, <1>1, <2>2, GiveKeeps DEF MemTypeOK
  <1>2. CASE Breaks("scan")
    BY <1>2 DEF MemInv, Breaks, MemTypeOK, ZeroTail, OverrunOnlyFromOutside, WriteStores
  <1>3. ASSUME NEW e \in LineEnds,
               e >= off,
               ~Outside(ReadLen(LineLen(e, n)), alloc),
               out' = Slice(ReadLen(LineLen(e, n))),
               off' = IF off # 0 THEN off + ReadLen(LineLen(e, n)) ELSE off,
               stuck' = FALSE,
               UNCHANGED <<share_data, alloc, alllen, len, broken>>
        PROVE  MemInv'
    <2>1. e \in Int
      BY DEF LineEnds, Offset
    <2>2. LineLen(e, n) \in 0..MaxIO
      BY <1>0, <1>3, <2>1 DEF LineLen, MemTypeOK, Position
    <2>3. /\ ReadLen(LineLen(e, n)) \in 0..MaxIO
          /\ ReadLen(LineLen(e, n)) > 0 => off + ReadLen(LineLen(e, n)) <= len
      BY <1>0, <2>2, ReadLenBounds
    <2>4. out' \in Data
      BY <1>0, <1>3, <2>3, SliceType
    <2>5. off' \in Position
      BY <1>0, <1>3, <2>3 DEF MemTypeOK, Position
    <2> QED
      BY <1>3, <2>4, <2>5, GiveKeeps
  <1> QED
    BY <1>1, <1>2, <1>3 DEF fgets
LEMMA WriteKeeps ==
    ASSUME MemInv, broken = "no", NEW b \in Data, write(b)
    PROVE  MemInv'
  <1> USE CapacityAssumption, ByteAssumption
  <1> DEFINE w == Len(b)
             grows == Room(alllen, w) = 0
             cap == IF grows THEN Grown(alllen) ELSE alllen
             space == IF grows THEN cap ELSE alloc
             buf == IF grows THEN Moved ELSE share_data
             k == Room(cap, w)
             overrun == Outside(k, space) \/ (grows /\ (len > alloc \/ len > cap))
  <1>1. MemTypeOK /\ ZeroTail
    BY DEF MemInv
  <1>2. w \in 0..MaxIO /\ \A i \in 1..w : b[i] \in Byte
    BY DataLen
  <1>3. alllen \in Nat /\ cap \in Nat /\ cap >= alllen
    BY <1>1, GrownBounds DEF MemTypeOK
  <1>r. \A c, v \in Nat : /\ Room(c, v) \in Nat
                          /\ Room(c, v) <= v
                          /\ off <= c => off + Room(c, v) <= c
                          /\ (Room(c, v) = 0 /\ v > 0) => off = c
    BY <1>1, RoomBounds
  <1>k. w \in Nat /\ k \in Nat /\ k <= w /\ (off <= cap => off + k <= cap)
        /\ ((k = 0 /\ w > 0) => off = cap)
    <2> HIDE DEF cap, w
    <2> QED
      BY <1>2, <1>3, <1>r
  <1>4. k \in 0..w
    BY <1>k
  <1>5. off <= alllen => off + k <= cap
    BY <1>1, <1>3, <1>k DEF MemTypeOK, Position
  <1>6. buf = share_data
    BY <1>1, MovedIsSame
  <1>7. cap <= Limit
    BY DEF write
  <1>8. CASE overrun /\ Breaks("write")
    <2>1. alloc < alllen \/ off < 0 \/ off > alllen \/ len > alllen
      <3> SUFFICES ASSUME alloc >= alllen, off >= 0, off <= alllen, len <= alllen PROVE FALSE
        BY <1>1 DEF MemTypeOK, Position
      <3>1. space >= cap
        BY <1>1, <1>3 DEF MemTypeOK
      <3>2. ~Outside(k, space)
        BY <1>1, <1>3, <1>4, <1>5, <3>1 DEF Outside, MemTypeOK, Position
      <3> QED
        BY <1>1, <1>3, <1>8, <3>2 DEF MemTypeOK
    <2> QED
      BY <1>8, <2>1 DEF MemInv, Breaks, MemTypeOK, ZeroTail, OverrunOnlyFromOutside, WriteStores
  <1>9. CASE /\ ~overrun
             /\ share_data' = [i \in Offset |-> IF off <= i /\ i < off + k THEN b[i - off + 1]
                                                ELSE buf[i]]
             /\ alloc' = space
             /\ alllen' = cap
             /\ off' = off + k
             /\ len' = NewLen(off + k)
             /\ out' = <<>>
             /\ stuck' = (Len(b) > 0 /\ k = 0)
             /\ UNCHANGED broken
    <2>1. /\ off \in Int /\ off >= -1 /\ off <= Limit
          /\ len \in 0..Limit /\ alloc \in 0..Limit
          /\ k > 0 => off >= 0 /\ off + k <= space
          /\ space \in 0..Limit
      BY <1>1, <1>3, <1>4, <1>7, <1>9 DEF Outside, MemTypeOK, Position
    <2>2. off' \in Position /\ len' \in 0..Limit
      BY <1>4, <1>9, <2>1 DEF Position, NewLen
    <2>3. share_data' \in [Offset -> Byte]
      <3>1. ASSUME NEW i \in Offset, off <= i, i < off + k
            PROVE  b[i - off + 1] \in Byte
        BY <1>2, <1>4, <2>1, <3>1 DEF Offset
      <3> QED
        BY <1>1, <1>6, <1>9, <3>1 DEF MemTypeOK
    <2>4. out' \in Data
      <3>1. <<>> \in [1..0 -> Byte]
        OBVIOUS
      <3> QED
        BY <1>9, <3>1 DEF Data
    <2>5. MemTypeOK'
      <3>1. stuck' \in BOOLEAN /\ broken' = "no"
        BY <1>9
      <3>2. alloc' \in 0..Limit /\ alllen' \in 0..Limit
        BY <1>3, <1>7, <1>9, <2>1
      <3> QED
        BY <2>2, <2>3, <2>4, <3>1, <3>2, Zenon DEF MemTypeOK
    <2>6. ZeroTail'
      <3> SUFFICES ASSUME NEW i \in Offset, i >= len' PROVE share_data'[i] = Zero
        BY DEF ZeroTail
      <3>1. i >= len /\ ~(off <= i /\ i < off + k)
        BY <1>4, <1>9, <2>1 DEF NewLen, Offset
      <3> QED
        BY <1>1, <1>6, <1>9, <3>1 DEF ZeroTail
    <2>7. WriteStores'
      <3> SUFFICES ASSUME w > 0, k = 0 PROVE cap < 2
        BY <1>9 DEF WriteStores
      <3>1. off = cap
        BY <1>k
      <3>2. grows
        BY DEF grows
      <3>3. off = alllen
        BY <1>1, <1>2, <1>3, <3>2, RoomBounds
      <3>4. Grown(alllen) = alllen
        BY <3>1, <3>2, <3>3
      <3> QED
        BY <1>3, <3>1, <3>3, <3>4, GrownBounds
    <2>8. OverrunOnlyFromOutside'
      BY <1>9 DEF OverrunOnlyFromOutside
    <2> QED
      BY <2>5, <2>6, <2>7, <2>8 DEF MemInv
  <1> QED
    BY <1>8, <1>9 DEF write

LEMMA SeekKeeps ==
    ASSUME MemInv, broken = "no", NEW p, on_set_pos(p)
    PROVE  MemInv'
  <1>1. <<>> \in [1..0 -> Byte]
    OBVIOUS
  <1>2. out' \in Data
    BY <1>1, CapacityAssumption DEF on_set_pos, Data
  <1> QED
    BY <1>2, GiveKeeps DEF on_set_pos

LEMMA MemInvStep == MemInv /\ [MemNext]_memvars => MemInv'
  <1> SUFFICES ASSUME MemInv, [MemNext]_memvars PROVE MemInv'
    OBVIOUS
  <1>1. CASE UNCHANGED memvars
    BY <1>1 DEF memvars, MemInv, MemTypeOK, ZeroTail, OverrunOnlyFromOutside, WriteStores
  <1>2. CASE MemNext
    <2>1. broken = "no"
      BY <1>2 DEF MemNext
    <2>2. ASSUME NEW n \in 0..MaxIO, read(n) PROVE MemInv'
      BY <2>1, <2>2, MemReadKeeps
    <2>3. ASSUME NEW n \in 0..MaxIO, fgets(n) PROVE MemInv'
      BY <2>1, <2>3, FgetsKeeps
    <2>4. ASSUME NEW b \in Data, write(b) PROVE MemInv'
      BY <2>1, <2>4, WriteKeeps
    <2>5. ASSUME NEW offset \in Position, fseek(offset) PROVE MemInv'
      BY <2>1, <2>5, SeekKeeps DEF fseek
    <2> QED
      BY <1>2, <2>2, <2>3, <2>4, <2>5 DEF MemNext
  <1> QED
    BY <1>1, <1>2

LEMMA MemInvAlways == MemSpec => []MemInv
  BY MemInvInit, MemInvStep, PTL DEF MemSpec

\* The offsets, lengths and capacities of memory_file keep within the bounds, and
\* fgets and fread never give more than they were asked for.
THEOREM MemTypeCorrect == MemSpec => []MemTypeOK
  <1>1. MemInv => MemTypeOK
    BY DEF MemInv
  <1> QED
    BY <1>1, MemInvAlways, PTL

\* memory_file::read and write leave the buffer only from a position or with a
\* length outside the capacity, or with an adopted buffer shorter than it.
THEOREM OverrunsComeFromOutside == MemSpec => []OverrunOnlyFromOutside
  <1>1. MemInv => OverrunOnlyFromOutside
    BY DEF MemInv
  <1> QED
    BY <1>1, MemInvAlways, PTL

\* With a capacity of two or more, every memory_file::write of some bytes stores
\* at least one of them.
THEOREM WritesProgress == MemSpec => []WriteStores
  <1>1. MemInv => WriteStores
    BY DEF MemInv
  <1> QED
    BY <1>1, MemInvAlways, PTL

\* The capacity memory_file::write computes is enough, for every bound.
THEOREM BufferStaysRight == MemSpec => []BufferRight
  BY OverrunsComeFromOutside, WritesProgress, PTL DEF BufferRight

-----------------------------------------------------------------------------
(* Refinement.                                                             *)

LEMMA RefineInit == MemInit => File!Init
  BY CapacityAssumption DEF MemInit, File!Init, Offset, File!Offset

LEMMA RefineBreak ==
    ASSUME NEW call, Breaks(call)
    PROVE  UNCHANGED File!vars
  BY DEF Breaks, File!vars

LEMMA RefineRead ==
    ASSUME MemInv, NEW n \in 0..MaxIO, read(n)
    PROVE  File!Read(n) \/ UNCHANGED File!vars
  <1>1. File!Available(n) = ReadLen(n) /\ File!Slice(ReadLen(n)) = Slice(ReadLen(n))
    BY DEF File!Available, ReadLen, File!Slice, Slice
  <1>2. CASE Breaks("read")
    BY <1>2, RefineBreak
  <1>3. CASE /\ ~Outside(ReadLen(n), alloc)
             /\ out' = Slice(ReadLen(n))
             /\ off' = off + ReadLen(n)
             /\ UNCHANGED <<share_data, len>>
    <2>1. ReadLen(n) > 0 => off >= 0
      BY <1>3 DEF Outside, MemInv, MemTypeOK, Position
    <2> QED
      BY <1>1, <1>3, <2>1 DEF File!Read
  <1> QED
    BY <1>2, <1>3 DEF read

LEMMA RefineFgets ==
    ASSUME MemInv, NEW n \in 0..MaxIO, fgets(n)
    PROVE  File!ReadLine(n) \/ UNCHANGED File!vars
  <1> USE CapacityAssumption
  <1>0. MemTypeOK /\ n \in Nat
    BY DEF MemInv
  <1>1. CASE Breaks("scan")
    BY <1>1, RefineBreak
  <1>2. ASSUME NEW k \in 0..n, k <= ReadLen(n), k > 0 => off >= 0,
               out' = Slice(k), off' \in {off, off + k}, UNCHANGED <<share_data, len>>
        PROVE  File!ReadLine(n)
    <2>1. File!Available(n) = ReadLen(n) /\ File!Slice(k) = Slice(k)
      BY DEF File!Available, ReadLen, File!Slice, Slice
    <2> QED
      BY <1>2, <2>1 DEF File!ReadLine
  <1>3. CASE off >= len /\ out' = <<>> /\ UNCHANGED <<share_data, len, off>>
    <2>1. Slice(0) = <<>>
      BY DEF Slice
    <2>2. 0 <= ReadLen(n) /\ 0 \in 0..n
      BY <1>0, ReadLenBounds
    <2> QED
      BY <1>2, <1>3, <2>1, <2>2
  <1>4. ASSUME 0 <= off, off < len,
               NEW e \in LineEnds, e >= off,
               out' = Slice(ReadLen(LineLen(e, n))),
               off' = IF off # 0 THEN off + ReadLen(LineLen(e, n)) ELSE off,
               UNCHANGED <<share_data, len>>
        PROVE  File!ReadLine(n)
    <2> DEFINE k == ReadLen(LineLen(e, n))
    <2>1. e \in Int
      BY DEF LineEnds, Offset
    <2>2. LineLen(e, n) \in 0..n
      BY <1>0, <1>4, <2>1 DEF LineLen, MemTypeOK, Position
    <2>3. k \in 0..n
      BY <1>0, <2>2, ReadLenBounds
    <2>4. k <= ReadLen(n)
      BY <1>0, <2>2 DEF ReadLen, MemTypeOK, Position
    <2>5. off' \in {off, off + k}
      BY <1>4
    <2> HIDE DEF k
    <2>6. out' = Slice(k)
      BY <1>4 DEF k
    <2> QED
      BY <1>2, <1>4, <2>3, <2>4, <2>5, <2>6
  <1> QED
    BY <1>1, <1>3, <1>4 DEF fgets

LEMMA RefineWrite ==
    ASSUME MemInv, NEW b \in Data, write(b)
    PROVE  File!Write(b) \/ UNCHANGED File!vars
  <1> USE CapacityAssumption
  <1> DEFINE w == Len(b)
             grows == Room(alllen, w) = 0
             cap == IF grows THEN Grown(alllen) ELSE alllen
             space == IF grows THEN cap ELSE alloc
             buf == IF grows THEN Moved ELSE share_data
             k == Room(cap, w)
             overrun == Outside(k, space) \/ (grows /\ (len > alloc \/ len > cap))
  <1>1. MemTypeOK /\ ZeroTail
    BY DEF MemInv
  <1>2. w \in Nat
    BY DataLen
  <1>3. cap \in Nat /\ cap <= Limit
    BY <1>1, GrownBounds DEF MemTypeOK, write
  <1>4. k \in 0..w
    <2>1. \A c, v \in Nat : Room(c, v) \in Nat /\ Room(c, v) <= v
      BY <1>1, RoomBounds
    <2> HIDE DEF cap, w
    <2> QED
      BY <1>2, <1>3, <2>1
  <1>5. buf = share_data
    BY <1>1, MovedIsSame
  <1>6. CASE Breaks("write")
    BY <1>6, RefineBreak
  <1>7. CASE /\ ~overrun
             /\ share_data' = [i \in Offset |-> IF off <= i /\ i < off + k THEN b[i - off + 1]
                                                ELSE buf[i]]
             /\ off' = off + k
             /\ len' = NewLen(off + k)
             /\ out' = <<>>
    <2>1. k > 0 => off >= 0 /\ off + k <= Limit
      BY <1>1, <1>3, <1>4, <1>7 DEF Outside, MemTypeOK, Position
    <2> HIDE DEF k, buf, w
    <2> QED
      BY <1>4, <1>5, <1>7, <2>1 DEF File!Write, NewLen, Offset, File!Offset, w
  <1> QED
    BY <1>6, <1>7 DEF write

LEMMA RefineSeek ==
    ASSUME NEW p, on_set_pos(p)
    PROVE  \E q \in File!Position : File!Seek(q)
  BY DEF on_set_pos, File!Seek, Position, File!Position

LEMMA RefineStep == MemInv /\ [MemNext]_memvars => [File!Next]_(File!vars)
  <1> SUFFICES ASSUME MemInv, [MemNext]_memvars PROVE File!Next \/ UNCHANGED File!vars
    OBVIOUS
  <1>1. CASE UNCHANGED memvars
    BY <1>1 DEF memvars, File!vars
  <1>2. ASSUME NEW n \in 0..MaxIO, read(n) PROVE File!Next \/ UNCHANGED File!vars
    BY <1>2, RefineRead DEF File!Next
  <1>3. ASSUME NEW n \in 0..MaxIO, fgets(n) PROVE File!Next \/ UNCHANGED File!vars
    BY <1>3, RefineFgets DEF File!Next
  <1>4. ASSUME NEW b \in Data, write(b) PROVE File!Next \/ UNCHANGED File!vars
    BY <1>4, RefineWrite DEF File!Next, Data, File!Data
  <1>5. ASSUME NEW offset \in Position, fseek(offset)
        PROVE  File!Next \/ UNCHANGED File!vars
    BY <1>5, RefineSeek DEF fseek, File!Next
  <1> QED
    BY <1>1, <1>2, <1>3, <1>4, <1>5 DEF MemNext

\* memory_file implements a file of bytes: its constructors make one, and each of
\* read, fgets, write and on_set_pos is one operation of it or leaves it as it is.
THEOREM MemoryFileIsByteFile == MemSpec => ImplementsByteFile
  BY RefineInit, RefineStep, MemInvAlways, PTL DEF MemSpec, ImplementsByteFile, File!Spec
=============================================================================
