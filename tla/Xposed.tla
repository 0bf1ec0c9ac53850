------------------------------- MODULE Xposed -------------------------------
(***************************************************************************)
(* The Xposed side of the program.  The application (MainActivity, with    *)
(* XposedService in the same process) writes the package to analyse to     *)
(* plug_config.json.  Every application process that starts reads it       *)
(* (xposed_sub_plug_loader), hooks itself if it is the one, and binds to   *)
(* the service, where it registers under a name to receive commands.       *)
(*                                                                         *)
(* The file is written and read in several steps, each of which may fail.  *)
(* Registrations and commands run on binder threads, without the lock that *)
(* onUnbind takes, on a plain HashMap: puts that overlap may lose entries. *)
(* Processes die; Android restarts a service that has clients and connects *)
(* them again.  All clients bind with equal intents, so that Android asks  *)
(* for one binder and hands it to all of them.                             *)
(***************************************************************************)
EXTENDS Naturals, FiniteSets

CONSTANTS
    Proc,       \* processes of applications; one that starts again is another
    PackageOf,  \* PackageOf[p]: the package that p loads
    NameOf,     \* NameOf[p]: the plug_name under which p registers
    Setting,    \* values of analyse_packet_name
    Contains,   \* Contains[g]: the settings that package name g contains
    Caller,     \* threads that send commands through the service
    MaxLife,    \* bound: lives of the application's process
    None

Package == {PackageOf[p] : p \in Proc}
Name == {NameOf[p] : p \in Proc}

ASSUME PlugAssumption ==
    /\ None \notin Proc \cup Setting \cup Name
    /\ "empty" \notin Setting \cup {None}
    /\ Contains \in [Package -> SUBSET Setting]
    /\ MaxLife \in Nat

VARIABLES
    file,       \* plug_config.json: None, "empty" or a setting
    saving,     \* the setting that onItemClick is writing, or None
    saved,      \* history: the settings ever chosen
    torn,       \* history: the last write failed, or the process died in it
    life, up,   \* the lives of the application's process, and if it lives
    plug_name_2_client,
    service_handle_2_plug_name,  \* keyed by binders; onUnbind asks for an Intent
    pc,         \* pc[p]: the main thread of p
    len,        \* len[p]: the length of the file when p asked for it
    unread,     \* history: p could not read, or met no file written to its end
    is_init,
    bound,      \* processes with a connection to the service
    conn,       \* conn[p]: the life whose binder p was connected to, or 0
    reg,        \* reg[p]: regiest_callback of p on a binder thread
    answer,     \* answer[p]: the life and the result of p's last registration
    met,        \* met[p]: processes whose put overlaps, or has overlapped, p's
    raced,      \* history: processes whose registration overlapped another
    call        \* call[c]: the command that caller c sends

config == <<file, saving, saved, torn>>
service == <<life, up, plug_name_2_client, service_handle_2_plug_name>>
plug == <<pc, len, unread, is_init>>
binding == <<bound, conn, reg, answer, met, raced>>
vars == <<config, service, plug, binding, call>>

NoClients == [n \in Name |-> None]
NoHandles == [k \in {"binder", "intent"} |-> None]
NoAnswer == [life |-> 0, ok |-> FALSE]
NoPuts == [p \in Proc |-> {}]
NoCall == [op |-> "none", name |-> None, todo |-> {}, due |-> {}, got |-> {}, changed |-> FALSE,
           ret |-> "none"]

Init ==
    /\ file = None /\ saving = None /\ saved = {} /\ torn = FALSE
    /\ life = 0 /\ up = FALSE
    /\ plug_name_2_client = NoClients /\ service_handle_2_plug_name = NoHandles
    /\ pc = [p \in Proc |-> "off"] /\ len = [p \in Proc |-> None]
    /\ unread = [p \in Proc |-> FALSE] /\ is_init = [p \in Proc |-> FALSE]
    /\ bound = {} /\ conn = [p \in Proc |-> 0]
    /\ reg = [p \in Proc |-> "none"] /\ answer = [p \in Proc |-> NoAnswer]
    /\ met = NoPuts /\ raced = {}
    /\ call = [c \in Caller |-> NoCall]

(***************************************************************************)
(* The application: MainActivity starts, the user chooses, it dies.        *)
(***************************************************************************)
HostStart ==
    /\ ~up /\ life < MaxLife
    /\ up' = TRUE /\ life' = life + 1
    /\ UNCHANGED <<config, plug_name_2_client, service_handle_2_plug_name, plug, binding, call>>

HostDie ==
    /\ up
    /\ up' = FALSE
    /\ plug_name_2_client' = NoClients /\ service_handle_2_plug_name' = NoHandles
    /\ saving' = None
    /\ torn' = (torn \/ saving # None)
    /\ conn' = [p \in Proc |-> 0]
    /\ reg' = [p \in Proc |-> "none"]
    /\ met' = NoPuts /\ raced' = {}
    /\ call' = [c \in Caller |-> NoCall]
    /\ UNCHANGED <<file, saved, life, plug, bound, answer>>

\* save_plug_config: FileOutputStream truncates the file, then it is written.  The
\* IOException of either is swallowed: the file stays as it was, or empty.
onItemClick(s) ==
    /\ up /\ saving = None
    /\ saving' = s
    /\ saved' = saved \cup {s}
    /\ file' = "empty"
    /\ unread' = [p \in Proc |-> unread[p] \/ pc[p] = "reading"]
    /\ UNCHANGED <<torn, service, pc, len, is_init, binding, call>>

save_file_write ==
    /\ saving # None
    /\ file' = saving /\ saving' = None /\ torn' = FALSE
    /\ UNCHANGED <<saved, service, plug, binding, call>>

save_file_fails ==
    /\ saving # None
    /\ saving' = None /\ torn' = TRUE
    /\ UNCHANGED <<file, saved, service, plug, binding, call>>

(***************************************************************************)
(* xposed_sub_plug_loader in a process of an application.                  *)
(***************************************************************************)
\* handleLoadPackage: without a file that can be read the configuration is null;
\* else its length is read first.
load_plug_config(p) ==
    /\ pc[p] = "off"
    /\ \E canRead \in BOOLEAN :
           /\ unread' = [unread EXCEPT ![p] = ~canRead \/ file = None \/ saving # None \/ torn]
           /\ IF file = None \/ ~canRead
              THEN pc' = [pc EXCEPT ![p] = "hooked"] /\ UNCHANGED len
              ELSE pc' = [pc EXCEPT ![p] = "reading"] /\ len' = [len EXCEPT ![p] = file]
    /\ UNCHANGED <<config, service, is_init, binding, call>>

\* Mistake: the name of the package is not looked at.
Chosen_all(g, s) == TRUE
Chosen(g, s) == s \in Contains[g]

\* An empty text is null, and then every process is hooked; so is an IOException.
\* Bytes that do not fit the length read before make the parser throw, which ends
\* the loader.
load_file_read(p) ==
    /\ pc[p] = "reading"
    /\ \E null \in BOOLEAN :
           /\ len[p] = "empty" => null
           /\ file = len[p] /\ len[p] # "empty" => ~null
           /\ pc' = [pc EXCEPT ![p] =
                  IF null \/ (file = len[p] /\ Chosen(PackageOf[p], file)) THEN "hooked"
                  ELSE "plain"]
    /\ len' = [len EXCEPT ![p] = None]
    /\ unread' = [unread EXCEPT ![p] = @ /\ pc'[p] = "hooked"]
    /\ UNCHANGED <<config, service, is_init, binding, call>>

load_file_throws(p) ==
    /\ pc[p] = "reading"
    /\ pc' = [pc EXCEPT ![p] = "hooked"] /\ unread' = [unread EXCEPT ![p] = TRUE]
    /\ len' = [len EXCEPT ![p] = None]
    /\ UNCHANGED <<config, service, is_init, binding, call>>

\* Every launch of an activity in a hooked process runs the hook of
\* performLaunchActivity; init_plug binds only once.
performLaunchActivity(p) ==
    /\ pc[p] = "hooked" /\ ~is_init[p]
    /\ is_init' = [is_init EXCEPT ![p] = TRUE]
    /\ bound' = bound \cup {p}
    /\ UNCHANGED <<config, service, pc, len, unread, conn, reg, answer, met, raced, call>>

\* The Intent is not among the keys, so that nothing is ever removed.
onUnbind(names, clients) ==
    [names |-> [names EXCEPT !["intent"] = None],
     clients |-> [n \in Name |-> IF n = names["intent"] THEN None ELSE clients[n]]]

\* A hooked process dies.  Android calls onUnbind when its connection was the last;
\* the call it made may still run on the binder thread.
Die(p) ==
    /\ pc[p] = "hooked"
    /\ pc' = [pc EXCEPT ![p] = "dead"]
    /\ unread' = [unread EXCEPT ![p] = FALSE]
    /\ is_init' = [is_init EXCEPT ![p] = FALSE]
    /\ bound' = bound \ {p}
    /\ conn' = [conn EXCEPT ![p] = 0]
    /\ answer' = [answer EXCEPT ![p] = NoAnswer]
    /\ IF up /\ bound = {p}
       THEN LET u == onUnbind(service_handle_2_plug_name, plug_name_2_client)
            IN  service_handle_2_plug_name' = u.names /\ plug_name_2_client' = u.clients
       ELSE UNCHANGED <<service_handle_2_plug_name, plug_name_2_client>>
    /\ UNCHANGED <<config, life, up, len, reg, met, raced, call>>

\* Android connects a bound process, again in every life of the service, and
\* onServiceConnected registers.
onServiceConnected(p) ==
    /\ up /\ p \in bound /\ conn[p] # life /\ reg[p] = "none"
    /\ conn' = [conn EXCEPT ![p] = life]
    /\ reg' = [reg EXCEPT ![p] = "check"]
    /\ UNCHANGED <<config, service, plug, bound, answer, met, raced, call>>

(***************************************************************************)
(* The service, on binder threads.                                         *)
(***************************************************************************)
Answered(p, ok) ==
    answer' = IF p \in bound /\ conn[p] = life THEN [answer EXCEPT ![p] = [life |-> life, ok |-> ok]]
              ELSE answer

\* Mistake: a name that is taken is given to the next client.
Taken_never(n) == FALSE
Taken(n) == plug_name_2_client[n] # None

Sharing(p) == {q \in Proc \ {p} : reg[q] \in {"put", "putting"} /\ NameOf[q] = NameOf[p]}
Both(p, others) == IF others = {} THEN {} ELSE others \cup {p}

regiest_callback_check(p) ==
    /\ reg[p] = "check"
    /\ IF Taken(NameOf[p])
       THEN reg' = [reg EXCEPT ![p] = "none"] /\ Answered(p, FALSE) /\ UNCHANGED raced
       ELSE /\ reg' = [reg EXCEPT ![p] = "put"]
            /\ raced' = raced \cup Both(p, Sharing(p))
            /\ UNCHANGED answer
    /\ UNCHANGED <<config, service, plug, bound, conn, met, call>>

\* HashMap.put begins: it reads the table, or finds that there is none yet.
Putting(p) == {q \in Proc \ {p} : reg[q] = "putting"}

regiest_callback_put(p) ==
    /\ reg[p] = "put"
    /\ reg' = [reg EXCEPT ![p] = "putting"]
    /\ met' = [q \in Proc |-> IF q = p THEN Putting(p)
                              ELSE IF q \in Putting(p) THEN met[q] \cup {p} ELSE met[q]]
    /\ raced' = raced \cup Both(p, Putting(p))
    /\ UNCHANGED <<config, service, plug, bound, conn, answer, call>>

\* It ends.  Two puts that overlap may each make the first table, or write one
\* bucket: the entry of one is lost, even after its put has returned.
HandleName(p) == NameOf[p]

regiest_callback_return(p) ==
    LET n == NameOf[p]
    IN  /\ reg[p] = "putting"
        /\ reg' = [reg EXCEPT ![p] = "none"]
        /\ met' = [met EXCEPT ![p] = {}]
        /\ service_handle_2_plug_name' = [service_handle_2_plug_name EXCEPT !["binder"] = HandleName(p)]
        /\ \E lost \in SUBSET (IF met[p] = {} THEN {} ELSE met[p] \cup {p}) :
              plug_name_2_client' = [m \in Name |->
                  IF m = n /\ p \notin lost THEN p
                  ELSE IF plug_name_2_client[m] \in lost THEN None ELSE plug_name_2_client[m]]
        /\ call' = [c \in Caller |-> [call[c] EXCEPT !.changed = @ \/ plug_name_2_client[n] = None]]
        /\ Answered(p, TRUE)
        /\ UNCHANGED <<config, life, up, plug, bound, conn, raced>>

\* The result of a command stays until the caller's next one.
Free(c) == up /\ call[c].op = "none"
Alive(p) == p \in bound

\* due is the history of the clients that were in the table when the command began.
ctrl_xposed_plug(c, n) ==
    /\ Free(c)
    /\ call' = [call EXCEPT ![c] =
                  IF plug_name_2_client[n] = None THEN [NoCall EXCEPT !.ret = "false"]
                  ELSE [NoCall EXCEPT !.op = "one", !.name = n, !.due = {plug_name_2_client[n]}]]
    /\ UNCHANGED <<config, service, plug, binding>>

\* get and on_callback: a dead client throws DeadObjectException, a missing one is a
\* NullPointerException.
ctrl_xposed_plug_get(c) ==
    LET p == plug_name_2_client[call[c].name]
    IN  /\ call[c].op = "one"
        /\ call' = [call EXCEPT ![c] = [NoCall EXCEPT !.due = call[c].due,
              !.ret = IF p = None THEN "null" ELSE IF Alive(p) THEN "true" ELSE "thrown",
              !.got = IF p # None /\ Alive(p) THEN {p} ELSE {}]]
        /\ UNCHANGED <<config, service, plug, binding>>

Registered == {plug_name_2_client[n] : n \in Name} \ {None}

ctrl_service(c) ==
    /\ Free(c)
    /\ call' = [call EXCEPT ![c] = [NoCall EXCEPT !.op = "all", !.todo = Registered,
                                    !.due = Registered]]
    /\ UNCHANGED <<config, service, plug, binding>>

\* Mistake: the exception of a client is caught, and the loop goes on.
DeadEnds_never == FALSE
DeadEnds == TRUE

\* An entry holds the client it was made with, or the one a racing put has written
\* into it.  After a put in the meantime the iterator throws, unless the thread does
\* not see the new modCount; then it may meet the new entries as well.
Entry(p) == {p, plug_name_2_client[NameOf[p]]} \ {None}
Met(c) == (UNION {Entry(p) : p \in call[c].todo}) \cup (IF call[c].changed THEN Registered ELSE {})
Behind(c, p) == {q \in call[c].todo : NameOf[q] # NameOf[p]}

ctrl_service_next(c, p) ==
    /\ call[c].op = "all" /\ p \in Met(c) /\ p \notin call[c].got
    /\ IF Alive(p)
       THEN call' = [call EXCEPT ![c] = [call[c] EXCEPT !.todo = Behind(c, p), !.got = @ \cup {p}]]
       ELSE call' = [call EXCEPT ![c] =
                IF DeadEnds THEN [NoCall EXCEPT !.ret = "thrown"]
                ELSE [call[c] EXCEPT !.todo = Behind(c, p)]]
    /\ UNCHANGED <<config, service, plug, binding>>

\* The entry has been lost from the table that the loop walks.
ctrl_service_misses(c, p) ==
    /\ call[c].op = "all" /\ p \in call[c].todo /\ plug_name_2_client[NameOf[p]] # p
    /\ call' = [call EXCEPT ![c] = [@ EXCEPT !.todo = Behind(c, p)]]
    /\ UNCHANGED <<config, service, plug, binding>>

ctrl_service_modified(c) ==
    /\ call[c].op = "all" /\ call[c].changed /\ call[c].todo # {}
    /\ call' = [call EXCEPT ![c] = [NoCall EXCEPT !.ret = "thrown"]]
    /\ UNCHANGED <<config, service, plug, binding>>

ctrl_service_return(c) ==
    /\ call[c].op = "all" /\ call[c].todo = {}
    /\ call' = [call EXCEPT ![c] = [@ EXCEPT !.op = "none", !.ret = "true"]]
    /\ UNCHANGED <<config, service, plug, binding>>

Next ==
    \/ HostStart \/ HostDie
    \/ \E s \in Setting : onItemClick(s)
    \/ save_file_write \/ save_file_fails
    \/ \E p \in Proc :
          \/ load_plug_config(p) \/ load_file_read(p) \/ load_file_throws(p)
          \/ performLaunchActivity(p) \/ Die(p)
          \/ onServiceConnected(p)
          \/ regiest_callback_check(p) \/ regiest_callback_put(p) \/ regiest_callback_return(p)
    \/ \E c \in Caller :
          \/ \E n \in Name : ctrl_xposed_plug(c, n)
          \/ ctrl_xposed_plug_get(c)
          \/ ctrl_service(c)
          \/ \E p \in Proc : ctrl_service_next(c, p) \/ ctrl_service_misses(c, p)
          \/ ctrl_service_modified(c) \/ ctrl_service_return(c)

Spec == Init /\ [][Next]_vars

-----------------------------------------------------------------------------
\* The type invariant.
TypeOK ==
    /\ file \in Setting \cup {None, "empty"} /\ saving \in Setting \cup {None}
    /\ saved \subseteq Setting /\ {torn, up} \subseteq BOOLEAN /\ life \in 0..MaxLife
    /\ plug_name_2_client \in [Name -> Proc \cup {None}]
    /\ service_handle_2_plug_name \in [{"binder", "intent"} -> Name \cup {None}]
    /\ pc \in [Proc -> {"off", "reading", "hooked", "plain", "dead"}]
    /\ len \in [Proc -> Setting \cup {None, "empty"}]
    /\ unread \in [Proc -> BOOLEAN] /\ is_init \in [Proc -> BOOLEAN]
    /\ bound \subseteq Proc /\ conn \in [Proc -> 0..MaxLife]
    /\ reg \in [Proc -> {"none", "check", "put", "putting"}]
    /\ answer \in [Proc -> [life : 0..MaxLife, ok : BOOLEAN]]
    /\ met \in [Proc -> SUBSET Proc] /\ raced \subseteq Proc
    /\ \A c \in Caller : /\ call[c].todo \subseteq Proc
                         /\ call[c].op \in {"none", "one", "all"}

\* A process is hooked only if its package was chosen, or if it could not read the
\* file, or read it before the first write, together with one, or after one that
\* failed or that the application did not survive.
HookedOnlyIfChosen ==
    \A p \in Proc : pc[p] = "hooked" =>
        saved \cap Contains[PackageOf[p]] # {} \/ unread[p]

\* A client that was told that it is registered is the one that gets the commands for
\* its name as long as it and the service live, unless its registration overlapped
\* another: one of the same name between test and put, or any other put.
AcceptedReachable ==
    \A p \in bound \ raced :
        up /\ answer[p] = [life |-> life, ok |-> TRUE] => plug_name_2_client[NameOf[p]] = p

\* A command or a broadcast that is not ended by a dead client or a modified table
\* has told, alive, every client (not only its name) that was in the table when
\* it began, but for those whose registration overlapped another: their entries may
\* be gone or another's, and a command then meets null.
Delivered ==
    \A c \in Caller : call[c].op = "none" /\ call[c].ret \in {"true", "null"} =>
        call[c].due \ raced \subseteq call[c].got

\* What the control window is told of its commands is true: the state is well formed,
\* and a command or broadcast reported done has reached the clients it was for.
CommandsArrive == TypeOK /\ Delivered
=============================================================================
