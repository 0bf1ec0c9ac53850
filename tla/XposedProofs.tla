---------------------------- MODULE XposedProofs ----------------------------
(***************************************************************************)
(* The loader, the service and its commands, for any number of processes,  *)
(* names, settings and callers.                                            *)
(***************************************************************************)
EXTENDS Xposed, TLAPS

Text == Setting \cup {None, "empty"}

Call == [op: {"none", "one", "all"}, name: Name \cup {None}, todo: SUBSET Proc,
         due: SUBSET Proc, got: SUBSET Proc, changed: BOOLEAN,
         ret: {"none", "false", "true", "null", "thrown"}]

ConfigType ==
    /\ file \in Text /\ saving \in Setting \cup {None} /\ saved \in SUBSET Setting
    /\ torn \in BOOLEAN
    /\ pc \in [Proc -> {"off", "reading", "hooked", "plain", "dead"}]
    /\ len \in [Proc -> Text]
    /\ unread \in [Proc -> BOOLEAN] /\ is_init \in [Proc -> BOOLEAN]

ServiceType ==
    /\ life \in 0..MaxLife /\ up \in BOOLEAN
    /\ plug_name_2_client \in [Name -> Proc \cup {None}]
    /\ service_handle_2_plug_name \in [{"binder", "intent"} -> Name \cup {None}]
    /\ bound \in SUBSET Proc /\ conn \in [Proc -> 0..MaxLife]
    /\ reg \in [Proc -> {"none", "check", "put", "putting"}]
    /\ answer \in [Proc -> [life: 0..MaxLife, ok: BOOLEAN]]
    /\ met \in [Proc -> SUBSET Proc] /\ raced \in SUBSET Proc

CallType == call \in [Caller -> Call]

\* What is in the file was chosen, and it is left empty only by a death or a failure.
FileRight ==
    /\ file \in Setting => file \in saved
    /\ saving # None => saving \in saved
    /\ file = "empty" => saving # None \/ torn

\* A process that reads the file undisturbed sees one version of it.
ReadRight ==
    \A p \in Proc : pc[p] = "reading" =>
        /\ file # None
        /\ ~unread[p] => file = len[p] /\ saving = None /\ ~torn

ConfigInv == ConfigType /\ FileRight /\ ReadRight /\ HookedOnlyIfChosen

\* Registrations under the same name that are under way together have raced, and so
\* has the client that one of them finds under its name; so have puts that met.
UnderWay(p) == reg[p] \in {"put", "putting"}

PutsApart ==
    /\ \A p, q \in Proc :
          p # q /\ UnderWay(p) /\ UnderWay(q) /\ NameOf[p] = NameOf[q] => p \in raced
    /\ \A p \in Proc : UnderWay(p) => plug_name_2_client[NameOf[p]] \in raced \cup {None}
    /\ \A p \in Proc : met[p] # {} => met[p] \cup {p} \subseteq raced

\* A client stands under its own name.
NamesRight == \A n \in Name : plug_name_2_client[n] # None => NameOf[plug_name_2_client[n]] = n

\* onUnbind never finds the Intent among its keys.
NothingRemoved == service_handle_2_plug_name["intent"] = None

\* Answers are of this life or an earlier one, and only a bound process holds one.
AnswersPast ==
    /\ \A p \in Proc : answer[p].life <= life
    /\ \A p \in Proc : answer[p].ok => p \in bound

ServiceInv ==
    ServiceType /\ PutsApart /\ NamesRight /\ NothingRemoved /\ AnswersPast /\ AcceptedReachable

\* A command for one client has seen it; a broadcast knows whom it has still to tell.
\* What raced is exempt.
Owed(k, p) == p \in k.todo /\ plug_name_2_client[NameOf[p]] = p

Right(k) ==
    /\ k.op = "one" => k.name \in Name /\ k.due \ raced \subseteq {plug_name_2_client[k.name]}
    /\ k.op = "all" => /\ \A p \in k.due \ raced : p \in k.got \/ Owed(k, p)
                       /\ \A p, q \in k.todo : NameOf[p] = NameOf[q] => p = q
    /\ k.op = "none" /\ k.ret \in {"true", "null"} => k.due \ raced \subseteq k.got

CallRight(c) == Right(call[c])

CallInv == CallType /\ \A c \in Caller : CallRight(c)

XposedInv == ConfigInv /\ ServiceInv /\ CallInv

-----------------------------------------------------------------------------
(* The configuration file and the loader.                                  *)

\* Steps that do not touch the file, and the loaders only by taking a process away.
LEMMA ConfigFrame ==
    ASSUME ConfigInv,
           UNCHANGED <<file, saved, len>>,
           is_init' \in [Proc -> BOOLEAN],
           \/ UNCHANGED <<saving, torn>>
           \/ saving' = None /\ torn' = (torn \/ saving # None),
           UNCHANGED <<pc, unread>>
    PROVE  ConfigInv'
  <1>1. ConfigType'
    BY DEF ConfigInv, ConfigType
  <1>2. FileRight'
    BY DEF ConfigInv, FileRight
  <1>3. ReadRight'
    BY DEF ConfigInv, ReadRight
  <1>4. HookedOnlyIfChosen'
    BY DEF ConfigInv, HookedOnlyIfChosen
  <1> QED
    BY <1>1, <1>2, <1>3, <1>4 DEF ConfigInv

\* save_plug_config truncates the file under the eyes of those who read it.
LEMMA ClickKeepsConfig ==
    ASSUME ConfigInv, NEW s \in Setting, onItemClick(s) PROVE ConfigInv'
  <1>1. /\ saving = None /\ saving' = s /\ saved' = saved \cup {s} /\ file' = "empty"
        /\ unread' = [p \in Proc |-> unread[p] \/ pc[p] = "reading"]
        /\ UNCHANGED <<torn, pc, len, is_init>>
    BY DEF onItemClick
  <1>2. s # None /\ "empty" \notin Setting /\ "empty" # None
    BY PlugAssumption
  <1>3. ConfigType'
    BY <1>1 DEF ConfigInv, ConfigType, Text
  <1>4. FileRight'
    BY <1>1, <1>2 DEF FileRight
  <1>5. ReadRight'
    BY <1>1, <1>2 DEF ConfigInv, ReadRight
  <1>6. HookedOnlyIfChosen'
    BY <1>1 DEF ConfigInv, ConfigType, HookedOnlyIfChosen
  <1> QED
    BY <1>3, <1>4, <1>5, <1>6 DEF ConfigInv

LEMMA SaveKeepsConfig ==
    ASSUME ConfigInv, save_file_write PROVE ConfigInv'
  <1>1. /\ saving # None /\ file' = saving /\ saving' = None
        /\ torn' = FALSE
        /\ UNCHANGED <<saved, pc, len, unread, is_init>>
    BY DEF save_file_write, plug
  <1>2. saving \in Setting /\ "empty" \notin Setting
    BY <1>1, PlugAssumption DEF ConfigInv, ConfigType
  <1>3. ConfigType'
    BY <1>1, <1>2 DEF ConfigInv, ConfigType, Text
  <1>4. FileRight'
    BY <1>1, <1>2 DEF ConfigInv, FileRight
  <1>5. ReadRight'
    BY <1>1 DEF ConfigInv, ReadRight
  <1>6. HookedOnlyIfChosen'
    BY <1>1 DEF ConfigInv, HookedOnlyIfChosen
  <1> QED
    BY <1>3, <1>4, <1>5, <1>6 DEF ConfigInv

\* A write that fails leaves an empty file behind, for which torn stands.
LEMMA SaveFailsKeepsConfig ==
    ASSUME ConfigInv, save_file_fails PROVE ConfigInv'
  <1>1. /\ saving # None /\ saving' = None /\ torn' = TRUE
        /\ UNCHANGED <<file, saved, pc, len, unread, is_init>>
    BY DEF save_file_fails, plug
  <1>2. torn' = (torn \/ saving # None)
    BY <1>1
  <1>3. is_init' \in [Proc -> BOOLEAN]
    BY <1>1 DEF ConfigInv, ConfigType
  <1> QED
    BY <1>1, <1>2, <1>3, ConfigFrame

\* handleLoadPackage of a new process.
LEMMA LoadKeepsConfig ==
    ASSUME ConfigInv, NEW p \in Proc, load_plug_config(p) PROVE ConfigInv'
  <1>1. pc[p] = "off" /\ UNCHANGED <<file, saving, saved, torn, is_init>>
    BY DEF load_plug_config, config
  <1>2. PICK canRead \in BOOLEAN :
           /\ unread' = [unread EXCEPT ![p] = ~canRead \/ file = None \/ saving # None \/ torn]
           /\ IF file = None \/ ~canRead
              THEN pc' = [pc EXCEPT ![p] = "hooked"] /\ UNCHANGED len
              ELSE pc' = [pc EXCEPT ![p] = "reading"] /\ len' = [len EXCEPT ![p] = file]
    BY DEF load_plug_config
  <1>3. ConfigType'
    <2>1. unread' \in [Proc -> BOOLEAN]
      BY <1>2 DEF ConfigInv, ConfigType
    <2>2. len' \in [Proc -> Text] /\ pc' \in [Proc -> {"off", "reading", "hooked", "plain", "dead"}]
      BY <1>2 DEF ConfigInv, ConfigType
    <2> QED
      BY <1>1, <2>1, <2>2 DEF ConfigInv, ConfigType
  <1>4. FileRight'
    BY <1>1 DEF ConfigInv, FileRight
  <1>5. /\ \A q \in Proc : q # p => pc'[q] = pc[q] /\ unread'[q] = unread[q] /\ len'[q] = len[q]
        /\ ~unread'[p] => canRead /\ file # None /\ saving = None /\ ~torn
        /\ file = None \/ ~canRead => pc'[p] = "hooked"
        /\ file # None /\ canRead => pc'[p] = "reading" /\ len'[p] = file
    BY <1>1, <1>2 DEF ConfigInv, ConfigType
  <1>6. ReadRight'
    BY <1>1, <1>5 DEF ConfigInv, ReadRight
  <1>7. HookedOnlyIfChosen'
    BY <1>1, <1>5 DEF ConfigInv, HookedOnlyIfChosen
  <1> QED
    BY <1>3, <1>4, <1>6, <1>7 DEF ConfigInv

\* The text of the file decides; an undisturbed read of a whole file is one of a
\* setting that was chosen.
LEMMA ReadKeepsConfig ==
    ASSUME ConfigInv, NEW p \in Proc, load_file_read(p) PROVE ConfigInv'
  <1>1. PICK null \in BOOLEAN :
           /\ len[p] = "empty" => null
           /\ file = len[p] /\ len[p] # "empty" => ~null
           /\ pc' = [pc EXCEPT ![p] =
                  IF null \/ (file = len[p] /\ Chosen(PackageOf[p], file)) THEN "hooked"
                  ELSE "plain"]
    BY DEF load_file_read
  <1>2. /\ pc[p] = "reading"
        /\ len' = [len EXCEPT ![p] = None]
        /\ unread' = [unread EXCEPT ![p] = (unread[p] /\ pc'[p] = "hooked")]
        /\ UNCHANGED <<file, saving, saved, torn, is_init>>
    BY DEF load_file_read, config, ConfigInv, ConfigType
  <1>3. ConfigType'
    <2>1. unread' \in [Proc -> BOOLEAN]
      BY <1>2 DEF ConfigInv, ConfigType
    <2>2. len' \in [Proc -> Text] /\ pc' \in [Proc -> {"off", "reading", "hooked", "plain", "dead"}]
      BY <1>1, <1>2 DEF ConfigInv, ConfigType, Text
    <2> QED
      BY <1>2, <2>1, <2>2 DEF ConfigInv, ConfigType
  <1>4. FileRight'
    BY <1>2 DEF ConfigInv, FileRight
  <1>5. /\ \A q \in Proc : q # p => pc'[q] = pc[q] /\ unread'[q] = unread[q] /\ len'[q] = len[q]
        /\ pc'[p] \in {"hooked", "plain"}
        /\ pc'[p] = "hooked" => null \/ (file = len[p] /\ Chosen(PackageOf[p], file))
        /\ pc'[p] = "hooked" => (unread'[p] <=> unread[p])
    <2>1. /\ \A q \in Proc : q # p => pc'[q] = pc[q] /\ unread'[q] = unread[q] /\ len'[q] = len[q]
          /\ pc'[p] \in {"hooked", "plain"}
          /\ pc'[p] = "hooked" => null \/ (file = len[p] /\ Chosen(PackageOf[p], file))
      BY <1>1, <1>2 DEF ConfigInv, ConfigType
    <2>2. unread'[p] = (unread[p] /\ pc'[p] = "hooked")
      BY <1>2 DEF ConfigInv, ConfigType
    <2> QED
      BY <2>1, <2>2
  <1>6. ReadRight'
    BY <1>2, <1>5 DEF ConfigInv, ReadRight
  <1>7. ASSUME pc'[p] = "hooked", ~unread[p]
        PROVE  saved \cap Contains[PackageOf[p]] # {}
    <2>1. file = len[p] /\ saving = None /\ file # "empty"
      BY <1>2, <1>7 DEF ConfigInv, ReadRight, FileRight
    <2>2. file \in Contains[PackageOf[p]]
      BY <1>1, <1>5, <1>7, <2>1 DEF Chosen
    <2>3. file \in Setting
      BY <2>2, PlugAssumption DEF Package
    <2> QED
      BY <2>2, <2>3 DEF ConfigInv, FileRight
  <1>8. HookedOnlyIfChosen'
    BY <1>2, <1>5, <1>7 DEF ConfigInv, HookedOnlyIfChosen
  <1> QED
    BY <1>3, <1>4, <1>6, <1>8 DEF ConfigInv

LEMMA ReadThrowsKeepsConfig ==
    ASSUME ConfigInv, NEW p \in Proc, load_file_throws(p) PROVE ConfigInv'
  <1>1. /\ pc' = [pc EXCEPT ![p] = "hooked"] /\ unread' = [unread EXCEPT ![p] = TRUE]
        /\ len' = [len EXCEPT ![p] = None]
        /\ UNCHANGED <<file, saving, saved, torn, is_init>>
    BY DEF load_file_throws, config
  <1>2. ConfigType'
    BY <1>1 DEF ConfigInv, ConfigType, Text
  <1>3. FileRight' /\ ReadRight' /\ HookedOnlyIfChosen'
    BY <1>1 DEF ConfigInv, ConfigType, FileRight, ReadRight, HookedOnlyIfChosen
  <1> QED
    BY <1>2, <1>3 DEF ConfigInv

LEMMA DieKeepsConfig ==
    ASSUME ConfigInv, NEW p \in Proc, Die(p) PROVE ConfigInv'
  <1>1. /\ pc' = [pc EXCEPT ![p] = "dead"]
        /\ unread' = [unread EXCEPT ![p] = FALSE]
        /\ is_init' = [is_init EXCEPT ![p] = FALSE]
        /\ UNCHANGED <<file, saving, saved, torn, len>>
    BY DEF Die, config
  <1>2. ConfigType'
    BY <1>1 DEF ConfigInv, ConfigType
  <1>3. FileRight' /\ ReadRight' /\ HookedOnlyIfChosen'
    BY <1>1 DEF ConfigInv, ConfigType, FileRight, ReadRight, HookedOnlyIfChosen
  <1> QED
    BY <1>2, <1>3 DEF ConfigInv

LEMMA ConfigStep == ConfigInv /\ [Next]_vars => ConfigInv'
  <1> SUFFICES ASSUME ConfigInv, [Next]_vars PROVE ConfigInv'
    OBVIOUS
  <1>0. is_init \in [Proc -> BOOLEAN]
    BY DEF ConfigInv, ConfigType
  <1>1. CASE UNCHANGED <<config, plug>>
    BY <1>0, <1>1, ConfigFrame DEF config, plug
  <1>2. CASE HostStart
    BY <1>1, <1>2 DEF HostStart
  <1>3. CASE HostDie
    BY <1>0, <1>3, ConfigFrame DEF HostDie, plug
  <1>4. ASSUME NEW p \in Proc, performLaunchActivity(p) PROVE ConfigInv'
    <2>1. is_init' \in [Proc -> BOOLEAN]
      BY <1>0, <1>4 DEF performLaunchActivity
    <2> QED
      BY <1>4, <2>1, ConfigFrame DEF performLaunchActivity, config
  <1>5. ASSUME NEW p \in Proc,
               \/ onServiceConnected(p) \/ regiest_callback_check(p)
               \/ regiest_callback_put(p) \/ regiest_callback_return(p)
        PROVE  ConfigInv'
    BY <1>1, <1>5 DEF onServiceConnected, regiest_callback_check, regiest_callback_put,
                      regiest_callback_return
  <1>6. ASSUME NEW c \in Caller,
               \/ \E n \in Name : ctrl_xposed_plug(c, n)
               \/ ctrl_xposed_plug_get(c) \/ ctrl_service(c)
               \/ \E p \in Proc : ctrl_service_next(c, p) \/ ctrl_service_misses(c, p)
               \/ ctrl_service_modified(c) \/ ctrl_service_return(c)
        PROVE  ConfigInv'
    BY <1>1, <1>6 DEF ctrl_xposed_plug, ctrl_service_next, ctrl_xposed_plug_get, ctrl_service,
                      ctrl_service_misses, ctrl_service_modified, ctrl_service_return
  <1>7. CASE UNCHANGED vars
    BY <1>1, <1>7 DEF vars
  <1> QED
    BY <1>2, <1>3, <1>4, <1>5, <1>6, <1>7, ClickKeepsConfig, SaveKeepsConfig,
       SaveFailsKeepsConfig, LoadKeepsConfig, ReadKeepsConfig, ReadThrowsKeepsConfig,
       DieKeepsConfig DEF Next

-----------------------------------------------------------------------------
(* The registrations of the service.                                       *)

\* An answer is written down for a connected process only.
LEMMA AnsweredType ==
    ASSUME ServiceType, AnswersPast, NEW p \in Proc, NEW ok \in BOOLEAN, Answered(p, ok)
    PROVE  /\ answer' \in [Proc -> [life: 0..MaxLife, ok: BOOLEAN]]
           /\ \A q \in Proc : answer'[q].life <= life /\ (answer'[q].ok => q \in bound)
           /\ \A q \in Proc : q # p => answer'[q] = answer[q]
           /\ answer'[p] = answer[p] \/ answer'[p] = [life |-> life, ok |-> ok]
  <1>1. CASE p \in bound /\ conn[p] = life
    <2>1. answer' = [answer EXCEPT ![p] = [life |-> life, ok |-> ok]]
      BY <1>1 DEF Answered
    <2>2. life \in 0..MaxLife /\ [life |-> life, ok |-> ok] \in [life: 0..MaxLife, ok: BOOLEAN]
      BY DEF ServiceType
    <2>3. answer' \in [Proc -> [life: 0..MaxLife, ok: BOOLEAN]]
      BY <2>1, <2>2 DEF ServiceType
    <2>4. /\ \A q \in Proc : q # p => answer'[q] = answer[q]
          /\ answer'[p] = [life |-> life, ok |-> ok]
      BY <2>1 DEF ServiceType
    <2>5. answer'[p].life = life
      BY <2>4
    <2>6. life <= life
      BY <2>2
    <2> QED
      BY <1>1, <2>3, <2>4, <2>5, <2>6 DEF AnswersPast
  <1>2. CASE ~(p \in bound /\ conn[p] = life)
    BY <1>2 DEF Answered, ServiceType, AnswersPast
  <1> QED
    BY <1>1, <1>2

\* Every answer is older than the life that starts.
LEMMA StartKeepsService ==
    ASSUME ServiceInv, HostStart PROVE ServiceInv'
  <1>1. /\ life < MaxLife /\ life' = life + 1 /\ up' = TRUE
        /\ UNCHANGED <<plug_name_2_client, service_handle_2_plug_name, bound, conn, reg, answer, met, raced>>
    BY DEF HostStart, binding
  <1>2. life \in Nat /\ MaxLife \in Nat /\ life' \in 0..MaxLife
    BY <1>1, PlugAssumption DEF ServiceInv, ServiceType
  <1>3. ServiceType'
    BY <1>1, <1>2 DEF ServiceInv, ServiceType
  <1>4. PutsApart' /\ NamesRight' /\ NothingRemoved'
    BY <1>1 DEF ServiceInv, PutsApart, UnderWay, NamesRight, NothingRemoved
  <1>5. ASSUME NEW p \in Proc PROVE answer[p].life \in Nat /\ answer[p].life < life'
    BY <1>1, <1>2 DEF ServiceInv, ServiceType, AnswersPast
  <1>6. AnswersPast'
    BY <1>1, <1>2, <1>5 DEF ServiceInv, AnswersPast
  <1>7. AcceptedReachable'
    <2> SUFFICES ASSUME NEW p \in bound PROVE answer[p] # [life |-> life', ok |-> TRUE]
      BY <1>1 DEF AcceptedReachable
    <2>1. p \in Proc
      BY DEF ServiceInv, ServiceType
    <2>2. answer[p].life # life'
      BY <1>2, <1>5, <2>1
    <2> QED
      BY <2>2
  <1> QED
    BY <1>3, <1>4, <1>6, <1>7 DEF ServiceInv

\* With the process go its maps and the registrations under way.
LEMMA HostDieKeepsService ==
    ASSUME ServiceInv, HostDie PROVE ServiceInv'
  <1>1. /\ up' = FALSE
        /\ plug_name_2_client' = NoClients /\ service_handle_2_plug_name' = NoHandles
        /\ conn' = [p \in Proc |-> 0] /\ reg' = [p \in Proc |-> "none"]
        /\ met' = NoPuts /\ raced' = {}
        /\ UNCHANGED <<life, bound, answer>>
    BY DEF HostDie
  <1>2. 0 \in 0..MaxLife
    BY PlugAssumption
  <1>3. ServiceType'
    BY <1>1, <1>2 DEF ServiceInv, ServiceType, NoClients, NoHandles, NoPuts
  <1>4. PutsApart' /\ NamesRight'
    BY <1>1 DEF PutsApart, UnderWay, NamesRight, NoClients, NoPuts
  <1>5. NothingRemoved'
    BY <1>1 DEF NothingRemoved, NoHandles
  <1>6. AnswersPast' /\ AcceptedReachable'
    BY <1>1 DEF ServiceInv, AnswersPast, AcceptedReachable
  <1> QED
    BY <1>3, <1>4, <1>5, <1>6 DEF ServiceInv

\* The process that binds has no answer yet.
LEMMA LaunchKeepsService ==
    ASSUME ServiceInv, NEW p \in Proc, performLaunchActivity(p) PROVE ServiceInv'
  <1>1. /\ bound' = bound \cup {p}
        /\ UNCHANGED <<life, up, plug_name_2_client, service_handle_2_plug_name, conn, reg,
                       answer, met, raced>>
    BY DEF performLaunchActivity, service
  <1>2. ServiceType'
    BY <1>1 DEF ServiceInv, ServiceType
  <1>3. PutsApart' /\ NamesRight' /\ NothingRemoved' /\ AnswersPast'
    BY <1>1 DEF ServiceInv, PutsApart, UnderWay, NamesRight, NothingRemoved, AnswersPast
  <1>4. AcceptedReachable'
    <2> SUFFICES ASSUME NEW q \in bound', up,
                        answer[q] = [life |-> life, ok |-> TRUE], q \notin raced
                 PROVE  plug_name_2_client[NameOf[q]] = q
      BY <1>1 DEF AcceptedReachable
    <2>1. q \in Proc /\ answer[q].ok
      BY <1>1 DEF ServiceInv, ServiceType
    <2>2. q \in bound
      BY <2>1 DEF ServiceInv, AnswersPast
    <2> QED
      BY <2>2 DEF ServiceInv, AcceptedReachable
  <1> QED
    BY <1>2, <1>3, <1>4 DEF ServiceInv

\* onUnbind looks for a key that is not there.
LEMMA UnbindRemovesNothing ==
    ASSUME ServiceInv, NEW p \in Proc, Die(p)
    PROVE  UNCHANGED <<service_handle_2_plug_name, plug_name_2_client>>
  <1>1. CASE up /\ bound = {p}
    <2>1. /\ service_handle_2_plug_name' = [service_handle_2_plug_name EXCEPT !["intent"] = None]
          /\ plug_name_2_client' = [n \in Name |-> IF n = service_handle_2_plug_name["intent"] THEN None
                                                   ELSE plug_name_2_client[n]]
      BY <1>1 DEF Die, onUnbind
    <2>2. None \notin Name
      BY PlugAssumption
    <2>3. service_handle_2_plug_name' = service_handle_2_plug_name
      BY <2>1 DEF ServiceInv, ServiceType, NothingRemoved
    <2>4. plug_name_2_client' = plug_name_2_client
      BY <2>1, <2>2 DEF ServiceInv, ServiceType, NothingRemoved
    <2> QED
      BY <2>3, <2>4
  <1>2. CASE ~(up /\ bound = {p})
    BY <1>2 DEF Die
  <1> QED
    BY <1>1, <1>2

LEMMA DieKeepsService ==
    ASSUME ServiceInv, NEW p \in Proc, Die(p) PROVE ServiceInv'
  <1>1. /\ bound' = bound \ {p} /\ conn' = [conn EXCEPT ![p] = 0]
        /\ answer' = [answer EXCEPT ![p] = NoAnswer]
        /\ UNCHANGED <<life, up, reg, met, raced, plug_name_2_client, service_handle_2_plug_name>>
    BY UnbindRemovesNothing DEF Die
  <1>2. 0 \in 0..MaxLife /\ NoAnswer \in [life: 0..MaxLife, ok: BOOLEAN]
    BY PlugAssumption DEF NoAnswer
  <1>3. ServiceType'
    BY <1>1, <1>2 DEF ServiceInv, ServiceType
  <1>4. PutsApart' /\ NamesRight' /\ NothingRemoved'
    BY <1>1 DEF ServiceInv, PutsApart, UnderWay, NamesRight, NothingRemoved
  <1>5. /\ \A q \in Proc : q # p => answer'[q] = answer[q]
        /\ answer'[p].life = 0 /\ answer'[p].ok = FALSE
    BY <1>1 DEF ServiceInv, ServiceType, NoAnswer
  <1>6. 0 <= life
    BY PlugAssumption DEF ServiceInv, ServiceType
  <1>7. AnswersPast'
    BY <1>1, <1>5, <1>6 DEF ServiceInv, AnswersPast
  <1>8. AcceptedReachable'
    BY <1>1, <1>5 DEF ServiceInv, ServiceType, AcceptedReachable
  <1> QED
    BY <1>3, <1>4, <1>7, <1>8 DEF ServiceInv

LEMMA ConnectKeepsService ==
    ASSUME ServiceInv, NEW p \in Proc, onServiceConnected(p) PROVE ServiceInv'
  <1>1. /\ conn' = [conn EXCEPT ![p] = life] /\ reg' = [reg EXCEPT ![p] = "check"]
        /\ UNCHANGED <<life, up, plug_name_2_client, service_handle_2_plug_name, bound, answer,
                       met, raced>>
    BY DEF onServiceConnected, service
  <1>2. ServiceType'
    BY <1>1 DEF ServiceInv, ServiceType
  <1>3. PutsApart'
    BY <1>1 DEF ServiceInv, ServiceType, PutsApart, UnderWay
  <1>4. NamesRight' /\ NothingRemoved' /\ AnswersPast' /\ AcceptedReachable'
    BY <1>1 DEF ServiceInv, NamesRight, NothingRemoved, AnswersPast, AcceptedReachable
  <1> QED
    BY <1>2, <1>3, <1>4 DEF ServiceInv

\* A registration passes its test only while the name is free; if another one has
\* passed it as well, both have raced.
LEMMA CheckKeepsService ==
    ASSUME ServiceInv, NEW p \in Proc, regiest_callback_check(p) PROVE ServiceInv'
  <1>0. UNCHANGED <<life, up, plug_name_2_client, service_handle_2_plug_name, bound, conn, met>>
    BY DEF regiest_callback_check, service
  <1>1. CASE Taken(NameOf[p])
    <2>1. reg' = [reg EXCEPT ![p] = "none"] /\ Answered(p, FALSE) /\ raced' = raced
      BY <1>1 DEF regiest_callback_check
    <2>2. /\ answer' \in [Proc -> [life: 0..MaxLife, ok: BOOLEAN]]
          /\ \A q \in Proc : answer'[q].life <= life /\ (answer'[q].ok => q \in bound)
          /\ \A q \in Proc : q # p => answer'[q] = answer[q]
          /\ answer'[p] = answer[p] \/ answer'[p] = [life |-> life, ok |-> FALSE]
      BY <2>1, AnsweredType DEF ServiceInv
    <2>3. ServiceType'
      BY <1>0, <2>1, <2>2 DEF ServiceInv, ServiceType
    <2>4. PutsApart'
      BY <1>0, <2>1 DEF ServiceInv, ServiceType, PutsApart, UnderWay
    <2>5. NamesRight' /\ NothingRemoved' /\ AnswersPast'
      BY <1>0, <2>2 DEF ServiceInv, NamesRight, NothingRemoved, AnswersPast
    <2>6. [life |-> life, ok |-> FALSE] # [life |-> life, ok |-> TRUE]
      OBVIOUS
    <2>7. AcceptedReachable'
      <3> SUFFICES ASSUME NEW q \in bound, up,
                          answer'[q] = [life |-> life, ok |-> TRUE], q \notin raced
                   PROVE  plug_name_2_client[NameOf[q]] = q
        BY <1>0, <2>1 DEF AcceptedReachable
      <3>1. answer'[q] = answer[q]
        BY <2>2, <2>6 DEF ServiceInv, ServiceType
      <3> QED
        BY <3>1 DEF ServiceInv, AcceptedReachable
    <2> QED
      BY <2>3, <2>4, <2>5, <2>7 DEF ServiceInv
  <1>2. CASE ~Taken(NameOf[p])
    <2>1. /\ reg' = [reg EXCEPT ![p] = "put"] /\ answer' = answer
          /\ raced' = raced \cup Both(p, Sharing(p))
      BY <1>2 DEF regiest_callback_check
    <2>2. raced' \in SUBSET Proc /\ raced \subseteq raced'
      BY <2>1 DEF ServiceInv, ServiceType, Both, Sharing
    <2>3. ServiceType'
      BY <1>0, <2>1, <2>2 DEF ServiceInv, ServiceType
    <2>4. /\ reg'[p] = "put" /\ \A q \in Proc : q # p => reg'[q] = reg[q]
          /\ plug_name_2_client[NameOf[p]] = None
      BY <1>2, <2>1 DEF ServiceInv, ServiceType, Taken
    <2>5. ASSUME NEW q \in Proc, q # p, UnderWay(q), NameOf[q] = NameOf[p]
          PROVE  p \in raced' /\ q \in raced'
      BY <2>1, <2>5 DEF Both, Sharing, UnderWay
    <2>6. PutsApart'
      <3>1. ASSUME NEW q \in Proc, NEW t \in Proc, q # t, UnderWay(q)', UnderWay(t)',
                   NameOf[q] = NameOf[t]
            PROVE  q \in raced'
        BY <2>2, <2>4, <2>5, <3>1 DEF ServiceInv, PutsApart, UnderWay
      <3>2. ASSUME NEW q \in Proc, UnderWay(q)'
            PROVE  plug_name_2_client'[NameOf[q]] \in raced' \cup {None}
        BY <1>0, <2>2, <2>4, <3>2 DEF ServiceInv, PutsApart, UnderWay
      <3>3. ASSUME NEW q \in Proc, met'[q] # {} PROVE met'[q] \cup {q} \subseteq raced'
        BY <1>0, <2>2, <3>3 DEF ServiceInv, PutsApart
      <3> QED
        BY <3>1, <3>2, <3>3 DEF PutsApart
    <2>7. NamesRight' /\ NothingRemoved' /\ AnswersPast' /\ AcceptedReachable'
      BY <1>0, <2>1, <2>2 DEF ServiceInv, NamesRight, NothingRemoved, AnswersPast, AcceptedReachable
    <2> QED
      BY <2>3, <2>6, <2>7 DEF ServiceInv
  <1> QED
    BY <1>1, <1>2

\* Puts that overlap know each other from the moment the second begins.
LEMMA PutKeepsService ==
    ASSUME ServiceInv, NEW p \in Proc, regiest_callback_put(p) PROVE ServiceInv'
  <1>1. /\ reg[p] = "put" /\ reg' = [reg EXCEPT ![p] = "putting"]
        /\ met' = [q \in Proc |-> IF q = p THEN Putting(p)
                                  ELSE IF q \in Putting(p) THEN met[q] \cup {p} ELSE met[q]]
        /\ raced' = raced \cup Both(p, Putting(p))
        /\ UNCHANGED <<life, up, plug_name_2_client, service_handle_2_plug_name, bound, conn, answer>>
    BY DEF regiest_callback_put, service
  <1>2. /\ Putting(p) \subseteq Proc /\ raced' \in SUBSET Proc /\ raced \subseteq raced'
        /\ Putting(p) # {} => Putting(p) \cup {p} \subseteq raced'
    BY <1>1 DEF ServiceInv, ServiceType, Both, Putting
  <1>3. met' \in [Proc -> SUBSET Proc]
    BY <1>1, <1>2 DEF ServiceInv, ServiceType
  <1>4. ServiceType'
    BY <1>1, <1>2, <1>3 DEF ServiceInv, ServiceType
  <1>5. \A q \in Proc : UnderWay(q)' <=> UnderWay(q)
    BY <1>1 DEF ServiceInv, ServiceType, UnderWay
  <1>6. ASSUME NEW q \in Proc, met'[q] # {} PROVE met'[q] \cup {q} \subseteq raced'
    <2>1. CASE q = p
      BY <1>1, <1>2, <1>6, <2>1
    <2>2. CASE q # p /\ q \in Putting(p)
      <3>1. met'[q] = met[q] \cup {p} /\ met[q] \subseteq raced
        BY <1>1, <2>2 DEF ServiceInv, PutsApart
      <3> QED
        BY <1>2, <2>2, <3>1
    <2>3. CASE q # p /\ q \notin Putting(p)
      BY <1>1, <1>2, <1>6, <2>3 DEF ServiceInv, PutsApart
    <2> QED
      BY <2>1, <2>2, <2>3
  <1>7. PutsApart'
    <2>1. ASSUME NEW q \in Proc, NEW t \in Proc, q # t, UnderWay(q), UnderWay(t), NameOf[q] = NameOf[t]
          PROVE  q \in raced'
      BY <1>2, <2>1 DEF ServiceInv, PutsApart
    <2>2. ASSUME NEW q \in Proc, UnderWay(q)
          PROVE  plug_name_2_client'[NameOf[q]] \in raced' \cup {None}
      BY <1>1, <1>2, <2>2 DEF ServiceInv, PutsApart
    <2> QED
      BY <1>5, <1>6, <2>1, <2>2 DEF PutsApart
  <1>8. NamesRight' /\ NothingRemoved' /\ AnswersPast' /\ AcceptedReachable'
    BY <1>1, <1>2 DEF ServiceInv, NamesRight, NothingRemoved, AnswersPast, AcceptedReachable
  <1> QED
    BY <1>4, <1>7, <1>8 DEF ServiceInv

\* What the end of a put does to the table: it loses clients that raced only.
LEMMA ReturnTable ==
    ASSUME ServiceInv, NEW p \in Proc, regiest_callback_return(p)
    PROVE  /\ plug_name_2_client' \in [Name -> Proc \cup {None}]
           /\ p \notin raced => plug_name_2_client'[NameOf[p]] = p
           /\ plug_name_2_client'[NameOf[p]] \in {p, None, plug_name_2_client[NameOf[p]]}
           /\ \A n \in Name : n # NameOf[p] =>
                 \/ plug_name_2_client'[n] = plug_name_2_client[n]
                 \/ plug_name_2_client'[n] = None /\ plug_name_2_client[n] \in raced
  <1> DEFINE L == IF met[p] = {} THEN {} ELSE met[p] \cup {p}
  <1>1. PICK lost \in SUBSET L :
            plug_name_2_client' = [m \in Name |->
                IF m = NameOf[p] /\ p \notin lost THEN p
                ELSE IF plug_name_2_client[m] \in lost THEN None ELSE plug_name_2_client[m]]
    BY DEF regiest_callback_return
  <1>2. lost \subseteq raced
    <2>1. L \subseteq raced
      BY DEF ServiceInv, PutsApart
    <2> QED
      BY <2>1
  <1> HIDE DEF L
  <1>3. NameOf[p] \in Name
    BY DEF Name
  <1>4. plug_name_2_client' \in [Name -> Proc \cup {None}]
    BY <1>1 DEF ServiceInv, ServiceType
  <1>5. p \notin raced => plug_name_2_client'[NameOf[p]] = p
    BY <1>1, <1>2, <1>3
  <1>6. plug_name_2_client'[NameOf[p]] \in {p, None, plug_name_2_client[NameOf[p]]}
    BY <1>1, <1>3
  <1>7. ASSUME NEW n \in Name, n # NameOf[p]
        PROVE  \/ plug_name_2_client'[n] = plug_name_2_client[n]
               \/ plug_name_2_client'[n] = None /\ plug_name_2_client[n] \in raced
    BY <1>1, <1>2, <1>7
  <1> QED
    BY <1>4, <1>5, <1>6, <1>7

\* A registration that did not race takes a name that is still free, from nobody.
LEMMA ReturnKeepsService ==
    ASSUME ServiceInv, NEW p \in Proc, regiest_callback_return(p) PROVE ServiceInv'
  <1>1. /\ reg[p] = "putting" /\ reg' = [reg EXCEPT ![p] = "none"]
        /\ met' = [met EXCEPT ![p] = {}]
        /\ service_handle_2_plug_name' = [service_handle_2_plug_name EXCEPT !["binder"] = NameOf[p]]
        /\ Answered(p, TRUE)
        /\ UNCHANGED <<life, up, bound, conn, raced>>
    BY DEF regiest_callback_return, HandleName
  <1>2. NameOf[p] \in Name /\ None \notin Proc /\ \A q \in Proc : NameOf[q] \in Name
    BY PlugAssumption DEF Name
  <1>3. /\ answer' \in [Proc -> [life: 0..MaxLife, ok: BOOLEAN]]
        /\ \A q \in Proc : answer'[q].life <= life /\ (answer'[q].ok => q \in bound)
        /\ \A q \in Proc : q # p => answer'[q] = answer[q]
    BY <1>1, AnsweredType DEF ServiceInv
  <1>4. /\ plug_name_2_client' \in [Name -> Proc \cup {None}]
        /\ p \notin raced => plug_name_2_client'[NameOf[p]] = p
        /\ plug_name_2_client'[NameOf[p]] \in {p, None, plug_name_2_client[NameOf[p]]}
        /\ \A n \in Name : n # NameOf[p] =>
              \/ plug_name_2_client'[n] = plug_name_2_client[n]
              \/ plug_name_2_client'[n] = None /\ plug_name_2_client[n] \in raced
    BY ReturnTable
  <1>5. ServiceType'
    BY <1>1, <1>2, <1>3, <1>4 DEF ServiceInv, ServiceType
  <1>6. reg'[p] = "none" /\ \A q \in Proc : q # p => reg'[q] = reg[q]
    BY <1>1 DEF ServiceInv, ServiceType
  <1>7. PutsApart'
    <2>1. ASSUME NEW q \in Proc, NEW t \in Proc, q # t, UnderWay(q)', UnderWay(t)', NameOf[q] = NameOf[t]
          PROVE  q \in raced'
      BY <1>1, <1>6, <2>1 DEF ServiceInv, PutsApart, UnderWay
    <2>2. ASSUME NEW q \in Proc, UnderWay(q)'
          PROVE  plug_name_2_client'[NameOf[q]] \in raced' \cup {None}
      <3>1. q # p /\ UnderWay(q) /\ UnderWay(p)
        BY <1>1, <1>6, <2>2 DEF UnderWay
      <3>2. plug_name_2_client[NameOf[q]] \in raced \cup {None}
        BY <3>1 DEF ServiceInv, PutsApart
      <3>3. CASE NameOf[q] = NameOf[p]
        <4>1. p \in raced
          BY <3>1, <3>3 DEF ServiceInv, PutsApart
        <4> QED
          BY <1>1, <1>4, <3>2, <3>3, <4>1
      <3>4. CASE NameOf[q] # NameOf[p]
        BY <1>1, <1>2, <1>4, <3>2, <3>4
      <3> QED
        BY <3>3, <3>4
    <2>3. ASSUME NEW q \in Proc, met'[q] # {} PROVE met'[q] \cup {q} \subseteq raced'
      <3>1. met'[q] = met[q]
        BY <1>1, <2>3 DEF ServiceInv, ServiceType
      <3> QED
        BY <1>1, <2>3, <3>1 DEF ServiceInv, PutsApart
    <2> QED
      BY <2>1, <2>2, <2>3 DEF PutsApart
  <1>8. NamesRight'
    <2> SUFFICES ASSUME NEW n \in Name, plug_name_2_client'[n] # None
                 PROVE  NameOf[plug_name_2_client'[n]] = n
      BY DEF NamesRight
    <2>1. CASE n = NameOf[p]
      BY <1>4, <2>1 DEF ServiceInv, NamesRight
    <2>2. CASE n # NameOf[p]
      BY <1>4, <2>2 DEF ServiceInv, NamesRight
    <2> QED
      BY <2>1, <2>2
  <1>9. NothingRemoved'
    BY <1>1 DEF ServiceInv, ServiceType, NothingRemoved
  <1>10. AnswersPast'
    BY <1>1, <1>3 DEF AnswersPast
  <1>11. AcceptedReachable'
    <2> SUFFICES ASSUME NEW q \in bound, up,
                        answer'[q] = [life |-> life, ok |-> TRUE], q \notin raced
                 PROVE  plug_name_2_client'[NameOf[q]] = q
      BY <1>1 DEF AcceptedReachable
    <2>1. CASE q = p
      BY <1>4, <2>1
    <2>2. CASE q # p
      <3>1. q \in Proc /\ answer'[q] = answer[q]
        BY <1>3, <2>2 DEF ServiceInv, ServiceType
      <3>2. plug_name_2_client[NameOf[q]] = q /\ q # None
        BY <3>1, <1>2 DEF ServiceInv, AcceptedReachable
      <3>3. UnderWay(p)
        BY <1>1 DEF UnderWay
      <3>4. NameOf[q] # NameOf[p]
        BY <3>2, <3>3 DEF ServiceInv, PutsApart
      <3> QED
        BY <1>2, <1>4, <3>1, <3>2, <3>4
    <2> QED
      BY <2>1, <2>2
  <1> QED
    BY <1>5, <1>7, <1>8, <1>9, <1>10, <1>11 DEF ServiceInv

LEMMA ServiceStep == ServiceInv /\ [Next]_vars => ServiceInv'
  <1> SUFFICES ASSUME ServiceInv, [Next]_vars PROVE ServiceInv'
    OBVIOUS
  <1>1. CASE UNCHANGED <<service, binding>>
    <2>1. UNCHANGED <<life, up, plug_name_2_client, service_handle_2_plug_name, bound, conn, reg,
                      answer, met, raced>>
      BY <1>1 DEF service, binding
    <2>2. ServiceType'
      BY <2>1 DEF ServiceInv, ServiceType
    <2>3. PutsApart' /\ NamesRight' /\ NothingRemoved'
      BY <2>1 DEF ServiceInv, PutsApart, UnderWay, NamesRight, NothingRemoved
    <2>4. AnswersPast' /\ AcceptedReachable'
      BY <2>1 DEF ServiceInv, AnswersPast, AcceptedReachable
    <2> QED
      BY <2>2, <2>3, <2>4 DEF ServiceInv
  <1>2. CASE save_file_write \/ save_file_fails \/ \E s \in Setting : onItemClick(s)
    BY <1>1, <1>2 DEF save_file_write, save_file_fails, onItemClick
  <1>3. ASSUME NEW p \in Proc, load_plug_config(p) \/ load_file_read(p) \/ load_file_throws(p)
        PROVE  ServiceInv'
    BY <1>1, <1>3 DEF load_plug_config, load_file_read, load_file_throws
  <1>4. ASSUME NEW c \in Caller,
               \/ \E n \in Name : ctrl_xposed_plug(c, n)
               \/ ctrl_xposed_plug_get(c) \/ ctrl_service(c)
               \/ \E p \in Proc : ctrl_service_next(c, p) \/ ctrl_service_misses(c, p)
               \/ ctrl_service_modified(c) \/ ctrl_service_return(c)
        PROVE  ServiceInv'
    BY <1>1, <1>4 DEF ctrl_xposed_plug, ctrl_service_next, ctrl_xposed_plug_get, ctrl_service,
                      ctrl_service_misses, ctrl_service_modified, ctrl_service_return
  <1>5. CASE UNCHANGED vars
    BY <1>1, <1>5 DEF vars
  <1> QED
    BY <1>2, <1>3, <1>4, <1>5, StartKeepsService, HostDieKeepsService, LaunchKeepsService,
       DieKeepsService, ConnectKeepsService, CheckKeepsService, PutKeepsService,
       ReturnKeepsService DEF Next

-----------------------------------------------------------------------------
(* The commands.                                                           *)

LEMMA NoCallType == NoCall \in Call
  BY DEF NoCall, Call

\* A client that has not raced stays under its name.
ClientsStay ==
    /\ raced \subseteq raced'
    /\ \A n \in Name : plug_name_2_client[n] \in Proc \ raced' =>
                          plug_name_2_client'[n] = plug_name_2_client[n]

\* What a command knows stays right while the clients stay.
LEMMA RightStays ==
    ASSUME ClientsStay, ServiceType, NEW k \in Call, Right(k)
    PROVE  /\ k.op = "one" => k.name \in Name /\ k.due \ raced' \subseteq {plug_name_2_client'[k.name]}
           /\ k.op = "all" =>
                 /\ \A p \in k.due \ raced' :
                       p \in k.got \/ (p \in k.todo /\ plug_name_2_client'[NameOf[p]] = p)
                 /\ \A p, q \in k.todo : NameOf[p] = NameOf[q] => p = q
           /\ k.op = "none" /\ k.ret \in {"true", "null"} => k.due \ raced' \subseteq k.got
  <1>1. k.due \subseteq Proc /\ raced \subseteq raced'
    BY DEF Call, ClientsStay
  <1>2. ASSUME k.op = "one", NEW p \in k.due \ raced' PROVE p = plug_name_2_client'[k.name]
    <2>1. k.name \in Name /\ p = plug_name_2_client[k.name]
      BY <1>1, <1>2 DEF Right
    <2> QED
      BY <1>1, <1>2, <2>1 DEF ClientsStay
  <1>3. ASSUME k.op = "all", NEW p \in k.due \ raced', p \notin k.got
        PROVE  p \in k.todo /\ plug_name_2_client'[NameOf[p]] = p
    <2>1. p \in k.todo /\ plug_name_2_client[NameOf[p]] = p
      BY <1>1, <1>3 DEF Right, Owed
    <2>2. NameOf[p] \in Name
      BY <1>1, <1>3 DEF Name
    <2> QED
      BY <1>1, <1>3, <2>1, <2>2 DEF ClientsStay
  <1>4. k.op = "one" => k.name \in Name
    BY DEF Right
  <1>5. k.op = "all" => \A p, q \in k.todo : NameOf[p] = NameOf[q] => p = q
    BY DEF Right
  <1>6. k.op = "none" /\ k.ret \in {"true", "null"} => k.due \ raced' \subseteq k.got
    BY <1>1 DEF Right
  <1> QED
    BY <1>2, <1>3, <1>4, <1>5, <1>6

\* Steps that leave the commands alone take no client away.
LEMMA CallFrame ==
    ASSUME CallInv, ServiceType, call' = call, ClientsStay PROVE CallInv'
  <1>1. ASSUME NEW c \in Caller PROVE CallRight(c)'
    <2>1. call[c] \in Call /\ Right(call[c]) /\ call'[c] = call[c]
      BY DEF CallInv, CallType, CallRight
    <2> QED
      BY <2>1, RightStays DEF CallRight, Right, Owed
  <1> QED
    BY <1>1 DEF CallInv, CallType

\* A step of one caller that leaves the clients alone.
LEMMA CallOfOne ==
    ASSUME CallInv, NEW c \in Caller, NEW k \in Call, call' = [call EXCEPT ![c] = k],
           UNCHANGED <<plug_name_2_client, raced>>, Right(k)
    PROVE  CallInv'
  <1>1. CallType'
    BY DEF CallInv, CallType
  <1>2. call'[c] = k /\ \A d \in Caller : d # c => call'[d] = call[d]
    BY DEF CallInv, CallType
  <1>3. ASSUME NEW d \in Caller PROVE CallRight(d)'
    <2>1. CASE d = c
      BY <1>2, <2>1 DEF CallRight, Right, Owed
    <2>2. CASE d # c
      BY <1>2, <2>2 DEF CallInv, CallRight, Right, Owed
    <2> QED
      BY <2>1, <2>2
  <1> QED
    BY <1>1, <1>3 DEF CallInv

\* A new client changes no command but for the mark of the iterator.
LEMMA ReturnKeepsCalls ==
    ASSUME CallInv, ServiceInv, NEW p \in Proc, regiest_callback_return(p) PROVE CallInv'
  <1> DEFINE K(c) == [call[c] EXCEPT !.changed = @ \/ plug_name_2_client[NameOf[p]] = None]
  <1>1. call' = [c \in Caller |-> K(c)] /\ reg[p] = "putting" /\ raced' = raced
    BY DEF regiest_callback_return
  <1>2. ASSUME NEW c \in Caller
        PROVE  /\ K(c) \in Call
               /\ K(c).op = call[c].op /\ K(c).name = call[c].name /\ K(c).todo = call[c].todo
               /\ K(c).due = call[c].due /\ K(c).got = call[c].got /\ K(c).ret = call[c].ret
    <2>1. call[c] \in Call
      BY DEF CallInv, CallType
    <2>2. (call[c].changed \/ plug_name_2_client[NameOf[p]] = None) \in BOOLEAN
      OBVIOUS
    <2> QED
      BY <2>1, <2>2 DEF Call
  <1> HIDE DEF K
  <1>3. CallType'
    BY <1>1, <1>2 DEF CallType
  <1>4. ClientsStay
    <2>1. ASSUME NEW n \in Name, plug_name_2_client[n] \in Proc \ raced
          PROVE  plug_name_2_client'[n] = plug_name_2_client[n]
      <3>1. UnderWay(p) /\ None \notin Proc
        BY <1>1, PlugAssumption DEF UnderWay
      <3>2. n # NameOf[p]
        BY <2>1, <3>1 DEF ServiceInv, PutsApart
      <3> QED
        BY <2>1, <3>2, ReturnTable
    <2> QED
      BY <1>1, <2>1 DEF ClientsStay
  <1>5. ASSUME NEW c \in Caller PROVE CallRight(c)'
    <2>1. call'[c] = K(c)
      BY <1>1
    <2>2. call[c] \in Call /\ Right(call[c]) /\ ServiceType
      BY DEF CallInv, CallType, CallRight, ServiceInv
    <2>3. /\ call'[c].op = call[c].op /\ call'[c].name = call[c].name /\ call'[c].todo = call[c].todo
          /\ call'[c].due = call[c].due /\ call'[c].got = call[c].got /\ call'[c].ret = call[c].ret
      BY <1>2, <2>1
    <2> QED
      BY <1>4, <2>2, <2>3, RightStays DEF CallRight, Right, Owed
  <1> QED
    BY <1>3, <1>5 DEF CallInv

LEMMA CommandKeepsCalls ==
    ASSUME CallInv, ServiceInv, NEW c \in Caller, NEW n \in Name, ctrl_xposed_plug(c, n)
    PROVE  CallInv'
  <1> DEFINE k == IF plug_name_2_client[n] = None THEN [NoCall EXCEPT !.ret = "false"]
                  ELSE [NoCall EXCEPT !.op = "one", !.name = n, !.due = {plug_name_2_client[n]}]
  <1>1. call' = [call EXCEPT ![c] = k] /\ UNCHANGED <<plug_name_2_client, raced>>
    BY DEF ctrl_xposed_plug, service, binding
  <1>2. plug_name_2_client[n] \in Proc \cup {None}
    BY DEF ServiceInv, ServiceType
  <1>3. /\ k \in Call
        /\ k.op = "one" => k.name = n /\ k.due = {plug_name_2_client[n]}
        /\ k.op \in {"one", "none"} /\ k.ret \in {"none", "false"}
    BY <1>2 DEF NoCall, Call
  <1> HIDE DEF k
  <1>4. Right(k)
    BY <1>3 DEF Right
  <1> QED
    BY <1>1, <1>3, <1>4, CallOfOne

\* The client that the test saw is still there, or it raced.
LEMMA GetKeepsCalls ==
    ASSUME CallInv, ServiceInv, NEW c \in Caller, ctrl_xposed_plug_get(c) PROVE CallInv'
  <1>1. PICK p : p = plug_name_2_client[call[c].name]
    OBVIOUS
  <1> DEFINE r == IF p = None THEN "null" ELSE IF Alive(p) THEN "true" ELSE "thrown"
             g == IF p # None /\ Alive(p) THEN {p} ELSE {}
             k == [NoCall EXCEPT !.due = call[c].due, !.ret = r, !.got = g]
  <1>2. /\ call[c].op = "one" /\ call' = [call EXCEPT ![c] = k]
        /\ UNCHANGED <<plug_name_2_client, raced>>
    BY <1>1 DEF ctrl_xposed_plug_get, service, binding
  <1>3. /\ call[c].name \in Name /\ call[c].due \ raced \subseteq {p} /\ call[c].due \in SUBSET Proc
    BY <1>1, <1>2 DEF CallInv, CallType, CallRight, Right, Call
  <1>4. p \in Proc \cup {None} /\ None \notin Proc
    BY <1>1, <1>3, PlugAssumption DEF ServiceInv, ServiceType
  <1>5. k \in Call /\ k.op = "none" /\ k.due = call[c].due /\ k.ret = r /\ k.got = g
    BY <1>3, <1>4 DEF NoCall, Call
  <1>6. r \in {"true", "null"} => call[c].due \ raced \subseteq g
    BY <1>3, <1>4
  <1> HIDE DEF k, r, g
  <1>7. Right(k)
    BY <1>5, <1>6 DEF Right
  <1> QED
    BY <1>2, <1>5, <1>7, CallOfOne

LEMMA BroadcastKeepsCalls ==
    ASSUME CallInv, ServiceInv, NEW c \in Caller, ctrl_service(c) PROVE CallInv'
  <1> DEFINE k == [NoCall EXCEPT !.op = "all", !.todo = Registered, !.due = Registered]
  <1>1. call' = [call EXCEPT ![c] = k] /\ UNCHANGED <<plug_name_2_client, raced>>
    BY DEF ctrl_service, service, binding
  <1>2. \A p \in Registered : p \in Proc /\ plug_name_2_client[NameOf[p]] = p
    BY DEF Registered, ServiceInv, ServiceType, NamesRight
  <1>3. Registered \in SUBSET Proc
    BY <1>2
  <1>4. k \in Call /\ k.op = "all" /\ k.due = Registered /\ k.todo = Registered
    BY <1>3 DEF NoCall, Call
  <1> HIDE DEF k
  <1>5. Right(k)
    <2>1. \A p \in Registered : Owed(k, p)
      BY <1>2, <1>4 DEF Owed
    <2>2. \A p, q \in Registered : NameOf[p] = NameOf[q] => p = q
      BY <1>2
    <2> QED
      BY <1>4, <2>1, <2>2 DEF Right
  <1> QED
    BY <1>1, <1>4, <1>5, CallOfOne

\* Who is met stands in the table under the name of an entry, or is that entry.
LEMMA MetIsEntry ==
    ASSUME ServiceInv, NEW c \in Caller, call[c] \in Call, NEW p \in Met(c)
    PROVE  p \in Proc /\ (p \in call[c].todo \/ plug_name_2_client[NameOf[p]] = p)
  <1>1. call[c].todo \subseteq Proc /\ \A q \in Proc : NameOf[q] \in Name
    BY DEF Call, Name
  <1>2. CASE p \in Registered
    BY <1>2 DEF Registered, ServiceInv, ServiceType, NamesRight
  <1>3. CASE \E q \in call[c].todo : p \in Entry(q)
    <2>1. PICK q \in call[c].todo : p \in Entry(q)
      BY <1>3
    <2>2. p = q \/ (p = plug_name_2_client[NameOf[q]] /\ p # None)
      BY <2>1 DEF Entry
    <2>3. plug_name_2_client[NameOf[q]] \in Proc \cup {None} /\ NameOf[q] \in Name
      BY <1>1 DEF ServiceInv, ServiceType
    <2> QED
      BY <1>1, <2>2, <2>3 DEF ServiceInv, NamesRight
  <1>4. p \in Registered \/ \E q \in call[c].todo : p \in Entry(q)
    BY DEF Met
  <1> QED
    BY <1>2, <1>3, <1>4

\* Whoever leaves the list of a broadcast was told, or had raced.
LEMMA ListShrinks ==
    ASSUME NEW c \in Caller, NEW p, NEW k,
           Right(call[c]), call[c].op = "all",
           p \in call[c].todo \/ plug_name_2_client[NameOf[p]] = p,
           k.op = "all", k.due = call[c].due, k.todo = Behind(c, p),
           call[c].got \subseteq k.got,
           p \in k.got \/ plug_name_2_client[NameOf[p]] # p
    PROVE  Right(k)
  <1>1. ASSUME NEW q \in k.due \ raced, q \notin k.got PROVE Owed(k, q)
    <2>1. q \in call[c].todo /\ plug_name_2_client[NameOf[q]] = q
      BY <1>1 DEF Right, Owed
    <2>2. NameOf[q] # NameOf[p]
      <3>1. CASE plug_name_2_client[NameOf[p]] = p
        BY <1>1, <2>1, <3>1
      <3>2. CASE p \in call[c].todo
        <4>1. NameOf[q] = NameOf[p] => q = p
          BY <2>1, <3>2 DEF Right
        <4> QED
          BY <1>1, <2>1, <4>1
      <3> QED
        BY <3>1, <3>2
    <2>3. q \in Behind(c, p)
      BY <2>1, <2>2 DEF Behind
    <2> QED
      BY <2>1, <2>3 DEF Owed
  <1>2. \A q, t \in k.todo : NameOf[q] = NameOf[t] => q = t
    BY DEF Right, Behind
  <1> QED
    BY <1>1, <1>2 DEF Right

LEMMA NextKeepsCalls ==
    ASSUME CallInv, ServiceInv, NEW c \in Caller, NEW p \in Proc, ctrl_service_next(c, p)
    PROVE  CallInv'
  <1>0. /\ call[c] \in Call /\ Right(call[c]) /\ call[c].op = "all" /\ p \in Met(c)
        /\ UNCHANGED <<plug_name_2_client, raced>>
    BY DEF CallInv, CallType, CallRight, ctrl_service_next, service, binding
  <1>1. CASE Alive(p)
    <2> DEFINE k == [call[c] EXCEPT !.todo = Behind(c, p), !.got = @ \cup {p}]
    <2>1. call' = [call EXCEPT ![c] = k]
      BY <1>1 DEF ctrl_service_next, CallInv, CallType
    <2>2. Behind(c, p) \in SUBSET Proc
      BY <1>0 DEF Behind, Call
    <2>3. /\ k \in Call /\ k.op = "all" /\ k.due = call[c].due
          /\ k.todo = Behind(c, p) /\ k.got = call[c].got \cup {p}
      BY <1>0, <2>2 DEF Call
    <2> HIDE DEF k
    <2>4. p \in call[c].todo \/ plug_name_2_client[NameOf[p]] = p
      BY <1>0, MetIsEntry
    <2>5. call[c].got \subseteq k.got /\ p \in k.got
      BY <2>3
    <2>6. Right(k)
      BY <1>0, <2>3, <2>4, <2>5, ListShrinks
    <2> QED
      BY <1>0, <2>1, <2>3, <2>6, CallOfOne
  <1>2. CASE ~Alive(p)
    <2> DEFINE k == [NoCall EXCEPT !.ret = "thrown"]
    <2>1. call' = [call EXCEPT ![c] = k]
      BY <1>2 DEF ctrl_service_next, DeadEnds
    <2>2. k \in Call /\ k.op = "none" /\ k.ret = "thrown"
      BY DEF NoCall, Call
    <2> HIDE DEF k
    <2>3. Right(k)
      BY <2>2 DEF Right
    <2> QED
      BY <1>0, <2>1, <2>2, <2>3, CallOfOne
  <1> QED
    BY <1>1, <1>2

LEMMA MissKeepsCalls ==
    ASSUME CallInv, ServiceInv, NEW c \in Caller, NEW p \in Proc, ctrl_service_misses(c, p)
    PROVE  CallInv'
  <1>0. /\ call[c] \in Call /\ Right(call[c]) /\ call[c].op = "all" /\ p \in call[c].todo
        /\ plug_name_2_client[NameOf[p]] # p
        /\ UNCHANGED <<plug_name_2_client, raced>>
    BY DEF CallInv, CallType, CallRight, ctrl_service_misses, service, binding
  <1> DEFINE k == [call[c] EXCEPT !.todo = Behind(c, p)]
  <1>1. call' = [call EXCEPT ![c] = k]
    BY DEF ctrl_service_misses, CallInv, CallType
  <1>2. Behind(c, p) \in SUBSET Proc
    BY <1>0 DEF Behind, Call
  <1>3. k \in Call /\ k.op = "all" /\ k.due = call[c].due /\ k.todo = Behind(c, p) /\ k.got = call[c].got
    BY <1>0, <1>2 DEF Call
  <1> HIDE DEF k
  <1>4. Right(k)
    BY <1>0, <1>3, ListShrinks
  <1> QED
    BY <1>0, <1>1, <1>3, <1>4, CallOfOne

LEMMA ModifiedKeepsCalls ==
    ASSUME CallInv, NEW c \in Caller, ctrl_service_modified(c) PROVE CallInv'
  <1> DEFINE k == [NoCall EXCEPT !.ret = "thrown"]
  <1>1. call' = [call EXCEPT ![c] = k] /\ UNCHANGED <<plug_name_2_client, raced>>
    BY DEF ctrl_service_modified, service, binding
  <1>2. k \in Call /\ k.op = "none" /\ k.ret = "thrown"
    BY DEF NoCall, Call
  <1> HIDE DEF k
  <1>3. Right(k)
    BY <1>2 DEF Right
  <1> QED
    BY <1>1, <1>2, <1>3, CallOfOne

LEMMA BroadcastEndKeepsCalls ==
    ASSUME CallInv, NEW c \in Caller, ctrl_service_return(c) PROVE CallInv'
  <1>0. call[c] \in Call /\ Right(call[c]) /\ call[c].op = "all" /\ call[c].todo = {}
    BY DEF CallInv, CallType, CallRight, ctrl_service_return
  <1> DEFINE k == [call[c] EXCEPT !.op = "none", !.ret = "true"]
  <1>1. call' = [call EXCEPT ![c] = k] /\ UNCHANGED <<plug_name_2_client, raced>>
    BY DEF ctrl_service_return, service, binding, CallInv, CallType
  <1>2. k \in Call /\ k.op = "none" /\ k.ret = "true" /\ k.due = call[c].due /\ k.got = call[c].got
    BY <1>0 DEF Call
  <1>3. call[c].due \ raced \subseteq call[c].got
    BY <1>0 DEF Right, Owed
  <1> HIDE DEF k
  <1>4. Right(k)
    BY <1>2, <1>3 DEF Right
  <1> QED
    BY <1>1, <1>2, <1>4, CallOfOne

LEMMA CallStep == CallInv /\ ServiceInv /\ [Next]_vars => CallInv'
  <1> SUFFICES ASSUME CallInv, ServiceInv, [Next]_vars PROVE CallInv'
    OBVIOUS
  <1>0. ServiceType
    BY DEF ServiceInv
  <1>1. CASE call' = call /\ UNCHANGED plug_name_2_client /\ raced \subseteq raced'
    BY <1>0, <1>1, CallFrame DEF ClientsStay
  <1>2. CASE HostStart \/ save_file_write \/ save_file_fails \/ \E s \in Setting : onItemClick(s)
    BY <1>1, <1>2 DEF HostStart, save_file_write, save_file_fails, onItemClick, service, binding
  <1>3. CASE HostDie
    <2>1. call' = [c \in Caller |-> NoCall]
      BY <1>3 DEF HostDie
    <2>2. CallType'
      BY <2>1, NoCallType DEF CallType
    <2>3. ASSUME NEW c \in Caller PROVE CallRight(c)'
      <3>1. call'[c].op = "none" /\ call'[c].ret = "none"
        BY <2>1 DEF NoCall
      <3> QED
        BY <3>1 DEF CallRight, Right
    <2> QED
      BY <2>2, <2>3 DEF CallInv
  <1>4. ASSUME NEW p \in Proc,
               \/ load_plug_config(p) \/ load_file_read(p) \/ load_file_throws(p)
               \/ performLaunchActivity(p) \/ onServiceConnected(p)
        PROVE  CallInv'
    BY <1>1, <1>4 DEF load_plug_config, load_file_read, load_file_throws, performLaunchActivity,
                      onServiceConnected, service, binding
  <1>5. ASSUME NEW p \in Proc, regiest_callback_check(p) \/ regiest_callback_put(p)
        PROVE  CallInv'
    BY <1>1, <1>5 DEF regiest_callback_check, regiest_callback_put, service
  <1>6. ASSUME NEW p \in Proc, Die(p) PROVE CallInv'
    <2>1. call' = call /\ raced' = raced
      BY <1>6 DEF Die
    <2> QED
      BY <1>1, <1>6, <2>1, UnbindRemovesNothing
  <1>7. CASE UNCHANGED vars
    BY <1>1, <1>7 DEF vars, service, binding
  <1> QED
    BY <1>2, <1>3, <1>4, <1>5, <1>6, <1>7, ReturnKeepsCalls, CommandKeepsCalls, GetKeepsCalls,
       BroadcastKeepsCalls, NextKeepsCalls, MissKeepsCalls, ModifiedKeepsCalls,
       BroadcastEndKeepsCalls DEF Next

-----------------------------------------------------------------------------
(* The theorems.                                                           *)

LEMMA XposedInit == Init => XposedInv
  <1> SUFFICES ASSUME Init PROVE XposedInv
    OBVIOUS
  <1>0. None \notin Setting /\ "empty" # None /\ 0 \in 0..MaxLife
    BY PlugAssumption
  <1>1. ConfigType
    BY <1>0 DEF Init, ConfigType, Text
  <1>2. FileRight /\ ReadRight /\ HookedOnlyIfChosen
    BY <1>0 DEF Init, FileRight, ReadRight, HookedOnlyIfChosen
  <1>3. ServiceType
    BY <1>0 DEF Init, ServiceType, NoClients, NoHandles, NoAnswer, NoPuts
  <1>4. PutsApart /\ NamesRight /\ NothingRemoved /\ AcceptedReachable
    BY DEF Init, PutsApart, UnderWay, NamesRight, NothingRemoved, AcceptedReachable, NoClients,
           NoHandles, NoPuts
  <1>5. AnswersPast
    BY DEF Init, AnswersPast, NoAnswer
  <1>6. CallType
    BY NoCallType DEF Init, CallType
  <1>7. ASSUME NEW c \in Caller PROVE CallRight(c)
    <2>1. call[c].op = "none" /\ call[c].ret = "none"
      BY DEF Init, NoCall
    <2> QED
      BY <2>1 DEF CallRight, Right
  <1> QED
    BY <1>1, <1>2, <1>3, <1>4, <1>5, <1>6, <1>7 DEF XposedInv, ConfigInv, ServiceInv, CallInv

LEMMA XposedInvAlways == Spec => []XposedInv
  <1>1. XposedInv /\ [Next]_vars => XposedInv'
    BY ConfigStep, ServiceStep, CallStep DEF XposedInv
  <1> QED
    BY <1>1, XposedInit, PTL DEF Spec

\* handleLoadPackage hooks no process whose package was never chosen, but for those
\* that cannot read plug_config.json, or read it before the first write, together
\* with one, or after one that failed or that the application did not survive.
THEOREM OnlyChosenHooked == Spec => []HookedOnlyIfChosen
  <1>1. XposedInv => HookedOnlyIfChosen
    BY DEF XposedInv, ConfigInv
  <1> QED
    BY <1>1, XposedInvAlways, PTL

\* A client for which regiest_callback returned true stays the client of its name
\* while it and the service live, whoever registers or dies meanwhile, unless another
\* registration of its name was between test and put with it, or another put on the
\* unlocked HashMap overlapped its own.
THEOREM AcceptedStaysReachable == Spec => []AcceptedReachable
  <1>1. XposedInv => AcceptedReachable
    BY DEF XposedInv, ServiceInv
  <1> QED
    BY <1>1, XposedInvAlways, PTL

\* The state is well formed, and ctrl_xposed_plug and ctrl_service, unless a dead
\* client or a modified table ends them with an exception, have told every client
\* that was in the table when they began, but for those whose registration raced.
THEOREM CommandsAlwaysArrive == Spec => []CommandsArrive
  <1>1. ASSUME XposedInv PROVE TypeOK
    <2>1. \A c \in Caller : call[c].todo \subseteq Proc /\ call[c].op \in {"none", "one", "all"}
      <3> SUFFICES ASSUME NEW c \in Caller
                   PROVE  call[c].todo \subseteq Proc /\ call[c].op \in {"none", "one", "all"}
        OBVIOUS
      <3>1. call[c] \in Call
        BY <1>1 DEF XposedInv, CallInv, CallType
      <3> QED
        BY <3>1 DEF Call
    <2>2. file \in Setting \cup {None, "empty"} /\ len \in [Proc -> Setting \cup {None, "empty"}]
      BY <1>1 DEF XposedInv, ConfigInv, ConfigType, Text
    <2> QED
      BY <1>1, <2>1, <2>2 DEF XposedInv, ConfigInv, ServiceInv, ConfigType, ServiceType, TypeOK
  <1>2. XposedInv => Delivered
    BY DEF XposedInv, CallInv, CallRight, Right, Delivered
  <1>3. XposedInv => CommandsArrive
    BY <1>1, <1>2 DEF CommandsArrive
  <1> QED
    BY <1>3, XposedInvAlways, PTL
=============================================================================
