----------------------------- MODULE NativeHook -----------------------------
(***************************************************************************)
(* The hooks on the native methods of the traced module: init_jni_hook,    *)
(* hook_RegisterNatives and hook_native_func of hook_jni/jni_native_hook.cpp *)
(* with the method information of hook_jni/enum_jni_static_method.cpp.     *)
(*                                                                         *)
(* A native_method_info is an object whose address is baked into the       *)
(* shellcode of a hook.  Here all of them live in the sequence infos and a *)
(* hook carries an index into it.  Statically exported functions           *)
(* (Java_pkg_Class_name) are hooked by patching their code, registered     *)
(* ones by replacing fnPtr in the table given to RegisterNatives.  The     *)
(* calls of several threads interleave: nothing here takes a lock.         *)
(***************************************************************************)
EXTENDS Naturals, Sequences, FiniteSets, SequencesExt

CONSTANTS
    Thread,
    Method,     \* Java native methods of one class
    Name,       \* Name[m]: simple name; methods with one name are overloads
    Arity,      \* Arity[m]: number of Java arguments
    Declared,   \* the methods in the order of Class.getDeclaredMethods
    BadSig,     \* methods the module registers with a malformed signature
    Func,       \* functions of the module (their addresses)
    StaticOf,   \* StaticOf[f]: the method that exported function f implements
    Override,   \* exported functions whose symbol carries the argument types
    NoFunc,
    MaxLoads,   \* bound: times the module is loaded
    MaxReg,     \* bound: methods in RegisterNatives calls
    MaxMoves    \* bound: both together

StaticFunc == DOMAIN StaticOf
Symbols == SetToSeq(StaticFunc)   \* the symbol table

ASSUME MethodAssumption ==
    /\ Name \in [Method -> STRING]
    /\ Arity \in [Method -> Nat]
    /\ Declared \in Seq(Method) /\ ToSet(Declared) = Method
    /\ BadSig \subseteq Method
ASSUME FuncAssumption ==
    /\ NoFunc \notin Func
    /\ IsFiniteSet(StaticFunc) /\ StaticFunc \subseteq Func /\ StaticOf \in [StaticFunc -> Method]
    /\ Override \subseteq StaticFunc
ASSUME BoundAssumption == {MaxLoads, MaxReg, MaxMoves} \subseteq Nat

VARIABLES
    init,       \* progress of init_jni_hook, the functions it still has to hook,
                \* whether JNI_OnLoad is patched and whether it has been called
    loads,      \* how often the module was loaded
    g_tar_module,  \* TRUE when the pointer is not null
    infos,      \* all native_method_info objects ever created
    static_jni_func_infos,  \* exported function -> its info in the current vector, 0: none
    patched,    \* exported function -> info in the context of its patch, 0: not patched
    reg_jni_func_infos,     \* infos in the vector of registered functions
    entry,      \* entry[m]: the entry point the runtime has for m
    asked,      \* history: the function the module last bound m to, and how
    reported,   \* history: <<m, f>> for which RegisterNatives logged an error
    thr,        \* what each thread is doing
    regs,       \* methods in RegisterNatives calls so far
    raced,      \* history: two threads have been in hook_RegisterNatives at once
    wild,       \* exported functions whose symbol ends where the argument types
                \* would begin
    clashed,    \* history: a thread used an info while another was rewriting it
    crashed     \* the process died

vars == <<init, loads, g_tar_module, infos, static_jni_func_infos, patched,
          reg_jni_func_infos, entry, asked, reported, thr, regs, raced, wild, clashed,
          crashed>>

\* torn: two threads wrote args_type at once, and nobody has written it since; what
\* is in it then may be anything.
Info == [method: Method, addr: Func, args: Nat, available: BOOLEAN,
         origin_call: BOOLEAN, live: BOOLEAN, torn: BOOLEAN]

\* An entry point: the shellcode of hook id, or (id = 0) the function fn.
EntryPoint == [id: Nat, fn: Func \cup {NoFunc}]
Raw(f) == [id |-> 0, fn |-> f]
Hook(i) == [id |-> i, fn |-> NoFunc]
Unbound == Raw(NoFunc)

\* The places in Declared of the methods with the name of m.
Overloads(m) == {i \in DOMAIN Declared : Name[Declared[i]] = Name[m]}

\* A thread outside the module.  pc is where it is, ctx the info that the innermost
\* hook still has to look at, rest the overloads that update_method_info has still to
\* parse; todo, fake and vec belong to RegisterNatives.
IdleThread ==
    [pc |-> "java", ctx |-> 0, rest |-> {}, todo |-> <<>>, fake |-> <<>>, vec |-> {}]

Init ==
    /\ init = [pc |-> "unloaded", todo |-> {}, patched |-> FALSE, onload |-> FALSE]
    /\ loads = 0
    /\ g_tar_module = FALSE
    /\ infos = <<>>
    /\ static_jni_func_infos = [f \in StaticFunc |-> 0]
    /\ patched = [f \in Func |-> 0]
    /\ reg_jni_func_infos = {}
    /\ entry = [m \in Method |-> Unbound]
    /\ asked = [m \in Method |-> [fn |-> NoFunc, via |-> "none"]]
    /\ reported = {}
    /\ thr = [t \in Thread |-> IdleThread]
    /\ regs = 0
    /\ raced = FALSE
    /\ wild \in SUBSET Override
    /\ clashed = FALSE
    /\ crashed = FALSE

-----------------------------------------------------------------------------
(* init_jni_hook, which analyse.js runs each time the module was loaded.   *)

HooksUnchanged == UNCHANGED <<reg_jni_func_infos, entry, asked, reported, thr,
                              regs, raced, wild, clashed>>
InitUnchanged == HooksUnchanged /\ UNCHANGED crashed
Crash == crashed' = TRUE

\* fake_dlopen may fail; g_tar_module is assigned before that is tested.
init_jni_hook ==
    /\ init.pc \in {"unloaded", "failed", "done"}
    /\ loads < MaxLoads /\ loads + regs < MaxMoves
    /\ loads' = loads + 1
    /\ \E opened \in BOOLEAN :
          /\ g_tar_module' = opened
          /\ init' = [init EXCEPT !.pc = IF opened THEN "enum" ELSE "failed"]
    /\ UNCHANGED <<infos, static_jni_func_infos, patched>>
    /\ InitUnchanged

\* What get_method_info or the symbol yields for exported function f.  Infos
\* with argument types in the symbol are never looked up and stay unavailable;
\* those of a wild symbol are what lies behind the pieces of its name.
StaticInfo(f, found) ==
    LET m == StaticOf[f] IN
    [method |-> m, addr |-> f, origin_call |-> FALSE, live |-> TRUE, torn |-> FALSE,
     args |-> CASE f \in Override \ wild -> Arity[m]
                [] f \notin Override /\ found -> Arity[Declared[Max(Overloads(m))]]
                [] OTHER -> 0,
     available |-> f \notin Override /\ found]

\* The place of exported function f in the new vector, and the mistake of
\* counting the places from one too late.
SymbolIndex_late(f) == 1 + CHOOSE i \in DOMAIN Symbols : Symbols[i] = f
SymbolIndex(f) == CHOOSE i \in DOMAIN Symbols : Symbols[i] = f

\* The new vector replaces the old one, whose elements are destroyed.  A wild symbol
\* may be refused for what is read in place of its arguments: its info hooks nothing.
enum_static_jni_func ==
    /\ init.pc = "enum"
    /\ \E found \in BOOLEAN :
          LET kept == [i \in DOMAIN infos |->
                        [infos[i] EXCEPT !.live = @ /\ i \notin
                            {static_jni_func_infos[f] : f \in StaticFunc}]]
          IN  infos' = kept \o [i \in DOMAIN Symbols |-> StaticInfo(Symbols[i], found)]
    /\ static_jni_func_infos' =
          [f \in StaticFunc |-> Len(infos) + SymbolIndex(f)]
    /\ \E refused \in SUBSET wild :
          init' = [init EXCEPT !.pc = "hook", !.todo = StaticFunc \ refused]
    /\ UNCHANGED <<loads, g_tar_module, patched>>
    /\ InitUnchanged

\* Or the read behind the pieces ends the process.
enum_static_jni_func_wild ==
    /\ init.pc = "enum"
    /\ wild # {}
    /\ Crash
    /\ UNCHANGED <<init, loads, g_tar_module, infos, static_jni_func_infos, patched>>
    /\ HooksUnchanged

\* DobbyHook refuses an address it has patched before.
DobbyHook_refuse(f) ==
    /\ init.pc = "hook" /\ f \in init.todo
    /\ patched[f] # 0
    /\ init' = [init EXCEPT !.todo = @ \ {f}]
    /\ UNCHANGED <<loads, g_tar_module, infos, static_jni_func_infos, patched>>
    /\ InitUnchanged

\* DobbyHook stores the relocated original before it commits the patch.
DobbyHook_origin(f) ==
    /\ init.pc = "hook" /\ f \in init.todo
    /\ patched[f] = 0 /\ ~infos[static_jni_func_infos[f]].origin_call
    /\ infos' = [infos EXCEPT ![static_jni_func_infos[f]].origin_call = TRUE]
    /\ UNCHANGED <<init, loads, g_tar_module, static_jni_func_infos, patched>>
    /\ InitUnchanged

\* Mistake: the patch goes live before the original is stored.
DobbyHook_commit_first(f) ==
    /\ init.pc = "hook" /\ f \in init.todo
    /\ patched[f] = 0
    /\ patched' = [patched EXCEPT ![f] = static_jni_func_infos[f]]
    /\ init' = [init EXCEPT !.todo = @ \ {f}]
    /\ UNCHANGED <<loads, g_tar_module, infos, static_jni_func_infos>>
    /\ InitUnchanged

DobbyHook_commit(f) ==
    /\ init.pc = "hook" /\ f \in init.todo
    /\ patched[f] = 0 /\ infos[static_jni_func_infos[f]].origin_call
    /\ patched' = [patched EXCEPT ![f] = static_jni_func_infos[f]]
    /\ init' = [init EXCEPT !.todo = @ \ {f}]
    /\ UNCHANGED <<loads, g_tar_module, infos, static_jni_func_infos>>
    /\ InitUnchanged

\* JNI_OnLoad is hooked last, and at a second load refused like the others.
hook_onload ==
    /\ init.pc = "hook" /\ init.todo = {}
    /\ init' = [init EXCEPT !.pc = "done", !.patched = TRUE]
    /\ UNCHANGED <<loads, g_tar_module, infos, static_jni_func_infos, patched>>
    /\ InitUnchanged

-----------------------------------------------------------------------------
(* A call of a native method from Java.                                    *)

ModuleUnchanged == UNCHANGED <<loads, g_tar_module, static_jni_func_infos, patched, wild>>
CallUnchanged == /\ ModuleUnchanged
                 /\ UNCHANGED <<init, reg_jni_func_infos, reported, regs, raced>>

\* Control reaches address f: its patch, if it has one, or the function.
AtAddress(f) ==
    IF patched[f] # 0 THEN [pc |-> "check", ctx |-> patched[f]]
                      ELSE [pc |-> "raw", ctx |-> 0]

\* The runtime binds a method without an entry point to the exported function.
LinkNative(m) ==
    /\ init.pc # "unloaded"
    /\ entry[m] = Unbound
    /\ \E f \in StaticFunc :
          /\ StaticOf[f] = m
          /\ entry' = [entry EXCEPT ![m] = Raw(f)]
          /\ asked' = [asked EXCEPT ![m] = [fn |-> f, via |-> "symbol"]]
    /\ UNCHANGED <<infos, thr, clashed, crashed>>
    /\ CallUnchanged

JavaCall(t, m) ==
    /\ thr[t].pc = "java"
    /\ entry[m] # Unbound
    /\ LET target == IF entry[m].id # 0
                     THEN [pc |-> "check", ctx |-> entry[m].id]
                     ELSE AtAddress(entry[m].fn)
       IN  thr' = [thr EXCEPT ![t].pc = target.pc, ![t].ctx = target.ctx]
    /\ UNCHANGED <<infos, entry, asked, clashed, crashed>>
    /\ CallUnchanged

\* Who else is rewriting the info that t uses, and what makes it a risk to use it: the
\* info was destroyed, is being rewritten, or was rewritten by two threads at once.
Writers(t) == {s \in Thread \ {t} : thr[s].pc = "assign" /\ thr[s].ctx = thr[t].ctx}
Unsound(t) ==
    \/ ~infos[thr[t].ctx].live
    \/ infos[thr[t].ctx].torn
    \/ Writers(t) # {}
Uses(t) == clashed' = (clashed \/ Writers(t) # {})

\* hook_native_func up to update_method_info, which gives up when neither
\* Class.forName nor FindClass knows the class.
hook_native_func(t) ==
    LET info == infos[thr[t].ctx] IN
    /\ thr[t].pc = "check"
    /\ \/ /\ info.available
          /\ thr' = [thr EXCEPT ![t].pc = "route"]
          /\ UNCHANGED <<clashed, crashed>>
       \/ /\ ~info.available
          /\ Uses(t)
          /\ \E found \in BOOLEAN :
                thr' = [thr EXCEPT ![t].pc = IF found THEN "parse" ELSE "route",
                                   ![t].rest = IF found THEN Overloads(info.method) ELSE {}]
          /\ UNCHANGED crashed
       \/ /\ Unsound(t) /\ (~info.available \/ ~info.live)
          /\ Uses(t) /\ Crash /\ UNCHANGED thr
    /\ UNCHANGED <<infos, entry, asked>>
    /\ CallUnchanged

\* update_method_info parses the declaration of every method with the name of the info.
\* That name is itself rewritten: read meanwhile, it may seem another.
update_method_info_misread(t) ==
    LET next == Min(thr[t].rest) IN
    /\ thr[t].pc = "parse"
    /\ Writers(t) # {}
    /\ clashed' = TRUE
    /\ thr' = [thr EXCEPT ![t].rest = @ \ {next},
                          ![t].pc = IF thr[t].rest = {next} THEN "route" ELSE "parse"]
    /\ UNCHANGED <<infos, entry, asked, crashed>>
    /\ CallUnchanged

\* The assignment to args_type first releases the old vector, which another thread may
\* have released already.
update_method_info_release(t) ==
    /\ thr[t].pc = "parse"
    /\ Uses(t)
    /\ \/ /\ infos' = [infos EXCEPT ![thr[t].ctx].args = 0,
                                    ![thr[t].ctx].torn = Writers(t) # {}]
          /\ thr' = [thr EXCEPT ![t].pc = "assign"]
          /\ UNCHANGED crashed
       \/ Unsound(t) /\ Crash /\ UNCHANGED <<infos, thr>>
    /\ UNCHANGED <<entry, asked>>
    /\ CallUnchanged

\* What parse_java_pretty_name leaves in the args_type of info i for method m,
\* and the mistake of splitting an empty list into one argument.
ParsedArgs_split(i, m) == IF Arity[m] = 0 THEN 1 ELSE Arity[m]
ParsedArgs(i, m) == Arity[m]

\* The new vector, whose elements are then rewritten in place.  Of one that two threads
\* write any part may be left, and the parser may take it for a failure.
update_method_info_assign(t) ==
    LET next == Min(thr[t].rest)
        i == thr[t].ctx
    IN
    /\ thr[t].pc = "assign"
    /\ Uses(t)
    /\ \/ /\ \E whole \in {TRUE} \cup {b \in BOOLEAN : infos[i].torn} :
                infos' = [infos EXCEPT
                            ![i].args = IF whole THEN ParsedArgs(i, Declared[next]) ELSE 0,
                            ![i].available = @ \/ whole]
          /\ thr' = [thr EXCEPT ![t].rest = @ \ {next},
                                ![t].pc = IF thr[t].rest = {next} THEN "route" ELSE "parse"]
          /\ UNCHANGED crashed
       \/ Unsound(t) /\ Crash /\ UNCHANGED <<infos, thr>>
    /\ UNCHANGED <<entry, asked>>
    /\ CallUnchanged

\* Where origin_call of info i leads: the relocated original of a patch, the
\* address itself of a registered function (which may be patched, being exported
\* as well).  Mistake: calling the patched address instead of the original.
OriginCall_patched(i) ==
    IF patched[infos[i].addr] = 0 THEN [pc |-> "body", ctx |-> 0]
                                  ELSE AtAddress(infos[i].addr)
OriginCall(i) ==
    IF patched[infos[i].addr] \in {0, i} THEN [pc |-> "body", ctx |-> 0]
                                         ELSE AtAddress(infos[i].addr)

\* The rest of hook_native_func: the log line reads the names and the argument types and
\* dereferences g_tar_module, then route_jni_func, the subject of RouteFunc, copies the
\* stack arguments the info speaks of and calls origin_call.
hook_native_func_route(t) ==
    LET info == infos[thr[t].ctx]
        target == OriginCall(thr[t].ctx)
    IN
    /\ thr[t].pc = "route"
    /\ Uses(t)
    /\ \/ /\ g_tar_module /\ info.origin_call
          /\ thr' = [thr EXCEPT ![t].pc = target.pc, ![t].ctx = target.ctx]
          /\ UNCHANGED crashed
       \/ /\ ~g_tar_module \/ ~info.origin_call \/ Unsound(t)
          /\ Crash /\ UNCHANGED thr
    /\ UNCHANGED <<infos, entry, asked>>
    /\ CallUnchanged

native_return(t) ==
    /\ thr[t].pc \in {"body", "raw"}
    /\ thr' = [thr EXCEPT ![t] = IdleThread]
    /\ UNCHANGED <<infos, entry, asked, clashed, crashed>>
    /\ CallUnchanged

-----------------------------------------------------------------------------
(* JNI_OnLoad and RegisterNatives.                                         *)

\* The runtime calls JNI_OnLoad once, after the first load, and with it
\* init_jni_hook, is over; a second load may have begun.  The hook passes
\* g_fake_jvm on, so the function works with g_fake_env.
hook_jni_onload(t) ==
    /\ thr[t].pc = "java"
    /\ init.pc \in {"done", "failed"} \/ loads > 1
    /\ ~init.onload
    /\ init' = [init EXCEPT !.onload = TRUE]
    /\ thr' = [thr EXCEPT ![t].pc = IF init.patched THEN "body" ELSE "raw"]
    /\ UNCHANGED <<infos, entry, asked, reg_jni_func_infos, reported, regs, raced, clashed, crashed>>
    /\ ModuleUnchanged

Batch == UNION {[1..n -> Method \X Func] :
                    n \in {k \in 1..MaxReg : regs + k <= MaxReg /\ loads + regs + k <= MaxMoves}}
Registering(t) == thr[t].pc \in {"scan", "create", "store"}

\* A function called with g_fake_env registers methods: slot 215 leads through
\* hook_other_methods, whose log line dereferences g_tar_module.
RegisterNatives(t) ==
    /\ thr[t].pc = "body"
    /\ raced' = (raced \/ \E s \in Thread : Registering(s))
    /\ \E batch \in Batch :
          /\ regs' = regs + Len(batch)
          /\ IF g_tar_module
             THEN /\ thr' = [thr EXCEPT ![t].pc = "scan", ![t].todo = batch]
                  /\ UNCHANGED crashed
             ELSE Crash /\ UNCHANGED thr
    /\ UNCHANGED <<init, infos, entry, asked, reg_jni_func_infos, reported, clashed>>
    /\ ModuleUnchanged

RegUnchanged == /\ ModuleUnchanged
                /\ UNCHANGED <<init, regs, raced, clashed>>

\* The log line of a refused entry, and the mistake of logging only one cause.
LogRefused_signature(m, f) ==
    reported' = reported \cup {r \in {<<m, f>>} : m \in BadSig}
LogRefused(m, f) == reported' = reported \cup {<<m, f>>}

\* One round of the loop: an address that some info has already, and a
\* signature that cannot be parsed, are logged and left as they are.  A scan
\* of the vector while another thread stores to it may read freed memory.
hook_RegisterNatives_scan(t) ==
    LET m == Head(thr[t].todo)[1]
        f == Head(thr[t].todo)[2]
        is_repeat == \E i \in reg_jni_func_infos : infos[i].addr = f
    IN
    /\ thr[t].pc = "scan" /\ thr[t].todo # <<>>
    /\ \/ /\ is_repeat \/ m \in BadSig
          /\ LogRefused(m, f)
          /\ thr' = [thr EXCEPT ![t].todo = Tail(@),
                                ![t].fake = Append(@, [method |-> m, fn |-> f, to |-> Raw(f)])]
          /\ UNCHANGED crashed
       \/ /\ ~is_repeat /\ m \notin BadSig
          /\ thr' = [thr EXCEPT ![t].pc = "create"]
          /\ UNCHANGED <<reported, crashed>>
       \/ /\ \E s \in Thread \ {t} : thr[s].pc = "store"
          /\ Crash
          /\ UNCHANGED <<reported, thr>>
    /\ UNCHANGED <<infos, entry, asked, reg_jni_func_infos>>
    /\ RegUnchanged

\* The new info a hook is given.
NewInfo == Len(infos) + 1

\* The info and its shellcode, whose log line dereferences g_tar_module too;
\* push_back then reads the vector ...
hook_RegisterNatives_create(t) ==
    LET m == Head(thr[t].todo)[1]
        f == Head(thr[t].todo)[2]
    IN
    /\ thr[t].pc = "create"
    /\ g_tar_module
    /\ infos' = Append(infos, [method |-> m, addr |-> f, args |-> Arity[m],
                               available |-> FALSE, origin_call |-> TRUE, live |-> TRUE,
                               torn |-> FALSE])
    /\ thr' = [thr EXCEPT ![t].pc = "store", ![t].todo = Tail(@),
                          ![t].vec = reg_jni_func_infos \cup {NewInfo},
                          ![t].fake = Append(@, [method |-> m, fn |-> f,
                                                 to |-> Hook(NewInfo)])]
    /\ UNCHANGED <<entry, asked, reg_jni_func_infos, reported, crashed>>
    /\ RegUnchanged

hook_RegisterNatives_no_module(t) ==
    /\ thr[t].pc = "create"
    /\ ~g_tar_module
    /\ Crash
    /\ UNCHANGED <<infos, entry, asked, reg_jni_func_infos, reported, thr>>
    /\ RegUnchanged

\* ... and writes it.  When another thread has stored in between, its element
\* is overwritten, or the memory written to has been freed.
hook_RegisterNatives_store(t) ==
    /\ thr[t].pc = "store"
    /\ \/ /\ reg_jni_func_infos' = thr[t].vec
          /\ thr' = [thr EXCEPT ![t].pc = "scan", ![t].vec = {}]
          /\ UNCHANGED crashed
       \/ /\ ~(reg_jni_func_infos \subseteq thr[t].vec)
          /\ Crash
          /\ UNCHANGED <<reg_jni_func_infos, thr>>
    /\ UNCHANGED <<infos, entry, asked, reported>>
    /\ RegUnchanged

\* origin_call: the runtime binds the methods in order up to the first one it
\* does not know; a malformed signature matches no method.
Bound(fake, n, m) == {i \in 1..n : fake[i].method = m}
LastBound(fake, n, m) == fake[CHOOSE i \in Bound(fake, n, m) :
                                \A j \in Bound(fake, n, m) : j <= i]

hook_RegisterNatives_origin(t) ==
    LET fake == thr[t].fake IN
    /\ thr[t].pc = "scan" /\ thr[t].todo = <<>>
    /\ \E n \in 0..Len(fake) :
          /\ \A i \in 1..n : fake[i].method \notin BadSig
          /\ entry' = [m \in Method |-> IF Bound(fake, n, m) = {} THEN entry[m]
                                        ELSE LastBound(fake, n, m).to]
          /\ asked' = [m \in Method |-> IF Bound(fake, n, m) = {} THEN asked[m]
                                        ELSE [fn |-> LastBound(fake, n, m).fn,
                                              via |-> "hook"]]
    /\ thr' = [thr EXCEPT ![t].pc = "body", ![t].fake = <<>>]
    /\ UNCHANGED <<infos, reg_jni_func_infos, reported, crashed>>
    /\ RegUnchanged

\* A function that got the real environment registers without any hook.
RegisterNatives_raw(t) ==
    /\ thr[t].pc = "raw"
    /\ regs < MaxReg /\ loads + regs < MaxMoves
    /\ regs' = regs + 1
    /\ \E m \in Method \ BadSig, f \in Func :
          /\ entry' = [entry EXCEPT ![m] = Raw(f)]
          /\ asked' = [asked EXCEPT ![m] = [fn |-> f, via |-> "raw"]]
    /\ UNCHANGED <<init, infos, reg_jni_func_infos, reported, thr, raced, clashed, crashed>>
    /\ ModuleUnchanged

-----------------------------------------------------------------------------
InitStep ==
    \/ init_jni_hook
    \/ enum_static_jni_func
    \/ enum_static_jni_func_wild
    \/ \E f \in StaticFunc : \/ DobbyHook_refuse(f)
                             \/ DobbyHook_origin(f)
                             \/ DobbyHook_commit(f)
    \/ hook_onload

\* Steps of a call that is under way.
CallStep(t) ==
    \/ hook_native_func(t)
    \/ update_method_info_misread(t)
    \/ update_method_info_release(t)
    \/ update_method_info_assign(t)
    \/ hook_native_func_route(t)
    \/ hook_RegisterNatives_scan(t)
    \/ hook_RegisterNatives_create(t)
    \/ hook_RegisterNatives_no_module(t)
    \/ hook_RegisterNatives_store(t)
    \/ hook_RegisterNatives_origin(t)

Next ==
    /\ ~crashed
    /\ \/ InitStep
       \/ \E m \in Method : LinkNative(m)
       \/ \E t \in Thread : \/ \E m \in Method : JavaCall(t, m)
                            \/ CallStep(t)
                            \/ native_return(t)
                            \/ hook_jni_onload(t)
                            \/ RegisterNatives(t)
                            \/ RegisterNatives_raw(t)

Spec == Init /\ [][Next]_vars

\* A thread that is inside a hook keeps running.
FairSpec == Spec /\ \A t \in Thread : WF_vars(~crashed /\ CallStep(t))

-----------------------------------------------------------------------------
(* Properties.                                                             *)

ThreadState ==
    [pc: {"java", "check", "parse", "assign", "route", "body", "raw",
          "scan", "create", "store"},
     ctx: Nat, rest: SUBSET DOMAIN Declared,
     todo: Seq(Method \X Func),
     fake: Seq([method: Method, fn: Func, to: EntryPoint]),
     vec: SUBSET Nat]

TypeOK ==
    /\ init \in [pc: {"unloaded", "enum", "hook", "done", "failed"},
                 todo: SUBSET StaticFunc, patched: BOOLEAN, onload: BOOLEAN]
    /\ loads \in 0..MaxLoads
    /\ g_tar_module \in BOOLEAN
    /\ infos \in Seq(Info)
    /\ static_jni_func_infos \in [StaticFunc -> 0..Len(infos)]
    /\ patched \in [Func -> 0..Len(infos)]
    /\ reg_jni_func_infos \subseteq DOMAIN infos
    /\ entry \in [Method -> EntryPoint]
    /\ asked \in [Method -> [fn: Func \cup {NoFunc},
                             via: {"none", "symbol", "hook", "raw"}]]
    /\ reported \subseteq Method \X Func
    /\ thr \in [Thread -> ThreadState]
    /\ regs \in 0..MaxReg
    /\ raced \in BOOLEAN
    /\ wild \subseteq Override
    /\ clashed \in BOOLEAN
    /\ crashed \in BOOLEAN

\* Hooking is transparent: whatever the interleaving of registrations, lost
\* elements of the vector and repeated loads, the entry point of a method leads,
\* directly or through its hook, to the function the module bound it to last.
Implements(e) == IF e.id = 0 THEN e.fn ELSE infos[e.id].addr
HookTransparent == \A m \in Method : Implements(entry[m]) = asked[m].fn

\* No silent gap: a method that went through hook_RegisterNatives and still has
\* the module's own function as its entry point was logged as a repeat or as a
\* bad signature.
GapReported ==
    \A m \in Method :
        (asked[m].via = "hook" /\ entry[m].id = 0) => <<m, entry[m].fn>> \in reported

\* What the runtime calls for a method does what the module asked for, and is hooked
\* unless the log says why not.
BindingsRight == HookTransparent /\ GapReported

\* Once no thread is in the middle of assigning it, the argument list of an
\* available info is that of a declared method with the name of its method: its
\* own when the name is not overloaded.  (With overloads it is the last parsed.)  Only
\* where two threads assigned it at once may anything be left, until one assigns it alone.
ArgsSettled ==
    \A i \in DOMAIN infos :
        (/\ infos[i].available /\ ~infos[i].torn
         /\ ~\E t \in Thread : thr[t].ctx = i /\ thr[t].pc = "assign")
            => infos[i].args \in {Arity[Declared[d]] : d \in Overloads(infos[i].method)}

\* The hooks bring the process down only after a second load of the module
\* (contexts of the first are destroyed, g_tar_module may become null), after
\* two threads were in hook_RegisterNatives at once (the unlocked vector), after a
\* thread used an info while another was rewriting it (the unlocked args_type), or
\* when the module has a wild symbol.  In particular no call is routed to an
\* origin_call that is not set yet.
CrashExplained == crashed => (loads > 1 \/ raced \/ clashed \/ wild # {})

\* A native method called through a hook reaches the module's function.
CallReachesBody ==
    \A t \in Thread : thr[t].pc = "check" ~> (thr[t].pc = "body" \/ crashed)
=============================================================================
