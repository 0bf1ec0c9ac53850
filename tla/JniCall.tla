------------------------------ MODULE JniCall -------------------------------
(***************************************************************************)
(* A native method from the moment the hooks learn of it to its calls: its *)
(* arguments are read by the parsers of JavaSig from what RegisterNatives, *)
(* the symbol table or the runtime say, and every call is routed as in     *)
(* RouteFunc with the number of stack words that follows from them.        *)
(***************************************************************************)
EXTENDS RouteFunc, JavaSig

CONSTANTS
    Decl,      \* Java methods: [class, name, args, ret]
    Watched,   \* calls of printf-like functions
    NoMethod

ASSUME WatchedAssumption == Watched \subseteq Call

\* What Java allows.  A type is [word, dim, path]: a keyword, or "class" and the
\* identifiers of its name.
Keyword == {"void", "boolean", "byte", "char", "short", "int", "long", "float", "double"}
Digit == {"0", "1", "2", "3", "4", "5", "6", "7", "8", "9"}
Separator == {"/", ".", ";", "[", "]", "(", ")", ",", " "}
IsIdentifier(id) ==
    /\ id \in Seq(STRING) /\ id # <<>> /\ id[1] \notin Digit
    /\ \A i \in DOMAIN id : id[i] \notin Separator \cup Keyword
IsName(path) == path # <<>> /\ \A i \in DOMAIN path : IsIdentifier(path[i])
IsType(t) ==
    /\ t.dim \in Nat
    /\ t.word \in Keyword \/ (t.word = "class" /\ t.path \in Seq(Seq(STRING)) /\ IsName(t.path))
ASSUME DeclAssumption ==
    /\ NoMethod \notin Decl
    /\ \A d \in Decl :
        /\ d.class \in Seq(Seq(STRING)) /\ IsName(d.class) /\ IsIdentifier(d.name)
        /\ IsType(d.ret)
        /\ d.args \in Seq([word : Keyword \cup {"class"}, dim : Nat, path : Seq(Seq(STRING))])
        /\ \A i \in DOMAIN d.args : IsType(d.args[i])
        /\ Len(d.args) <= MaxInts /\ Len(d.args) <= MaxFps

VARIABLES
    method,  \* the native method of this process, or NoMethod
    long,    \* its symbol carries the argument types
    info     \* what the hook knows of it

jvars == <<vars, method, long, info>>

NoInfo == [from |-> "none", args |-> <<>>, class |-> <<>>, name |-> <<>>,
           available |-> FALSE]

-----------------------------------------------------------------------------
(* What the runtime and the compiler write.                                *)

Joined(parts, separator) ==
    FlattenSeq([i \in DOMAIN parts |-> IF i = 1 THEN parts[i] ELSE separator \o parts[i]])

TypeSig(t) ==
    Dims(t.dim) \o IF t.word = "class" THEN <<"L">> \o Joined(t.path, <<"/">>) \o <<";">>
                                       ELSE <<BaseSig(t.word)>>
ArgSigs(d) == FlattenSeq([i \in DOMAIN d.args |-> TypeSig(d.args[i])])

Signature(d) == <<"(">> \o ArgSigs(d) \o <<")">> \o TypeSig(d.ret)

Mangle(s) ==
    FlattenSeq([i \in DOMAIN s |-> CASE s[i] = "_" -> <<"_", "1">>
                                     [] s[i] = ";" -> <<"_", "2">>
                                     [] s[i] = "[" -> <<"_", "3">>
                                     [] s[i] = "$" -> <<"_", "0">>
                                     [] s[i] = "/" -> <<"_">>
                                     [] OTHER -> <<s[i]>>])
Symbol(d, is_long) ==
    Mangle(Joined(Append(d.class, d.name), <<"/">>))
        \o IF is_long THEN <<"_", "_">> \o Mangle(ArgSigs(d)) ELSE <<>>

PrintedType(t) ==
    (IF t.word = "class" THEN Joined(t.path, <<".">>) ELSE <<t.word>>)
        \o FlattenSeq([i \in 1..t.dim |-> <<"[", "]">>])
Printed(d, modifiers, comma, throws) ==
    modifiers \o PrintedType(d.ret) \o <<" ">> \o Joined(Append(d.class, d.name), <<".">>)
        \o <<"(">> \o Joined([i \in DOMAIN d.args |-> PrintedType(d.args[i])], comma)
        \o <<")">> \o throws
\* java.lang.reflect.Method.toString, and ART's name of a method.
MethodToString(d) == Printed(d, <<"native", " ">>, <<",">>, <<" ", "throws", " ", "e">>)
PrettyMethod(d) == Printed(d, <<>>, <<",", " ">>, <<>>)

-----------------------------------------------------------------------------
Learn(d, is_long, i) ==
    /\ pc = "idle"
    /\ method' = d
    /\ long' = is_long
    /\ info' = i
    /\ UNCHANGED vars

hook_RegisterNatives(d) ==
    LET parsed == parse_java_signature(Signature(d))
    IN  Learn(d, FALSE, IF parsed = Failed THEN [NoInfo EXCEPT !.from = "refused"]
                        ELSE [from |-> "registered", args |-> parsed.args,
                              class |-> Joined(d.class, <<".">>), name |-> d.name,
                              available |-> FALSE])

\* get_method_info and update_method_info: the declared methods of the class, if
\* the class is found under the name the hook has for it.
Updated(i, d, found) ==
    LET parsed == parse_java_pretty_name(MethodToString(d))
    IN  IF found /\ i.class = Joined(d.class, <<".">>) /\ i.name = d.name /\ parsed # Failed
        THEN [i EXCEPT !.args = parsed.args, !.class = parsed.class,
                       !.name = parsed.method, !.available = TRUE]
        ELSE i

enum_static_jni_func(d, is_long, found) ==
    LET parsed == parse_java_lang_name(Symbol(d, is_long))
        i == [from |-> "static", args |-> parsed.args, class |-> parsed.class,
              name |-> parsed.method, available |-> FALSE]
    IN  Learn(d, is_long, IF parsed = Failed THEN [NoInfo EXCEPT !.from = "refused"]
                          ELSE IF parsed = Wild THEN [NoInfo EXCEPT !.from = "wild"]
                          ELSE IF parsed.is_override THEN i ELSE Updated(i, d, found))

\* A process in which the module is loaded anew.
Restart ==
    /\ pc = "idle" /\ method # NoMethod
    /\ method' = NoMethod
    /\ long' = FALSE
    /\ info' = NoInfo
    /\ UNCHANGED vars

\* The arguments by the registers they travel in.
Floating(t) == t.dim = 0 /\ t.word \in {"float", "double"}
CallOf(d, hook, slot) ==
    LET fps == Cardinality({i \in DOMAIN d.args : Floating(d.args[i])})
    IN  [hook |-> hook, slot |-> slot, ints |-> Len(d.args) - fps, fps |-> fps]

Hooked == info.from \in {"registered", "static"}

call_native(slot, found) ==
    LET i == IF info.available THEN info ELSE Updated(info, method, found)
        c == CallOf(method, "native", slot)
    IN  /\ Hooked
        /\ info' = i
        /\ Enter(c, NativeArgc([c EXCEPT !.ints = Len(i.args), !.fps = 0]))
        /\ UNCHANGED <<method, long>>

\* The module calls the method through the faked environment.
call_java(slot) ==
    LET parsed == parse_java_pretty_name(PrettyMethod(method))
        c == CallOf(method, "call", slot)
    IN  /\ method # NoMethod /\ info.from # "wild"
        /\ IF parsed = Failed THEN ReturnZero(c)
           ELSE Enter(c, CallArgc([c EXCEPT !.ints = Len(parsed.args), !.fps = 0]))
        /\ UNCHANGED <<method, long, info>>

\* ART does not give the name of the method.
call_java_unnamed(slot) ==
    /\ method # NoMethod /\ info.from # "wild"
    /\ ReturnZero(CallOf(method, "call", slot))
    /\ UNCHANGED <<method, long, info>>

call_watched(c) == hook_libc_func(c) /\ UNCHANGED <<method, long, info>>

Route == (route_align \/ route_push \/ route_call \/ route_ret)
            /\ UNCHANGED <<method, long, info>>

JInit == Init /\ method = NoMethod /\ long = FALSE /\ info = NoInfo

JNext ==
    \/ method = NoMethod /\ \E d \in Decl : hook_RegisterNatives(d)
    \/ method = NoMethod /\ \E d \in Decl, is_long, found \in BOOLEAN :
                               enum_static_jni_func(d, is_long, found)
    \/ Restart
    \/ \E slot \in Slot, found \in BOOLEAN : call_native(slot, found)
    \/ \E slot \in Slot : call_java(slot)
    \/ \E slot \in Slot : call_java_unnamed(slot)
    \/ method = NoMethod /\ \E c \in Watched : call_watched(c)
    \/ Route

JSpec == JInit /\ [][JNext]_jvars

-----------------------------------------------------------------------------
(* Properties.                                                             *)

\* The types of the composition's state.
JTypeOK ==
    /\ TypeOK
    /\ method = NoMethod <=> info.from = "none"
    /\ long \in BOOLEAN
    /\ info.from \in {"none", "registered", "static", "refused", "wild"}
    /\ info.available => Hooked

\* An identifier whose mangled form confuses the parser: it begins with the
\* separator's own character, or needs an escape the parser refuses.
Awkward(path) ==
    \E i \in DOMAIN path : path[i][1] = "_" \/ "$" \in ToSet(path[i])
AwkwardSymbol(d) ==
    \/ Awkward(d.class) \/ Awkward(<<d.name>>)
    \/ long /\ \E i \in DOMAIN d.args : Awkward(d.args[i].path)

\* An exported JNI function is found under the class and the method that it
\* belongs to, or it is skipped, and only awkward names are skipped; no element
\* past the end is read but for an overload without arguments.
SymbolRead ==
    /\ info.from = "static" => /\ info.class = Joined(method.class, <<".">>)
                               /\ info.name = method.name
    /\ info.from = "refused" => AwkwardSymbol(method)
    /\ info.from = "wild" => long /\ method.args = <<>>

\* The hook knows as many arguments as the method has, each of its kind: only the
\* dimensions of an array of objects may be lost.  All bets are off for a short
\* symbol whose class was not found.
Known == Hooked /\ (info.available \/ info.from = "registered" \/ long)
KindsRead ==
    Known => /\ Len(info.args) = Len(method.args)
             /\ \A i \in DOMAIN info.args :
                  LET t == method.args[i]
                  IN  IF t.word = "class" THEN Last(info.args[i]) = ";"
                                          ELSE info.args[i] = TypeSig(t)

\* The count covers the stack arguments of a method however it became known, when
\* hook_native_func or, for formats without widths, the watcher took it.
KnownCountCovers == Known \/ method = NoMethod => CountCovers

\* The name that the runtime prints of a method is never refused and gives its class,
\* its name and its number of arguments: no JNI call of the module is dropped for a
\* name that hook_call_methods cannot parse.
PrintedRead ==
    method # NoMethod =>
        LET parsed == parse_java_pretty_name(PrettyMethod(method))
        IN  /\ parsed # Failed /\ Len(parsed.args) = Len(method.args)
            /\ parsed.class = Joined(method.class, <<".">>) /\ parsed.method = method.name

\* What the hook knows of a method is what its declaration says: its names, printed or
\* in a symbol, the kind of each argument, and so enough stack words for a call that
\* hook_native_func routes.  (Not for one that hook_call_methods does: the slots with
\* "..." are given none at all.)
DeclarationRead == SymbolRead /\ KindsRead /\ KnownCountCovers /\ PrintedRead

\* Calls of methods the hook knows are those of RouteFunc: the argument count
\* that RouteFunc takes from the declaration is the one the parsers find.
RoutesAsDeclared ==
    [][\/ hook_native_func(call') \/ hook_call_methods(call') \/ hook_libc_func(call')
       \/ route_align \/ route_push \/ route_call \/ route_ret
       \/ call'.hook = "native" /\ ~Known']_vars
=============================================================================
