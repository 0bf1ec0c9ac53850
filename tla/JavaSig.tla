------------------------------ MODULE JavaSig -------------------------------
(***************************************************************************)
(* The parsers of hook_jni/parse_java_sig.cpp: how many arguments a native *)
(* method takes, and of which types, is read from the signature that       *)
(* RegisterNatives gets, from the exported name of a JNI function, or from *)
(* the name ART or java.lang.reflect.Method prints.                        *)
(*                                                                         *)
(* A string is the sequence of its characters.  In printed names a Java    *)
(* keyword or an identifier may stand as one character: the parser looks   *)
(* only at the separators.                                                 *)
(***************************************************************************)
EXTENDS Integers, Sequences, SequencesExt, FiniteSets

Failed == [ok |-> "no"]
Wild == [ok |-> "wild"]    \* reads an element past the end of a vector

\* Positions are those of TLA+ sequences; 0 stands for string::npos.
Hit(s, pattern, k) ==
    /\ k + Len(pattern) - 1 <= Len(s)
    /\ SubSeq(s, k, k + Len(pattern) - 1) = pattern
FindFrom(s, pattern, i) ==
    LET at == {k \in i..Len(s) : Hit(s, pattern, k)} IN IF at = {} THEN 0 ELSE Min(at)
Find(s, pattern) == FindFrom(s, pattern, 1)
FindLastOf(s, ch, last) ==
    LET at == {k \in 1..last : s[k] = ch} IN IF at = {} THEN 0 ELSE Max(at)

\* str_helper.cpp.  string_split gives no empty piece behind the last pattern.
string_split(str, pattern) ==
    LET pieces[i \in 1..(Len(str) + 1)] ==
          IF i > Len(str) THEN <<>>
          ELSE LET pos == FindFrom(str, pattern, i)
               IN  IF pos = 0 THEN <<SubSeq(str, i, Len(str))>>
                   ELSE <<SubSeq(str, i, pos - 1)>> \o pieces[pos + Len(pattern)]
    IN  pieces[1]

\* The parsers replace only by strings without the pattern, and no replacement
\* completes another occurrence before it: one scan from the left meets them all.
replace_all(str, old, new) ==
    LET rest[i \in 1..(Len(str) + 1)] ==
          IF i > Len(str) THEN <<>>
          ELSE IF Hit(str, old, i) THEN new \o rest[i + Len(old)]
          ELSE <<str[i]>> \o rest[i + 1]
    IN  rest[1]

Dims(n) == [i \in 1..n |-> "["]

-----------------------------------------------------------------------------
is_java_base_args_sig(sig) == sig \in {"V", "Z", "B", "C", "S", "I", "J", "F", "D"}

\* The state of split_args_sig between two characters; the dimensions of an array
\* of objects are forgotten.
SplitStart == [mode |-> "arg", array |-> 0, cur |-> <<>>, args |-> <<>>]

EndArg(st, sig) == [st EXCEPT !.mode = "arg", !.array = 0, !.cur = <<>>,
                              !.args = Append(@, sig)]

InClassName(st, ch) == IF ch = ";" THEN EndArg(st, Append(st.cur, ch))
                                    ELSE [st EXCEPT !.cur = Append(@, ch)]

\* Mistake: every bracket is an argument.
SplitStep_bracket(st, ch) ==
    IF st.mode = "error" THEN st
    ELSE IF st.mode = "class" THEN InClassName(st, ch)
    ELSE CASE ch = "[" -> EndArg(st, <<ch>>)
           [] ch = "L" -> [st EXCEPT !.mode = "class", !.array = 0, !.cur = <<ch>>]
           [] is_java_base_args_sig(ch) -> EndArg(st, Append(Dims(st.array), ch))
           [] OTHER -> [st EXCEPT !.mode = "error"]

SplitStep(st, ch) ==
    IF st.mode = "error" THEN st
    ELSE IF st.mode = "class" THEN InClassName(st, ch)
    ELSE CASE ch = "[" -> [st EXCEPT !.mode = "array", !.array = @ + 1]
           [] ch = "L" -> [st EXCEPT !.mode = "class", !.array = 0, !.cur = <<ch>>]
           [] is_java_base_args_sig(ch) -> EndArg(st, Append(Dims(st.array), ch))
           [] OTHER -> [st EXCEPT !.mode = "error"]

split_args_sig(args_sig) ==
    LET st[i \in 0..Len(args_sig)] ==
          IF i = 0 THEN SplitStart ELSE SplitStep(st[i - 1], args_sig[i])
        end == st[Len(args_sig)]
    IN  IF end.mode = "arg" THEN [ok |-> "yes", args |-> end.args] ELSE Failed

parse_java_signature(signature) ==
    LET p1 == Find(signature, <<"(">>)
        p2 == Find(signature, <<")">>)
        split == split_args_sig(SubSeq(signature, p1 + 1, p2 - 1))
    IN  IF p1 = 0 \/ p2 = 0 \/ p1 > p2 \/ split = Failed THEN Failed
        ELSE [ok |-> "yes", args |-> split.args,
              ret |-> SubSeq(signature, p2 + 1, Len(signature))]

\* The class and the method of "a.b.m".
SplitName(name) ==
    LET point == FindLastOf(name, ".", Len(name))
    IN  IF point <= 1 \/ point = Len(name) THEN Failed
        ELSE [ok |-> "yes", class |-> SubSeq(name, 1, point - 1),
              method |-> SubSeq(name, point + 1, Len(name))]

\* The part of a symbol behind "Java_".  A long name with nothing behind "__" has
\* one piece only, and the second is read.
parse_java_lang_name(sys_name) ==
    LET pieces == string_split(sys_name, <<"_", "_">>)
        is_override == Find(sys_name, <<"_", "_">>) # 0
        names == SplitName(replace_all(replace_all(pieces[1], <<"_">>, <<".">>),
                                       <<".", "1">>, <<"_">>))
        split == IF is_override
                 THEN split_args_sig(replace_all(replace_all(pieces[2], <<"_", "2">>, <<";">>),
                                                 <<"_", "3">>, <<"[">>))
                 ELSE [ok |-> "yes", args |-> <<>>]
    IN  IF Find(sys_name, <<"_", "0">>) # 0 \/ Len(pieces) \notin {1, 2} THEN Failed
        ELSE IF is_override /\ Len(pieces) = 1 THEN Wild
        ELSE IF names = Failed \/ split = Failed THEN Failed
        ELSE [ok |-> "yes", class |-> names.class, method |-> names.method,
              args |-> split.args, is_override |-> is_override]

BaseSig(word) ==
    CASE word = "void" -> "V" [] word = "boolean" -> "Z" [] word = "byte" -> "B"
      [] word = "char" -> "C" [] word = "short" -> "S" [] word = "int" -> "I"
      [] word = "long" -> "J" [] word = "float" -> "F" [] word = "double" -> "D"
      [] OTHER -> "none"

conv_java_type_2_sig_type(type_name) ==
    LET bracketed == Find(type_name, <<"[">>) # 0 /\ Find(type_name, <<"]">>) # 0
        array == IF bracketed THEN Cardinality({i \in DOMAIN type_name : type_name[i] = "["})
                              ELSE 0
        base == IF bracketed THEN replace_all(replace_all(type_name, <<"[">>, <<>>), <<"]">>, <<>>)
                             ELSE type_name
    IN  Dims(array) \o IF Len(base) = 1 /\ BaseSig(base[1]) # "none"
                       THEN <<BaseSig(base[1])>>
                       ELSE <<"L">> \o replace_all(base, <<".">>, <<"/">>) \o <<";">>

\* Mistake: what stands behind the last comma is not pushed.
PrettyArgs_no_last(args) ==
    LET types == Front(string_split(replace_all(args, <<" ">>, <<>>), <<",">>))
    IN  [i \in DOMAIN types |-> conv_java_type_2_sig_type(types[i])]

PrettyArgs(args) ==
    LET types == string_split(replace_all(args, <<" ">>, <<>>), <<",">>)
    IN  [i \in DOMAIN types |-> conv_java_type_2_sig_type(types[i])]

parse_java_pretty_name(decl) ==
    LET start == Find(decl, <<"(">>)
        end == Find(decl, <<")">>)
        p == FindLastOf(decl, " ", start)
        p2 == FindLastOf(decl, " ", p - 1)
        names == SplitName(SubSeq(decl, p + 1, start - 1))
        ret == SubSeq(decl, p2 + 1, p - 1)
    IN  IF \/ start = 0 \/ end = 0 \/ end - start < 1
           \/ p = 0 \/ start - p <= 1
           \/ names = Failed
           \/ ret = <<>>
        THEN Failed
        ELSE [ok |-> "yes", class |-> names.class, method |-> names.method,
              args |-> PrettyArgs(SubSeq(decl, start + 1, end - 1)),
              ret |-> conv_java_type_2_sig_type(ret)]
=============================================================================
