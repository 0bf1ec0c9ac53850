------------------------------ MODULE MCLookup ------------------------------
(***************************************************************************)
(* The three ways in which the repository looks things up in loaded        *)
(* libraries: the tables of an ELF image (XhElf), the tree of known images *)
(* (RbTree) and the file behind a mapping (Dlfcn).  They share no state; a *)
(* behaviour is one of one of them.                                        *)
(***************************************************************************)
EXTENDS XhElf, RbTree, Dlfcn

VARIABLE part

kvars == <<part, vars, tvars, dvars>>

Segment(v, x) == [v |-> v, x |-> x]
Sym(n, value, def) == [name |-> n, value |-> value, def |-> def]
\* Code at the base, code behind read-only data, and code in two places.
Flat == <<Segment(0, TRUE)>>
Segments == {Flat, <<Segment(0, FALSE), Segment(2, TRUE)>>, <<Segment(0, TRUE), Segment(4, TRUE)>>}
InOrder == <<"dynsym", "strtab", "text">>
SymTabs == {<<>>, <<Sym("f", 3, TRUE)>>, <<Sym("g", 0, FALSE), Sym("f", 5, TRUE)>>,
            <<Sym("f", 3, TRUE), Sym("f", 5, TRUE)>>}
Library(segs, sections, bias, syms, match, long, brief) ==
    [segs : segs, sections : sections, bias : bias, syms : syms, match : match, long : long,
     brief : brief]
\* Any file next to a library that does not match; any symbols next to one that may.
Pair(S, T) == {[l \in {"l1", "l2"} |-> IF l = "l1" THEN s ELSE t] : s \in S, t \in T}
MCLayouts ==
    Pair(Library(Segments,
                 BoundedSeq(Sections, 3) \cup {<<"text">> \o InOrder, <<"dynsym", "strtab", "strtab", "text">>,
                                             <<"dynsym", "strtab", "rodata", "text">>},
                 {0, 2}, {<<Sym("f", 3, TRUE)>>}, {TRUE}, {FALSE}, {FALSE}),
         Library({Flat}, {InOrder}, {0}, {<<>>}, {FALSE}, {FALSE}, {FALSE}))
    \cup Pair(Library(Segments, {InOrder}, {0}, SymTabs, {TRUE}, {FALSE}, BOOLEAN),
              Library({Flat}, {InOrder}, {0}, {<<Sym("f", 1, TRUE)>>}, BOOLEAN, BOOLEAN, {TRUE}))

NoElf == Start /\ image = NoImage /\ name = CHOOSE n \in Name : TRUE
NoLib == DlStart /\ at = [l \in Lib |-> 0] /\ shape = <<>>
KInit ==
    /\ TreeInit
    /\ \/ part = "elf" /\ Init /\ NoLib
       \/ part = "tree" /\ NoElf /\ NoLib
       \/ part = "dlfcn" /\ NoElf /\ DlInit

KNext ==
    \/ part = "elf" /\ Next /\ UNCHANGED <<part, tvars, dvars>>
    \/ part = "tree" /\ TreeNext /\ UNCHANGED <<part, vars, dvars>>
    \/ part = "dlfcn" /\ DlNext /\ UNCHANGED <<part, vars, tvars>>

KSpec == KInit /\ [][KNext]_kvars
=============================================================================
