----------------------------- MODULE MCJniCall ------------------------------
EXTENDS JniCall

\* Classes in and outside a package, with the separator and the letters of the
\* basic types in their names, and an inner one.
Paths == {<<<<"p">>, <<"c">>>>, <<<<"L", "_", "I">>>>,
          <<<<"p">>, <<"_", "1">>>>, <<<<"p">>, <<"c", "$", "I">>>>}
Names == {<<"m">>, <<"I", "_">>, <<"_", "m">>}

Basic(word, n) == [word |-> word, dim |-> n, path |-> <<>>]
Object(path, n) == [word |-> "class", dim |-> n, path |-> path]
Types == {Basic("int", 0), Basic("double", 0), Basic("int", 2)}
           \cup {Object(p, 0) : p \in Paths}
           \cup {Object(<<<<"p">>, <<"c">>>>, 1)}

\* All short argument lists, and long ones of one type with another in front.
ArgLists == BoundedSeq(Types, 2)
LongLists == {<<t>> \o [i \in 1..n |-> u] : t, u \in Types, n \in 5..9}

Void == Basic("void", 0)
MCDecl ==
    {[class |-> p, name |-> n, args |-> a, ret |-> Void] :
        p \in Paths, n \in Names, a \in ArgLists}
      \cup {[class |-> <<<<"p">>, <<"c">>>>, name |-> <<"m">>, args |-> a,
             ret |-> Object(<<<<"p">>, <<"c">>>>, 1)] : a \in LongLists}

MCWatched == {c \in Call : c.hook = "watch"}
=============================================================================
