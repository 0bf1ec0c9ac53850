------------------------------ MODULE MCDobby ------------------------------
EXTENDS Dobby, TLC

CONSTANTS f1, g1, k1, h1, h2

\* f1 and g1 are in one module, k1 in another.
TwoModules == (f1 :> h1) @@ (g1 :> h1) @@ (k1 :> h2)
Replacements == (f1 :> 1001) @@ (g1 :> 1110) @@ (k1 :> 1060)

Reaches == {[x \in {f1, g1, k1} |-> x \in near_ones] : near_ones \in {{}, {f1, g1, k1}}}

Text(at, words) == [a \in at..(at + Len(words) - 1) |-> words[a - at + 1]]

\* The second module ends where its data begin.
Module2 == Text(250, <<Lo(7), Hi(7), Plain(20), Adr("x", 4), Plain(21), B(2000)>>)
             @@ Text(256, <<Lo(9)>>)

\* g1 begins with a call, loops once and reads the literal behind it.
G == <<Plain(10), BL(1500), Plain(11), Plain(12), Cond(FALSE, -1), Ldr("x", "x", 2), Ret,
       Lo(3), Hi(3)>>
Standard(first, last) ==
    [text |-> Text(72, first \o <<Plain(5), last, Ret, Lo(4), Hi(4)>>) @@ Text(84, G) @@ Module2,
     entry |-> (f1 :> 72) @@ (g1 :> 84) @@ (k1 :> 252)]

Two(v, w) == <<v, Plain(1), w, Plain(2)>>
Position == {Plain(3), B(1400), B(12), BL(1300), Ldr("x", "x", 7), Adr("x", 9), Adrp("x", -1),
             Cond(FALSE, 4), Cond(FALSE, 1200)}
Prologues ==
    {Two(v, Plain(3)) : v \in Position}
      \cup {Two(B(12), Adrp("x", 2)), Two(Ldr("x", "x", 7), Adrp("x", 2)),
            <<Adrp("x17", 30), Add17(5), Br17, Plain(2)>>,
            <<Adr("x17", 600), Ldr("x", "x", 6), Br17, Plain(2)>>,
            <<Plain(1), Plain(2), Adr("x17", 600), Br17>>,
            Two(Cond(FALSE, 2), Plain(3)), Two(Ldr("w", "x", 7), Plain(3)),
            \* These fill an arena to its last word, and one word more than it has.
            <<Cond(FALSE, 1200), Ldr("x", "x", 6), Cond(FALSE, 1300), BL(1300)>>,
            <<Cond(FALSE, 1200), Cond(FALSE, 1200), Cond(FALSE, 1300), BL(1300)>>,
            Two(Ldr("simd", "v", 7), Plain(3)), Two(Plain(3), B(-1)), Two(Cond(FALSE, 4), BL(1300))}

Short == [text |-> Text(72, <<Plain(1), Ret>> \o G \o <<Plain(30), Plain(30)>>) @@ Module2,
          entry |-> (f1 :> 72) @@ (g1 :> 74) @@ (k1 :> 252)]

Images == {Standard(p, Plain(6)) : p \in Prologues}
            \cup {Standard(Two(Plain(3), Plain(4)), Cond(FALSE, off)) : off \in {-4, -5, -6}}
            \cup {Short}
=============================================================================
