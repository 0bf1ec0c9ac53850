--------------------------- MODULE JavaSigProofs ----------------------------
(***************************************************************************)
(* How the parsers of JavaSig read what the runtime writes: for every Java *)
(* declaration, the signature that RegisterNatives gets and the names that *)
(* Method.toString and ART print are read back as they were declared.      *)
(*                                                                         *)
(* Texts are sequences of letters; what is written of a declaration is a   *)
(* concatenation of pieces, and a parser is followed piece by piece: an    *)
(* operator Is... says where the pieces stand, and each lemma takes one    *)
(* loop or one search over them.  Recursion of the model's recursive       *)
(* functions is unfolded once per step and closed by induction over the    *)
(* positions.                                                              *)
(***************************************************************************)
EXTENDS JniCall, TLAPS, WellFoundedInduction, SequenceTheorems, FiniteSetTheorems

-----------------------------------------------------------------------------
(* Letters, texts and induction over their positions.                      *)

\* The provers do not know that a string of the specification is in STRING.
Literal == {"(", ")", "[", "]", "L", ";", "_", "$", "/", ".", ",", " ",
            "0", "1", "2", "3", "4", "5", "6", "7", "8", "9",
            "V", "Z", "B", "C", "S", "I", "J", "F", "D",
            "void", "boolean", "byte", "char", "short", "int", "long", "float", "double",
            "native", "throws", "e", "none"}
Letter == STRING \cup Literal
Text == Seq(Letter)

LEMMA Literals ==
    /\ \A c \in Literal : c \in Letter
    /\ \A c : is_java_base_args_sig(c) => c \in Literal
    /\ Keyword \subseteq Letter /\ Separator \subseteq Letter /\ Digit \subseteq Letter
    /\ STRING \subseteq Letter
  BY ZenonT(60) DEF Letter, Literal, is_java_base_args_sig, Keyword, Separator, Digit


LEMMA Smallest ==
    ASSUME NEW S, S \subseteq Nat, S # {}
    PROVE  \E i \in S : \A j \in S : i <= j
  <1> DEFINE R == OpToRel(<, Nat)
  <1>1. \E x \in S : \A y \in S : ~ (<<y, x>> \in R)
    BY WFMin, NatLessThanWellFounded, Zenon
  <1>2. \A x, y \in Nat : y < x => <<y, x>> \in R
    BY DEF OpToRel
  <1> HIDE DEF R
  <1>3. PICK x \in S : \A y \in S : ~ (<<y, x>> \in R)
    BY <1>1
  <1>4. \A y \in S : x \in Nat /\ y \in Nat /\ ~ (y < x)
    BY <1>2, <1>3
  <1> QED
    BY <1>4

LEMMA Induct ==
    ASSUME NEW n \in Nat, NEW S, 0 \in S, \A k \in 0..(n - 1) : k \in S => k + 1 \in S
    PROVE  \A k \in 0..n : k \in S
  <1> DEFINE B == {k \in 0..n : k \notin S}
  <1> SUFFICES ASSUME B # {} PROVE FALSE
    OBVIOUS
  <1>1. B \subseteq Nat
    OBVIOUS
  <1>2. PICK i \in B : \A j \in B : i <= j
    BY <1>1, Smallest
  <1>3. i \in 1..n /\ i - 1 \in 0..(n - 1) /\ i - 1 \notin B
    BY <1>2
  <1>4. i - 1 \in S
    BY <1>3
  <1>5. i - 1 + 1 \in S
    BY <1>3, <1>4
  <1> QED
    BY <1>2, <1>3, <1>5

\* From the other end.
LEMMA InductDown ==
    ASSUME NEW n \in Nat, NEW S, n \in S, \A k \in 1..n : k \in S => k - 1 \in S
    PROVE  \A k \in 0..n : k \in S
  <1> DEFINE T == {k \in 0..n : n - k \in S}
  <1>1. 0 \in T
    OBVIOUS
  <1>2. ASSUME NEW k \in 0..(n - 1), k \in T PROVE k + 1 \in T
    <2>1. n - k \in S /\ n - k \in 1..n
      BY <1>2
    <2>2. n - k - 1 \in S
      BY <2>1
    <2>3. n - (k + 1) = n - k - 1
      OBVIOUS
    <2> QED
      BY <2>2, <2>3
  <1> HIDE DEF T
  <1>3. \A k \in 0..n : k \in T
    BY <1>1, <1>2, Induct
  <1>4. ASSUME NEW k \in 0..n PROVE k \in S
    <2>1. n - k \in 0..n /\ n - (n - k) = k
      OBVIOUS
    <2> QED
      BY <1>3, <2>1 DEF T
  <1> QED
    BY <1>4

LEMMA InSeq ==
    ASSUME NEW T, NEW s \in Seq(T)
    PROVE  /\ Len(s) \in Nat /\ DOMAIN s = 1..Len(s)
           /\ \A i \in 1..Len(s) : s[i] \in T
           /\ \A i \in DOMAIN s : s[i] \in T
  OBVIOUS

\* The texts of the first pieces of p.
IsHeads(F, p, n) == F = [i \in 0..n |-> IF i = 0 THEN <<>> ELSE F[i - 1] \o p[i]]

LEMMA HeadsExist ==
    ASSUME NEW n \in Nat, NEW p
    PROVE  \E F : IsHeads(F, p, n)
  <1> DEFINE S == {m \in 0..n : \E F : IsHeads(F, p, m)}
  <1>1. 0 \in S
    <2>1. PICK F : F = [i \in 0..0 |-> <<>>]
      OBVIOUS
    <2>2. IsHeads(F, p, 0)
      BY <2>1 DEF IsHeads
    <2> QED
      BY <2>2
  <1>2. ASSUME NEW m \in 0..(n - 1), m \in S PROVE m + 1 \in S
    <2>1. PICK F : IsHeads(F, p, m)
      BY <1>2
    <2>2. PICK E : E = [i \in 0..(m + 1) |-> IF i = m + 1 THEN F[m] \o p[m + 1] ELSE F[i]]
      OBVIOUS
    <2>3. ASSUME NEW i \in 0..(m + 1) PROVE E[i] = IF i = 0 THEN <<>> ELSE E[i - 1] \o p[i]
      <3>1. CASE i = m + 1
        <4>1. E[i] = F[m] \o p[m + 1] /\ E[i - 1] = F[m] /\ i # 0
          BY <2>2, <3>1
        <4> QED
          BY <3>1, <4>1
      <3>2. CASE i # m + 1
        <4>1. i \in 0..m /\ E[i] = F[i] /\ (i # 0 => E[i - 1] = F[i - 1])
          BY <2>2, <3>2
        <4>2. F[i] = IF i = 0 THEN <<>> ELSE F[i - 1] \o p[i]
          BY <2>1, <4>1 DEF IsHeads
        <4> QED
          BY <4>1, <4>2
      <3> QED
        BY <3>1, <3>2
    <2>4. IsHeads(E, p, m + 1)
      BY <2>2, <2>3 DEF IsHeads
    <2> QED
      BY <2>4
  <1> HIDE DEF S
  <1>3. n \in S
    BY <1>1, <1>2, Induct
  <1> QED
    BY <1>3 DEF S

\* Its analogue from the end: W says what stands in front at i, J where to go on.
IsChain(F, W, J, n) == F = [i \in 1..(n + 1) |-> IF i > n THEN <<>> ELSE W[i] \o F[J[i]]]

LEMMA ChainExists ==
    ASSUME NEW n \in Nat, NEW W, NEW J, \A i \in 1..n : J[i] \in (i + 1)..(n + 1)
    PROVE  \E F : IsChain(F, W, J, n)
  <1> DEFINE Is(m, F) == F = [i \in (m + 1)..(n + 1) |-> IF i > n THEN <<>> ELSE W[i] \o F[J[i]]]
             S == {m \in 0..n : \E F : Is(m, F)}
  <1>1. n \in S
    <2>1. PICK F : F = [i \in (n + 1)..(n + 1) |-> <<>>]
      OBVIOUS
    <2>2. Is(n, F)
      <3>1. \A i \in (n + 1)..(n + 1) : <<>> = IF i > n THEN <<>> ELSE W[i] \o F[J[i]]
        <4>1. \A i \in (n + 1)..(n + 1) : i > n
          OBVIOUS
        <4> QED
          BY <4>1, Zenon
      <3> QED
        BY <2>1, <3>1, Zenon
    <2> HIDE DEF Is
    <2>3. \E E : Is(n, E)
      BY <2>2
    <2> QED
      BY <2>3
  <1>2. ASSUME NEW m \in 1..n, m \in S PROVE m - 1 \in S
    <2>1. PICK F : Is(m, F)
      BY <1>2
    <2>2. PICK E : E = [i \in m..(n + 1) |-> IF i = m THEN W[m] \o F[J[m]] ELSE F[i]]
      OBVIOUS
    <2>3. ASSUME NEW i \in m..(n + 1) PROVE E[i] = IF i > n THEN <<>> ELSE W[i] \o E[J[i]]
      <3>1. CASE i = m
        <4>1. J[m] \in (m + 1)..(n + 1)
          OBVIOUS
        <4>2. J[m] \in m..(n + 1) /\ J[m] # m
          BY <4>1
        <4>3. E[i] = W[m] \o F[J[m]] /\ E[J[m]] = F[J[m]]
          BY <2>2, <3>1, <4>2
        <4>4. ~ (i > n)
          BY <3>1
        <4> QED
          BY <3>1, <4>3, <4>4, Zenon
      <3>2. CASE i # m
        <4>1. i \in (m + 1)..(n + 1) /\ E[i] = F[i]
          BY <2>2, <3>2
        <4>2. F[i] = IF i > n THEN <<>> ELSE W[i] \o F[J[i]]
          BY <2>1, <4>1
        <4>3. i <= n => J[i] \in (m + 1)..(n + 1)
          BY <4>1
        <4>4. i <= n => E[J[i]] = F[J[i]]
          BY <2>2, <4>3
        <4> QED
          BY <4>1, <4>2, <4>4
      <3> QED
        BY <3>1, <3>2
    <2>4. Is(m - 1, E)
      <3>1. m - 1 + 1 = m
        OBVIOUS
      <3>2. E = [i \in m..(n + 1) |-> IF i > n THEN <<>> ELSE W[i] \o E[J[i]]]
        BY <2>2, <2>3
      <3> QED
        BY <3>1, <3>2
    <2> HIDE DEF Is
    <2>5. m - 1 \in 0..n /\ \E L : Is(m - 1, L)
      BY <2>4
    <2> QED
      BY <2>5
  <1> HIDE DEF S
  <1>3. 0 \in S
    BY <1>1, <1>2, InductDown
  <1>4. \E F : Is(0, F)
    BY <1>3 DEF S
  <1>5. 0 + 1 = 1
    OBVIOUS
  <1> QED
    BY <1>4, <1>5, Zenon DEF IsChain

-----------------------------------------------------------------------------
(* Concatenations.                                                         *)

LEMMA Cat ==
    ASSUME NEW s \in Text, NEW t \in Text
    PROVE  /\ s \o t \in Text /\ Len(s \o t) = Len(s) + Len(t)
           /\ \A i \in 1..Len(s) : (s \o t)[i] = s[i]
           /\ \A i \in 1..Len(t) : (s \o t)[Len(s) + i] = t[i]
  BY DEF Text

LEMMA TextIs ==
    ASSUME NEW s \in Text
    PROVE  /\ Len(s) \in Nat /\ DOMAIN s = 1..Len(s)
           /\ \A i \in 1..Len(s) : s[i] \in Letter
           /\ s \o <<>> = s /\ <<>> \o s = s
           /\ s # <<>> => Len(s) \in Nat \ {0}
  BY ConcatEmptySeq DEF Text

LEMMA Assoc ==
    ASSUME NEW s \in Text, NEW t \in Text, NEW u \in Text
    PROVE  (s \o t) \o u = s \o (t \o u)
  <1>1. s \in Seq(Letter) /\ t \in Seq(Letter) /\ u \in Seq(Letter)
    BY DEF Text
  <1> QED
    BY <1>1, ConcatAssociative

LEMMA Same ==
    ASSUME NEW s \in Text, NEW t \in Text, Len(s) = Len(t), \A i \in 1..Len(s) : s[i] = t[i]
    PROVE  s = t
  BY SeqEqual, Zenon DEF Text

LEMMA Char ==
    ASSUME NEW c \in Letter
    PROVE  <<c>> \in Text /\ Len(<<c>>) = 1 /\ <<c>>[1] = c
  <1>1. <<c>> \in Seq(Letter)
    OBVIOUS
  <1> QED
    BY <1>1 DEF Text

LEMMA Empty == <<>> \in Text /\ Len(<<>>) = 0
  BY EmptySeq DEF Text

Heads(p) == CHOOSE F : IsHeads(F, p, Len(p))

LEMMA HeadsAre ==
    ASSUME NEW p \in Seq(Text), NEW n \in Nat, n = Len(p)
    PROVE  /\ Heads(p)[0] = <<>>
           /\ \A k \in 0..(n - 1) : /\ Heads(p)[k + 1] = Heads(p)[k] \o p[k + 1]
                                    /\ p[k + 1] \in Text
           /\ \A k \in 0..n : Heads(p)[k] \in Text
  <1>1. \A k \in 0..(n - 1) : p[k + 1] \in Text
    <2>1. \A i \in 1..n : p[i] \in Text
      BY InSeq
    <2> QED
      BY <2>1
  <1> DEFINE F == Heads(p)
  <1>2. IsHeads(F, p, n)
    BY HeadsExist, Zenon DEF Heads
  <1> HIDE DEF F
  <1>3. F[0] = <<>>
    BY <1>2 DEF IsHeads
  <1>4. ASSUME NEW k \in 0..(n - 1) PROVE F[k + 1] = F[k] \o p[k + 1]
    <2>1. PICK i \in 0..n : i = k + 1 /\ i # 0 /\ i - 1 = k
      OBVIOUS
    <2>2. \A j \in 0..n : F[j] = IF j = 0 THEN <<>> ELSE F[j - 1] \o p[j]
      BY <1>2 DEF IsHeads
    <2>3. F[i] = F[i - 1] \o p[i]
      BY <2>1, <2>2, Zenon
    <2> QED
      BY <2>1, <2>3, Zenon
  <1> DEFINE S == {i \in 0..n : F[i] \in Text}
  <1>5. 0 \in S
    BY <1>3, Empty
  <1>6. ASSUME NEW k \in 0..(n - 1), k \in S PROVE k + 1 \in S
    <2>1. F[k] \in Text /\ p[k + 1] \in Text
      BY <1>1, <1>6
    <2>2. F[k] \o p[k + 1] \in Text
      BY <2>1, Cat
    <2>3. F[k + 1] \in Text
      BY <1>4, <2>2, Zenon
    <2> QED
      BY <2>3
  <1> HIDE DEF S
  <1>7. \A k \in 0..n : k \in S
    BY <1>5, <1>6, Induct
  <1>8. \A k \in 0..n : F[k] \in Text
    BY <1>7 DEF S
  <1> QED
    BY <1>1, <1>3, <1>4, <1>8, Zenon DEF F

LEMMA FlattenIs ==
    ASSUME NEW p \in Seq(Text), NEW n \in Nat, n = Len(p)
    PROVE  FlattenSeq(p) = Heads(p)[n]
  <1> DEFINE F == Heads(p)
  <1> HIDE DEF F
  <1>1. /\ F[0] = <<>>
        /\ \A k \in 0..(n - 1) : F[k + 1] = F[k] \o p[k + 1] /\ p[k + 1] \in Text
        /\ \A k \in 0..n : F[k] \in Text
    BY HeadsAre, Zenon DEF F
  <1>2. CASE n = 0
    <2>1. p = <<>> /\ FlattenSeq(p) = p
      BY <1>2, EmptySeq DEF FlattenSeq
    <2> QED
      BY <1>1, <1>2, <2>1 DEF F
  <1>3. CASE n # 0
    <2> DEFINE Eq(f) == f = [i \in 1..n |-> IF i = 1 THEN p[1] ELSE f[i - 1] \o p[i]]
               f0 == CHOOSE f : Eq(f)
    <2>0. FlattenSeq(p) = f0[n]
      BY <1>3 DEF FlattenSeq
    <2>1. PICK f : f = [i \in 1..n |-> F[i]]
      OBVIOUS
    <2>a. F[1] = p[1]
      <3>1. 0 \in 0..(n - 1) /\ 0 + 1 = 1
        BY <1>3
      <3>2. F[1] = <<>> \o p[1] /\ p[1] \in Text
        BY <1>1, <3>1, Zenon
      <3> QED
        BY <3>2, TextIs
    <2>2. ASSUME NEW i \in 1..n PROVE F[i] = IF i = 1 THEN p[1] ELSE f[i - 1] \o p[i]
      <3>1. CASE i = 1
        BY <2>a, <3>1
      <3>2. CASE i # 1
        <4>1. PICK k \in 0..(n - 1) : i = k + 1 /\ k \in 1..n /\ i - 1 = k
          BY <3>2
        <4>2. F[k + 1] = F[k] \o p[k + 1]
          BY <1>1, <4>1, Zenon
        <4>3. f[k] = F[k]
          BY <2>1, <4>1
        <4>4. F[i] = f[i - 1] \o p[i]
          BY <4>1, <4>2, <4>3, Zenon
        <4> QED
          BY <3>2, <4>4, Zenon
      <3> QED
        BY <3>1, <3>2
    <2>3. Eq(f)
      BY <2>1, <2>2, Zenon
    <2> HIDE DEF Eq
    <2>4. Eq(f0)
      BY <2>3, Zenon
    <2> HIDE DEF f0
    <2>b. \A i \in 1..n : f0[i] = IF i = 1 THEN p[1] ELSE f0[i - 1] \o p[i]
      BY <2>4 DEF Eq
    <2>5. ASSUME NEW k \in 1..(n - 1) PROVE f0[k + 1] = f0[k] \o p[k + 1]
      <3>1. PICK i \in 1..n : i = k + 1 /\ i # 1 /\ i - 1 = k
        OBVIOUS
      <3>2. f0[i] = f0[i - 1] \o p[i]
        BY <2>b, <3>1, Zenon
      <3> QED
        BY <3>1, <3>2, Zenon
    <2>6. f0[1] = p[1]
      BY <1>3, <2>b
    <2> DEFINE S == {i \in 0..n : i = 0 \/ f0[i] = F[i]}
    <2>7. 0 \in S
      OBVIOUS
    <2>8. ASSUME NEW k \in 0..(n - 1), k \in S PROVE k + 1 \in S
      <3>1. CASE k = 0
        BY <2>a, <2>6, <3>1
      <3>2. CASE k # 0
        <4>1. f0[k] = F[k] /\ k \in 1..(n - 1)
          BY <2>8, <3>2
        <4>2. f0[k + 1] = f0[k] \o p[k + 1]
          BY <2>5, <4>1, Zenon
        <4>3. F[k + 1] = F[k] \o p[k + 1]
          BY <1>1, Zenon
        <4>4. f0[k + 1] = F[k + 1]
          BY <4>1, <4>2, <4>3, Zenon
        <4> QED
          BY <4>4
      <3> QED
        BY <3>1, <3>2
    <2> HIDE DEF S
    <2>9. \A k \in 0..n : k \in S
      BY <2>7, <2>8, Induct
    <2>10. f0[n] = F[n]
      BY <1>3, <2>9 DEF S
    <2> QED
      BY <2>0, <2>10, Zenon DEF F
  <1> QED
    BY <1>2, <1>3

\* Where the pieces stand.
LEMMA FlattenAt ==
    ASSUME NEW p \in Seq(Text), NEW n \in Nat, n = Len(p)
    PROVE  /\ FlattenSeq(p) \in Text
           /\ \A i \in 0..n : Len(Heads(p)[i]) \in 0..Len(FlattenSeq(p))
           /\ Len(Heads(p)[0]) = 0 /\ Len(Heads(p)[n]) = Len(FlattenSeq(p))
           /\ \A k \in 0..(n - 1) :
                /\ Len(Heads(p)[k + 1]) = Len(Heads(p)[k]) + Len(p[k + 1])
                /\ \A j \in 1..Len(p[k + 1]) :
                     FlattenSeq(p)[Len(Heads(p)[k]) + j] = p[k + 1][j]
           /\ \A m \in 1..Len(FlattenSeq(p)) : \E k \in 0..(n - 1) : \E j \in 1..Len(p[k + 1]) :
                 m = Len(Heads(p)[k]) + j
  <1> DEFINE F == Heads(p)
  <1> HIDE DEF F
  <1>1. /\ F[0] = <<>>
        /\ \A k \in 0..(n - 1) : F[k + 1] = F[k] \o p[k + 1] /\ p[k + 1] \in Text
        /\ \A k \in 0..n : F[k] \in Text
    BY HeadsAre, Zenon DEF F
  <1>2. FlattenSeq(p) = F[n]
    BY FlattenIs DEF F
  <1>3. PICK L : L = [k \in 0..n |-> Len(F[k])]
    OBVIOUS
  <1>4. \A k \in 0..n : L[k] = Len(F[k]) /\ L[k] \in Nat
    BY <1>1, <1>3, TextIs
  <1>5. ASSUME NEW k \in 0..(n - 1)
        PROVE  /\ k \in 0..n /\ k + 1 \in 0..n
               /\ Len(p[k + 1]) \in Nat /\ L[k + 1] = L[k] + Len(p[k + 1])
               /\ \A j \in 1..L[k] : F[k + 1][j] = F[k][j]
               /\ \A j \in 1..Len(p[k + 1]) : F[k + 1][L[k] + j] = p[k + 1][j]
    <2>1. k \in 0..n /\ k + 1 \in 0..n
      OBVIOUS
    <2>2. F[k] \in Text /\ p[k + 1] \in Text /\ F[k + 1] = F[k] \o p[k + 1]
      BY <1>1, <2>1, Zenon
    <2>3. /\ Len(F[k] \o p[k + 1]) = Len(F[k]) + Len(p[k + 1])
          /\ \A i \in 1..Len(F[k]) : (F[k] \o p[k + 1])[i] = F[k][i]
          /\ \A i \in 1..Len(p[k + 1]) : (F[k] \o p[k + 1])[Len(F[k]) + i] = p[k + 1][i]
          /\ Len(p[k + 1]) \in Nat
      BY <2>2, Cat, TextIs, Zenon
    <2>4. L[k] = Len(F[k]) /\ L[k + 1] = Len(F[k + 1])
      BY <1>4, <2>1, Zenon
    <2>5. PICK t : t = F[k] \o p[k + 1]
      OBVIOUS
    <2> QED
      BY <2>1, <2>2, <2>3, <2>4, <2>5, Zenon
  <1> DEFINE T == {k \in 0..n : /\ \A i \in 0..k : L[i] <= L[k]
                                /\ \A i \in 0..(k - 1) : \A j \in 1..Len(p[i + 1]) :
                                      F[k][L[i] + j] = p[i + 1][j]
                                /\ \A m \in 1..L[k] : \E i \in 0..(k - 1) : \E j \in 1..Len(p[i + 1]) :
                                      m = L[i] + j}
  <1>6. 0 \in T
    <2>1. L[0] = 0
      BY <1>1, <1>4, Empty
    <2> QED
      BY <2>1
  <1>7. ASSUME NEW k \in 0..(n - 1), k \in T PROVE k + 1 \in T
    <2>1. PICK a \in Nat, b \in Nat : /\ a = L[k] /\ b = Len(p[k + 1]) /\ L[k + 1] = a + b
                                      /\ k \in 0..n /\ k + 1 \in 0..n
                                      /\ \A j \in 1..a : F[k + 1][j] = F[k][j]
                                      /\ \A j \in 1..b : F[k + 1][a + j] = p[k + 1][j]
      BY <1>4, <1>5
    <2>2. ASSUME NEW i \in 0..(k + 1) PROVE L[i] <= L[k + 1]
      <3>1. i \in 0..n
        OBVIOUS
      <3>2. L[i] \in Nat /\ L[k + 1] \in Nat
        BY <1>4, <2>1, <3>1
      <3>3. CASE i = k + 1
        BY <3>2, <3>3
      <3>4. CASE i # k + 1
        <4>1. i \in 0..k
          BY <3>4
        <4>2. L[i] <= a
          BY <1>7, <2>1, <4>1
        <4> QED
          BY <2>1, <3>2, <4>2
      <3> QED
        BY <3>3, <3>4
    <2>3. ASSUME NEW i \in 0..k, NEW j \in 1..Len(p[i + 1])
          PROVE  F[k + 1][L[i] + j] = p[i + 1][j]
      <3>1. CASE i = k
        BY <2>1, <3>1
      <3>2. CASE i # k
        <4>1. i \in 0..(k - 1) /\ i \in 0..(n - 1) /\ i + 1 \in 0..k
          BY <3>2
        <4>2. F[k][L[i] + j] = p[i + 1][j]
          BY <1>7, <4>1
        <4>3. PICK c \in Nat, e \in Nat : L[i] = c /\ Len(p[i + 1]) = e /\ L[i + 1] = c + e
          BY <1>4, <1>5, <4>1
        <4>4. c + e <= a
          BY <1>7, <2>1, <4>1, <4>3
        <4>5. j \in 1..e
          BY <4>3
        <4>6. c + j \in 1..a
          BY <2>1, <4>3, <4>4, <4>5
        <4> QED
          BY <2>1, <4>2, <4>3, <4>6
      <3> QED
        BY <3>1, <3>2
    <2>4. ASSUME NEW m \in 1..(a + b)
          PROVE  \E i \in 0..k : \E j \in 1..Len(p[i + 1]) : m = L[i] + j
      <3>1. CASE m <= a
        <4>1. m \in 1..L[k]
          BY <2>1, <3>1
        <4>2. PICK i \in 0..(k - 1) : \E j \in 1..Len(p[i + 1]) : m = L[i] + j
          BY <1>7, <4>1
        <4>3. i \in 0..k
          OBVIOUS
        <4> QED
          BY <4>2, <4>3
      <3>2. CASE m > a
        <4>0. m - a \in 1..b /\ m = a + (m - a)
          BY <2>1, <3>2
        <4>1. PICK j \in 1..b : m = a + j
          BY <4>0
        <4>2. j \in 1..Len(p[k + 1]) /\ m = L[k] + j /\ k \in 0..k
          BY <2>1, <4>1
        <4> QED
          BY <4>2
      <3> QED
        BY <2>1, <3>1, <3>2
    <2>5. k + 1 - 1 = k
      OBVIOUS
    <2> QED
      BY <2>1, <2>2, <2>3, <2>4, <2>5
  <1> HIDE DEF T
  <1>8. \A k \in 0..n : k \in T
    BY <1>6, <1>7, Induct
  <1>9. /\ \A i \in 0..n : L[i] <= L[n]
        /\ \A i \in 0..(n - 1) : \A j \in 1..Len(p[i + 1]) : F[n][L[i] + j] = p[i + 1][j]
        /\ \A m \in 1..L[n] : \E i \in 0..(n - 1) : \E j \in 1..Len(p[i + 1]) : m = L[i] + j
    BY <1>8 DEF T
  <1>10. n \in 0..n /\ F[n] \in Text /\ L[n] \in Nat /\ L[0] = 0
    BY <1>1, <1>4, Empty
  <1>11. \A i \in 0..n : L[i] \in 0..L[n]
    BY <1>4, <1>9, <1>10
  <1>12. PICK t : t = F[n] /\ FlattenSeq(p) = t
    BY <1>2
  <1>13. /\ \A i \in 0..n : L[i] \in 0..Len(t)
         /\ L[n] = Len(t)
         /\ \A k \in 0..(n - 1) : /\ L[k + 1] = L[k] + Len(p[k + 1])
                                  /\ \A j \in 1..Len(p[k + 1]) : t[L[k] + j] = p[k + 1][j]
         /\ \A m \in 1..Len(t) : \E k \in 0..(n - 1) : \E j \in 1..Len(p[k + 1]) : m = L[k] + j
    BY <1>4, <1>5, <1>9, <1>10, <1>11, <1>12
  <1>14. /\ \A i \in 0..n : Len(F[i]) \in 0..Len(t)
         /\ Len(F[0]) = 0 /\ Len(F[n]) = Len(t)
    <2>1. 0 \in 0..n /\ n \in 0..n
      OBVIOUS
    <2> QED
      BY <1>4, <1>10, <1>13, <2>1, Zenon
  <1>15. ASSUME NEW k \in 0..(n - 1)
         PROVE  /\ Len(F[k + 1]) = Len(F[k]) + Len(p[k + 1])
                /\ \A j \in 1..Len(p[k + 1]) : t[Len(F[k]) + j] = p[k + 1][j]
    <2>1. L[k] = Len(F[k]) /\ L[k + 1] = Len(F[k + 1])
      BY <1>4, <1>5, Zenon
    <2> QED
      BY <1>13, <2>1, Zenon
  <1>16. ASSUME NEW m \in 1..Len(t)
         PROVE  \E k \in 0..(n - 1) : \E j \in 1..Len(p[k + 1]) : m = Len(F[k]) + j
    <2>1. PICK k \in 0..(n - 1) : \E j \in 1..Len(p[k + 1]) : m = L[k] + j
      BY <1>13, Zenon
    <2>2. L[k] = Len(F[k])
      BY <1>4, <1>5, Zenon
    <2>3. \E j \in 1..Len(p[k + 1]) : m = Len(F[k]) + j
      BY <2>1, <2>2, Zenon
    <2> QED
      BY <2>3, Zenon
  <1> QED
    BY <1>10, <1>12, <1>14, <1>15, <1>16, ZenonT(60) DEF F

-----------------------------------------------------------------------------
(* Codes: every letter of a text is replaced by a text (Hom).              *)

\* Two sequences of texts with the same pieces, or with matching pieces.
LEMMA FlattenConcat ==
    ASSUME NEW p \in Seq(Text), NEW q \in Seq(Text)
    PROVE  p \o q \in Seq(Text) /\ FlattenSeq(p \o q) = FlattenSeq(p) \o FlattenSeq(q)
  <1>1. PICK n \in Nat, m \in Nat : n = Len(p) /\ m = Len(q)
    BY InSeq
  <1>2. PICK r : r = p \o q
    OBVIOUS
  <1>3. /\ r \in Seq(Text) /\ Len(r) = n + m
        /\ \A k \in 0..(n - 1) : r[k + 1] = p[k + 1]
        /\ \A k \in 0..(m - 1) : r[n + (k + 1)] = q[k + 1]
    <2>1. /\ r \in Seq(Text) /\ Len(r) = n + m
          /\ \A i \in 1..(n + m) : r[i] = IF i <= n THEN p[i] ELSE q[i - n]
      BY <1>1, <1>2, ConcatProperties
    <2>2. ASSUME NEW k \in 0..(n - 1) PROVE r[k + 1] = p[k + 1]
      <3>1. k + 1 \in 1..(n + m) /\ k + 1 <= n
        BY <1>1
      <3> QED
        BY <2>1, <3>1
    <2>3. ASSUME NEW k \in 0..(m - 1) PROVE r[n + (k + 1)] = q[k + 1]
      <3>1. n + (k + 1) \in 1..(n + m) /\ ~ (n + (k + 1) <= n) /\ n + (k + 1) - n = k + 1
        BY <1>1
      <3> QED
        BY <2>1, <3>1
    <2> QED
      BY <2>1, <2>2, <2>3
  <1>4. PICK H, F, G : H = Heads(r) /\ F = Heads(p) /\ G = Heads(q)
    OBVIOUS
  <1>5. /\ F[0] = <<>> /\ FlattenSeq(p) = F[n]
        /\ \A k \in 0..(n - 1) : F[k + 1] = F[k] \o p[k + 1]
        /\ \A k \in 0..n : F[k] \in Text
    BY <1>1, <1>4, HeadsAre, FlattenIs
  <1>6. /\ G[0] = <<>> /\ FlattenSeq(q) = G[m]
        /\ \A k \in 0..(m - 1) : G[k + 1] = G[k] \o q[k + 1] /\ q[k + 1] \in Text
        /\ \A k \in 0..m : G[k] \in Text
    BY <1>1, <1>4, HeadsAre, FlattenIs
  <1>7. PICK l \in Nat : l = n + m
    BY <1>1
  <1>8. /\ H[0] = <<>> /\ FlattenSeq(r) = H[l]
        /\ \A k \in 0..(l - 1) : H[k + 1] = H[k] \o r[k + 1]
    BY <1>3, <1>4, <1>7, HeadsAre, FlattenIs
  <1> DEFINE S == {k \in 0..n : H[k] = F[k]}
  <1>9. 0 \in S
    BY <1>1, <1>5, <1>8
  <1>10. ASSUME NEW k \in 0..(n - 1), k \in S PROVE k + 1 \in S
    <2>1. k \in 0..(l - 1) /\ k + 1 \in 0..n
      BY <1>1, <1>7
    <2>2. H[k] = F[k] /\ H[k + 1] = H[k] \o r[k + 1] /\ r[k + 1] = p[k + 1]
          /\ F[k + 1] = F[k] \o p[k + 1]
      BY <1>3, <1>5, <1>8, <1>10, <2>1, Zenon DEF S
    <2>3. H[k + 1] = F[k + 1]
      BY <2>2, Zenon
    <2> QED
      BY <2>1, <2>3
  <1> HIDE DEF S
  <1>11. \A k \in 0..n : k \in S
    BY <1>1, <1>9, <1>10, Induct
  <1>12. H[n] = F[n]
    BY <1>1, <1>11 DEF S
  <1> DEFINE T == {k \in 0..m : H[n + k] = F[n] \o G[k]}
  <1>13. 0 \in T
    <2>1. n + 0 = n /\ F[n] \in Text /\ n \in 0..n
      BY <1>1, <1>5
    <2>2. F[n] \o <<>> = F[n]
      BY <2>1, TextIs
    <2>3. H[n + 0] = H[n] /\ 0 \in 0..m
      BY <1>1, <2>1
    <2>4. H[n + 0] = F[n] \o G[0]
      BY <1>6, <1>12, <2>2, <2>3, Zenon
    <2> QED
      BY <2>3, <2>4
  <1>14. ASSUME NEW k \in 0..(m - 1), k \in T PROVE k + 1 \in T
    <2>1. n + k \in 0..(l - 1) /\ k + 1 \in 0..m /\ k \in 0..m /\ n \in 0..n
          /\ n + k + 1 = n + (k + 1)
      BY <1>1, <1>7
    <2>2. H[n + k + 1] = H[n + k] \o r[n + k + 1]
      BY <1>8, <2>1, Zenon
    <2>3. r[n + (k + 1)] = q[k + 1] /\ G[k + 1] = G[k] \o q[k + 1]
      BY <1>3, <1>6, Zenon
    <2>4. H[n + k] = F[n] \o G[k]
      BY <1>14 DEF T
    <2>5. H[n + (k + 1)] = (F[n] \o G[k]) \o q[k + 1]
      BY <2>1, <2>2, <2>3, <2>4
    <2>6. (F[n] \o G[k]) \o q[k + 1] = F[n] \o (G[k] \o q[k + 1])
      BY <1>5, <1>6, <2>1, Assoc
    <2>7. H[n + (k + 1)] = F[n] \o G[k + 1]
      BY <2>3, <2>5, <2>6, Zenon
    <2> QED
      BY <2>1, <2>7
  <1> HIDE DEF T
  <1>15. \A k \in 0..m : k \in T
    BY <1>1, <1>13, <1>14, Induct
  <1>16. H[n + m] = F[n] \o G[m]
    <2>1. m \in 0..m
      BY <1>1
    <2> QED
      BY <1>15, <2>1, Zenon DEF T
  <1> QED
    BY <1>2, <1>3, <1>5, <1>6, <1>7, <1>8, <1>16, Zenon

LEMMA FlattenOne ==
    ASSUME NEW s \in Text
    PROVE  <<s>> \in Seq(Text) /\ FlattenSeq(<<s>>) = s
  <1>1. PICK p : p = <<s>>
    OBVIOUS
  <1>2. p \in Seq(Text) /\ Len(p) = 1 /\ p[1] = s
    BY <1>1
  <1>3. 0 \in 0..(1 - 1) /\ 0 + 1 = 1 /\ 1 \in Nat
    OBVIOUS
  <1>4. FlattenSeq(p) = Heads(p)[1] /\ Heads(p)[0] = <<>>
    BY <1>2, <1>3, FlattenIs, HeadsAre, Zenon
  <1>5. Heads(p)[0 + 1] = Heads(p)[0] \o p[0 + 1]
    BY <1>2, <1>3, HeadsAre, Zenon
  <1>6. FlattenSeq(p) = <<>> \o s
    BY <1>2, <1>3, <1>4, <1>5
  <1>7. <<>> \o s = s
    BY TextIs
  <1> QED
    BY <1>1, <1>2, <1>6, <1>7

LEMMA FlattenEmpty == FlattenSeq(<<>>) = <<>>
  BY EmptySeq DEF FlattenSeq

-----------------------------------------------------------------------------
\* Each letter is replaced by a text.
Hom(h, s) == FlattenSeq([i \in DOMAIN s |-> h[s[i]]])

LEMMA HomPieces ==
    ASSUME NEW h \in [Letter -> Text], NEW s \in Text
    PROVE  /\ [i \in DOMAIN s |-> h[s[i]]] \in Seq(Text)
           /\ Len([i \in DOMAIN s |-> h[s[i]]]) = Len(s)
           /\ Hom(h, s) \in Text
  <1>1. DOMAIN s = 1..Len(s) /\ Len(s) \in Nat /\ \A i \in 1..Len(s) : s[i] \in Letter
    BY TextIs
  <1>2. PICK p : p = [i \in DOMAIN s |-> h[s[i]]]
    OBVIOUS
  <1>3. \A i \in 1..Len(s) : h[s[i]] \in Text
    BY <1>1
  <1>4. p \in Seq(Text) /\ Len(p) = Len(s)
    BY <1>1, <1>2, <1>3
  <1>5. FlattenSeq(p) \in Text
    BY <1>1, <1>4, FlattenAt
  <1> QED
    BY <1>2, <1>4, <1>5 DEF Hom

LEMMA HomConcat ==
    ASSUME NEW h \in [Letter -> Text], NEW s \in Text, NEW t \in Text
    PROVE  Hom(h, s \o t) = Hom(h, s) \o Hom(h, t)
  <1>1. PICK p, q : p = [i \in DOMAIN s |-> h[s[i]]] /\ q = [i \in DOMAIN t |-> h[t[i]]]
    OBVIOUS
  <1>2. p \in Seq(Text) /\ q \in Seq(Text) /\ Len(p) = Len(s) /\ Len(q) = Len(t)
    BY <1>1, HomPieces
  <1>3. PICK n \in Nat, m \in Nat : n = Len(s) /\ m = Len(t)
    BY TextIs
  <1>4. PICK u : u = s \o t
    OBVIOUS
  <1>5. u \in Text /\ Len(u) = n + m /\ (\A i \in 1..n : u[i] = s[i]) /\ (\A i \in 1..m : u[n + i] = t[i])
    BY <1>3, <1>4, Cat
  <1>6. PICK r : r = [i \in DOMAIN u |-> h[u[i]]]
    OBVIOUS
  <1>7. r \in Seq(Text) /\ Len(r) = n + m
    BY <1>5, <1>6, HomPieces
  <1>8. DOMAIN s = 1..n /\ DOMAIN t = 1..m /\ DOMAIN u = 1..(n + m)
    BY <1>3, <1>5, TextIs
  <1>9. /\ p \o q \in Seq(Text) /\ Len(p \o q) = n + m
        /\ \A i \in 1..(n + m) : (p \o q)[i] = IF i <= n THEN p[i] ELSE q[i - n]
    <2>1. /\ p \o q \in Seq(Text) /\ Len(p \o q) = Len(p) + Len(q)
          /\ \A i \in 1..(Len(p) + Len(q)) : (p \o q)[i] = IF i <= Len(p) THEN p[i] ELSE q[i - Len(p)]
      BY <1>2, ConcatProperties, Zenon
    <2>2. Len(p) = n /\ Len(q) = m
      BY <1>2, <1>3
    <2> QED
      BY <2>1, <2>2, Zenon
  <1>10. ASSUME NEW i \in 1..(n + m) PROVE r[i] = (p \o q)[i]
    <2>1. CASE i <= n
      <3>1. i \in 1..n
        BY <2>1
      <3>2. r[i] = h[u[i]] /\ u[i] = s[i] /\ p[i] = h[s[i]]
        BY <1>1, <1>5, <1>6, <1>8, <3>1
      <3> QED
        BY <1>9, <2>1, <3>2
    <2>2. CASE ~ (i <= n)
      <3>1. PICK j \in 1..m : i = n + j /\ i - n = j
        <4>1. i - n \in 1..m /\ i = n + (i - n)
          BY <1>3, <2>2
        <4> QED
          BY <4>1
      <3>2. r[i] = h[u[i]] /\ u[n + j] = t[j] /\ q[j] = h[t[j]]
        BY <1>1, <1>5, <1>6, <1>8, <3>1
      <3> QED
        BY <1>9, <2>2, <3>1, <3>2
    <2> QED
      BY <2>1, <2>2
  <1>11. r = p \o q
    BY <1>3, <1>7, <1>9, <1>10, SeqEqual
  <1>12. FlattenSeq(p \o q) = FlattenSeq(p) \o FlattenSeq(q)
    BY <1>2, FlattenConcat
  <1> QED
    BY <1>1, <1>4, <1>6, <1>11, <1>12, Zenon DEF Hom

LEMMA HomOne ==
    ASSUME NEW h \in [Letter -> Text], NEW c \in Letter
    PROVE  Hom(h, <<c>>) = h[c]
  <1>1. [i \in DOMAIN <<c>> |-> h[<<c>>[i]]] = <<h[c]>>
    OBVIOUS
  <1>2. h[c] \in Text
    OBVIOUS
  <1> QED
    BY <1>1, <1>2, FlattenOne DEF Hom

LEMMA HomEmpty ==
    ASSUME NEW h
    PROVE  Hom(h, <<>>) = <<>>
  <1>1. [i \in DOMAIN <<>> |-> h[<<>>[i]]] = <<>>
    OBVIOUS
  <1> QED
    BY <1>1, FlattenEmpty DEF Hom

LEMMA CatChar ==
    ASSUME NEW s \in Text, NEW c \in Letter
    PROVE  /\ s \o <<c>> \in Text /\ Len(s \o <<c>>) = Len(s) + 1
           /\ \A i \in 1..Len(s) : (s \o <<c>>)[i] = s[i]
           /\ (s \o <<c>>)[Len(s) + 1] = c
  <1>1. PICK e : e = <<c>> /\ e \in Text /\ Len(e) = 1 /\ e[1] = c
    BY Char
  <1>2. 1 \in 1..Len(e)
    BY <1>1
  <1>3. /\ s \o e \in Text /\ Len(s \o e) = Len(s) + Len(e)
        /\ \A i \in 1..Len(s) : (s \o e)[i] = s[i]
        /\ \A i \in 1..Len(e) : (s \o e)[Len(s) + i] = e[i]
    BY <1>1, Cat
  <1>4. (s \o e)[Len(s) + 1] = e[1]
    BY <1>2, <1>3, Zenon
  <1> QED
    BY <1>1, <1>3, <1>4, Zenon

\* A text that h leaves alone.
LEMMA HomId ==
    ASSUME NEW h \in [Letter -> Text], NEW s \in Text, \A i \in 1..Len(s) : h[s[i]] = <<s[i]>>
    PROVE  Hom(h, s) = s
  <1>1. PICK n \in Nat : n = Len(s)
    BY TextIs
  <1>2. PICK p : p = [i \in DOMAIN s |-> h[s[i]]]
    OBVIOUS
  <1>3. p \in Seq(Text) /\ Len(p) = n /\ Hom(h, s) = FlattenSeq(p)
    BY <1>1, <1>2, HomPieces DEF Hom
  <1>4. ASSUME NEW k \in 0..(n - 1) PROVE p[k + 1] = <<s[k + 1]>> /\ s[k + 1] \in Letter
    <2>1. k + 1 \in 1..n
      BY <1>1
    <2> QED
      BY <1>1, <1>2, <2>1, TextIs
  <1>5. PICK F : F = Heads(p)
    OBVIOUS
  <1>6. /\ F[0] = <<>> /\ FlattenSeq(p) = F[n]
        /\ \A k \in 0..(n - 1) : F[k + 1] = F[k] \o p[k + 1]
        /\ \A k \in 0..n : F[k] \in Text
    BY <1>1, <1>3, <1>5, HeadsAre, FlattenIs
  <1> DEFINE S == {k \in 0..n : Len(F[k]) = k /\ \A i \in 1..k : F[k][i] = s[i]}
  <1>7. 0 \in S
    BY <1>1, <1>6, Empty
  <1>8. ASSUME NEW k \in 0..(n - 1), k \in S PROVE k + 1 \in S
    <2>1. k \in 0..n /\ k + 1 \in 0..n
      BY <1>1
    <2>2. PICK a : a = F[k] /\ a \in Text /\ Len(a) = k /\ \A i \in 1..k : a[i] = s[i]
      BY <1>6, <1>8, <2>1
    <2>3. PICK c \in Letter : c = s[k + 1]
      BY <1>4
    <2>4. PICK b : b = a \o <<c>>
      OBVIOUS
    <2>5. F[k + 1] = b
      BY <1>4, <1>6, <2>2, <2>3, <2>4, Zenon
    <2>6. Len(b) = Len(a) + 1 /\ (\A i \in 1..Len(a) : b[i] = a[i]) /\ b[Len(a) + 1] = c
      BY <2>2, <2>3, <2>4, CatChar
    <2>7. ASSUME NEW i \in 1..(k + 1) PROVE b[i] = s[i]
      <3>1. i \in 1..k \/ i = k + 1
        BY <2>1
      <3> QED
        BY <2>2, <2>3, <2>6, <3>1
    <2> QED
      BY <2>1, <2>2, <2>5, <2>6, <2>7
  <1> HIDE DEF S
  <1>9. \A k \in 0..n : k \in S
    BY <1>1, <1>7, <1>8, Induct
  <1>10. Len(F[n]) = n /\ F[n] \in Text /\ \A i \in 1..n : F[n][i] = s[i]
    BY <1>1, <1>6, <1>9 DEF S
  <1>11. F[n] = s
    BY <1>1, <1>10, Same
  <1> QED
    BY <1>3, <1>6, <1>11

\* h goes through the pieces.
LEMMA HomFlatten ==
    ASSUME NEW h \in [Letter -> Text], NEW p \in Seq(Text), NEW q \in Seq(Text), Len(q) = Len(p),
           \A i \in 1..Len(p) : q[i] = Hom(h, p[i])
    PROVE  Hom(h, FlattenSeq(p)) = FlattenSeq(q)
  <1>1. PICK n \in Nat : n = Len(p)
    BY InSeq
  <1>2. PICK F, G : F = Heads(p) /\ G = Heads(q)
    OBVIOUS
  <1>3. /\ F[0] = <<>> /\ FlattenSeq(p) = F[n]
        /\ \A k \in 0..(n - 1) : F[k + 1] = F[k] \o p[k + 1] /\ p[k + 1] \in Text
        /\ \A k \in 0..n : F[k] \in Text
    BY <1>1, <1>2, HeadsAre, FlattenIs
  <1>4. /\ G[0] = <<>> /\ FlattenSeq(q) = G[n]
        /\ \A k \in 0..(n - 1) : G[k + 1] = G[k] \o q[k + 1]
    BY <1>1, <1>2, HeadsAre, FlattenIs
  <1>5. ASSUME NEW k \in 0..(n - 1) PROVE q[k + 1] = Hom(h, p[k + 1])
    <2>1. k + 1 \in 1..n
      BY <1>1
    <2> QED
      BY <1>1, <2>1
  <1> DEFINE S == {k \in 0..n : Hom(h, F[k]) = G[k]}
  <1>6. 0 \in S
    BY <1>1, <1>3, <1>4, HomEmpty
  <1>7. ASSUME NEW k \in 0..(n - 1), k \in S PROVE k + 1 \in S
    <2>1. k \in 0..n /\ k + 1 \in 0..n
      BY <1>1
    <2>2. Hom(h, F[k] \o p[k + 1]) = Hom(h, F[k]) \o Hom(h, p[k + 1])
      BY <1>3, <2>1, HomConcat
    <2>3. Hom(h, F[k]) = G[k]
      BY <1>7
    <2>4. Hom(h, F[k + 1]) = G[k + 1]
      BY <1>3, <1>4, <1>5, <2>2, <2>3, Zenon
    <2> QED
      BY <2>1, <2>4
  <1> HIDE DEF S
  <1>8. \A k \in 0..n : k \in S
    BY <1>1, <1>6, <1>7, Induct
  <1>9. Hom(h, F[n]) = G[n]
    BY <1>1, <1>8 DEF S
  <1> QED
    BY <1>3, <1>4, <1>9

LEMMA HomHom ==
    ASSUME NEW g \in [Letter -> Text], NEW h \in [Letter -> Text], NEW f \in [Letter -> Text],
           NEW s \in Text, \A i \in 1..Len(s) : f[s[i]] = Hom(g, h[s[i]])
    PROVE  Hom(g, Hom(h, s)) = Hom(f, s)
  <1>1. PICK n \in Nat : n = Len(s)
    BY TextIs
  <1>2. PICK p, q : p = [i \in DOMAIN s |-> h[s[i]]] /\ q = [i \in DOMAIN s |-> f[s[i]]]
    OBVIOUS
  <1>3. /\ p \in Seq(Text) /\ Len(p) = n /\ Hom(h, s) = FlattenSeq(p)
        /\ q \in Seq(Text) /\ Len(q) = n /\ Hom(f, s) = FlattenSeq(q)
    BY <1>1, <1>2, HomPieces DEF Hom
  <1>4. \A i \in 1..n : q[i] = Hom(g, p[i])
    BY <1>1, <1>2, TextIs
  <1>5. Hom(g, FlattenSeq(p)) = FlattenSeq(q)
    BY <1>3, <1>4, HomFlatten
  <1> QED
    BY <1>3, <1>5, Zenon

LEMMA HomSame ==
    ASSUME NEW f, NEW h, NEW s \in Text, \A i \in 1..Len(s) : f[s[i]] = h[s[i]]
    PROVE  Hom(f, s) = Hom(h, s)
  <1>1. [i \in DOMAIN s |-> f[s[i]]] = [i \in DOMAIN s |-> h[s[i]]]
    BY TextIs
  <1> QED
    BY <1>1, Zenon DEF Hom

-----------------------------------------------------------------------------
(* Searching, replacing and splitting as the parsers do it.                *)

LEMMA MinIs ==
    ASSUME NEW S, S \subseteq Nat, S # {}
    PROVE  Min(S) \in S /\ \A y \in S : Min(S) <= y
  <1>1. \E x \in S : \A y \in S : x <= y
    BY Smallest
  <1> QED
    BY <1>1, Zenon DEF Min

LEMMA MaxIs ==
    ASSUME NEW n \in Int, NEW S, S \subseteq 1..n, S # {}
    PROVE  Max(S) \in S /\ \A y \in S : Max(S) >= y
  <1> DEFINE R == {n - k : k \in S}
  <1>0. \A k \in S : k \in Int /\ n - k \in Nat
    OBVIOUS
  <1>1. R \subseteq Nat /\ R # {}
    BY <1>0
  <1>2. PICK r \in R : \A q \in R : r <= q
    BY <1>1, Smallest
  <1>3. PICK x \in S : r = n - x
    BY <1>2
  <1>4. ASSUME NEW y \in S PROVE x >= y
    <2>1. n - y \in R /\ y \in Int /\ x \in Int
      BY <1>0
    <2>2. n - x <= n - y
      BY <1>2, <1>3, <2>1
    <2> QED
      BY <2>1, <2>2
  <1>5. \E z \in S : \A y \in S : z >= y
    BY <1>4
  <1> QED
    BY <1>5, Zenon DEF Max

LEMMA HitIs ==
    ASSUME NEW s \in Text, NEW w \in Text, NEW i \in Nat \ {0}
    PROVE  Hit(s, w, i) <=> /\ i + Len(w) - 1 <= Len(s)
                            /\ \A j \in 1..Len(w) : s[i + j - 1] = w[j]
  <1>1. PICK n \in Nat, m \in Nat : n = Len(s) /\ m = Len(w)
    BY TextIs
  <1>2. CASE i + m - 1 <= n
    <2>1. PICK t : t = SubSeq(s, i, i + m - 1)
      OBVIOUS
    <2>2. \A k \in i..(i + m - 1) : s[k] \in Letter
      <3>1. \A k \in i..(i + m - 1) : k \in 1..n
        BY <1>1, <1>2
      <3> QED
        BY <1>1, <3>1, TextIs
    <2>3. i \in Int /\ i + m - 1 \in Int
      BY <1>1
    <2>4. /\ t \in Seq(Letter)
          /\ Len(t) = IF i <= i + m - 1 THEN i + m - 1 - i + 1 ELSE 0
          /\ \A k \in 1..(i + m - 1 - i + 1) : t[k] = s[i + k - 1]
      BY <2>1, <2>2, <2>3, SubSeqProperties, SMTT(60)
    <2>5. i + m - 1 - i + 1 = m /\ (i <= i + m - 1 <=> m # 0)
      BY <1>1
    <2>6. t \in Text /\ Len(t) = m /\ \A k \in 1..m : t[k] = s[i + k - 1]
      BY <1>1, <2>4, <2>5 DEF Text
    <2>7. t = w <=> \A k \in 1..m : t[k] = w[k]
      BY <1>1, <2>6, Same
    <2>8. t = w <=> \A j \in 1..m : s[i + j - 1] = w[j]
      BY <2>6, <2>7
    <2> QED
      BY <1>1, <1>2, <2>1, <2>8 DEF Hit
  <1>3. CASE ~ (i + m - 1 <= n)
    BY <1>1, <1>3 DEF Hit
  <1> QED
    BY <1>2, <1>3

LEMMA SubText ==
    ASSUME NEW s \in Text, NEW m \in Nat \ {0}, NEW n \in Nat, n <= Len(s), m <= n + 1
    PROVE  /\ SubSeq(s, m, n) \in Text /\ Len(SubSeq(s, m, n)) = n + 1 - m
           /\ \A i \in 1..(n + 1 - m) : SubSeq(s, m, n)[i] = s[m + i - 1]
  <1>1. PICK l \in Nat : l = Len(s)
    BY TextIs
  <1>2. PICK t : t = SubSeq(s, m, n)
    OBVIOUS
  <1>3. \A k \in m..n : s[k] \in Letter
    <2>1. \A k \in m..n : k \in 1..l
      BY <1>1
    <2> QED
      BY <1>1, <2>1, TextIs
  <1>4. m \in Int /\ n \in Int
    OBVIOUS
  <1>5. /\ t \in Seq(Letter)
        /\ Len(t) = IF m <= n THEN n - m + 1 ELSE 0
        /\ \A i \in 1..(n - m + 1) : t[i] = s[m + i - 1]
    BY <1>2, <1>3, <1>4, SubSeqProperties
  <1>6. n - m + 1 = n + 1 - m /\ (~ (m <= n) => n + 1 - m = 0)
    OBVIOUS
  <1>7. t \in Text /\ Len(t) = n + 1 - m /\ \A i \in 1..(n + 1 - m) : t[i] = s[m + i - 1]
    BY <1>5, <1>6 DEF Text
  <1> QED
    BY <1>2, <1>7

LEMMA FindIs ==
    ASSUME NEW s, NEW w, NEW i \in Nat \ {0}, NEW n \in Nat, n = Len(s)
    PROVE  \/ FindFrom(s, w, i) = 0 /\ \A k \in i..n : ~ Hit(s, w, k)
           \/ /\ FindFrom(s, w, i) \in i..n /\ Hit(s, w, FindFrom(s, w, i))
              /\ \A k \in i..(FindFrom(s, w, i) - 1) : ~ Hit(s, w, k)
  <1> DEFINE at == {k \in i..n : Hit(s, w, k)}
  <1>1. FindFrom(s, w, i) = IF at = {} THEN 0 ELSE Min(at)
    BY DEF FindFrom
  <1>2. CASE at = {}
    BY <1>1, <1>2
  <1>3. CASE at # {}
    <2>1. at \subseteq Nat
      OBVIOUS
    <2>2. Min(at) \in at /\ \A y \in at : Min(at) <= y
      BY <1>3, <2>1, MinIs
    <2>3. PICK r \in i..n : r = Min(at) /\ Hit(s, w, r) /\ \A y \in at : r <= y
      BY <2>2
    <2>4. \A k \in i..(r - 1) : k \notin at /\ k \in i..n
      BY <2>3
    <2>5. \A k \in i..(r - 1) : ~ Hit(s, w, k)
      BY <2>4
    <2> QED
      BY <1>1, <1>3, <2>3, <2>5
  <1> QED
    BY <1>2, <1>3

\* What FindFrom finds is the position one knows.
LEMMA FindAt ==
    ASSUME NEW s, NEW w, NEW i \in Nat \ {0}, NEW n \in Nat, n = Len(s), NEW r \in i..n,
           Hit(s, w, r), \A k \in i..(r - 1) : ~ Hit(s, w, k)
    PROVE  FindFrom(s, w, i) = r
  <1>1. PICK f : f = FindFrom(s, w, i)
    OBVIOUS
  <1>2. \/ f = 0 /\ \A k \in i..n : ~ Hit(s, w, k)
        \/ f \in i..n /\ Hit(s, w, f) /\ \A k \in i..(f - 1) : ~ Hit(s, w, k)
    BY <1>1, FindIs
  <1>3. f \in i..n /\ Hit(s, w, f) /\ \A k \in i..(f - 1) : ~ Hit(s, w, k)
    BY <1>2
  <1>4. ~ (f < r) /\ ~ (r < f)
    BY <1>3
  <1> QED
    BY <1>1, <1>3, <1>4

LEMMA FindNone ==
    ASSUME NEW s, NEW w, NEW i \in Nat \ {0}, NEW n \in Nat, n = Len(s),
           \A k \in i..n : ~ Hit(s, w, k)
    PROVE  FindFrom(s, w, i) = 0
  BY FindIs

LEMMA FindLastIs ==
    ASSUME NEW s, NEW ch, NEW last \in Int, NEW r \in 1..last, s[r] = ch,
           \A k \in (r + 1)..last : s[k] # ch
    PROVE  FindLastOf(s, ch, last) = r
  <1> DEFINE at == {k \in 1..last : s[k] = ch}
  <1>1. FindLastOf(s, ch, last) = IF at = {} THEN 0 ELSE Max(at)
    BY DEF FindLastOf
  <1>2. r \in at /\ at \subseteq 1..last
    OBVIOUS
  <1>3. Max(at) \in at /\ \A y \in at : Max(at) >= y
    BY <1>2, MaxIs
  <1>4. PICK m \in 1..last : m = Max(at) /\ s[m] = ch /\ m >= r
    BY <1>2, <1>3
  <1>5. ~ (m > r)
    BY <1>4
  <1>6. m = r
    BY <1>4, <1>5
  <1> QED
    BY <1>1, <1>2, <1>4, <1>6

LEMMA FindLastNone ==
    ASSUME NEW s, NEW ch, NEW last \in Int, \A k \in 1..last : s[k] # ch
    PROVE  FindLastOf(s, ch, last) = 0
  BY DEF FindLastOf

-----------------------------------------------------------------------------
\* The scans of replace_all and string_split, unfolded once.
IsReplace(R, s, old, new, n) ==
    /\ \A i \in 1..n : R[i] = IF Hit(s, old, i) THEN new \o R[i + Len(old)]
                              ELSE <<s[i]>> \o R[i + 1]
    /\ R[n + 1] = <<>>
IsSplit(R, s, w, n) ==
    /\ \A i \in 1..n :
          R[i] = IF FindFrom(s, w, i) = 0 THEN <<SubSeq(s, i, n)>>
                 ELSE <<SubSeq(s, i, FindFrom(s, w, i) - 1)>> \o R[FindFrom(s, w, i) + Len(w)]
    /\ R[n + 1] = <<>>

LEMMA ReplaceIs ==
    ASSUME NEW s \in Text, NEW old \in Text, NEW new, NEW n \in Nat, n = Len(s), Len(old) # 0
    PROVE  \E R : replace_all(s, old, new) = R[1] /\ IsReplace(R, s, old, new, n)
  <1>1. PICK m \in Nat : m = Len(old) /\ m # 0
    BY TextIs
  <1> DEFINE Eq(R) == R = [i \in 1..(n + 1) |-> IF i > n THEN <<>>
                                                ELSE IF Hit(s, old, i) THEN new \o R[i + Len(old)]
                                                ELSE <<s[i]>> \o R[i + 1]]
             R0 == CHOOSE R : Eq(R)
  <1>2. replace_all(s, old, new) = R0[1]
    BY DEF replace_all
  <1>3. PICK W : W = [i \in 1..n |-> IF Hit(s, old, i) THEN new ELSE <<s[i]>>]
    OBVIOUS
  <1>4. PICK J : J = [i \in 1..n |-> IF Hit(s, old, i) THEN i + m ELSE i + 1]
    OBVIOUS
  <1>5. ASSUME NEW i \in 1..n PROVE J[i] \in (i + 1)..(n + 1)
    <2>1. Hit(s, old, i) => i + m - 1 <= n
      BY <1>1 DEF Hit
    <2> QED
      BY <1>1, <1>4, <2>1
  <1>6. PICK F : F = [i \in 1..(n + 1) |-> IF i > n THEN <<>> ELSE W[i] \o F[J[i]]]
    <2>1. \E F : IsChain(F, W, J, n)
      BY <1>5, ChainExists
    <2> QED
      BY <2>1, Zenon DEF IsChain
  <1>7. ASSUME NEW i \in 1..(n + 1)
        PROVE  F[i] = IF i > n THEN <<>> ELSE IF Hit(s, old, i) THEN new \o F[i + Len(old)]
                                         ELSE <<s[i]>> \o F[i + 1]
    <2>1. F[i] = IF i > n THEN <<>> ELSE W[i] \o F[J[i]]
      BY <1>6
    <2>2. CASE i > n
      BY <2>1, <2>2
    <2>3. CASE ~ (i > n)
      <3>1. i \in 1..n
        BY <2>3
      <3>2. F[i] = W[i] \o F[J[i]]
        BY <2>1, <2>3
      <3>3. CASE Hit(s, old, i)
        <4>1. W[i] = new /\ J[i] = i + Len(old)
          BY <1>1, <1>3, <1>4, <3>1, <3>3
        <4> QED
          BY <2>3, <3>2, <3>3, <4>1, Zenon
      <3>4. CASE ~ Hit(s, old, i)
        <4>1. W[i] = <<s[i]>> /\ J[i] = i + 1
          BY <1>3, <1>4, <3>1, <3>4
        <4> QED
          BY <2>3, <3>2, <3>4, <4>1, Zenon
      <3> QED
        BY <3>3, <3>4
    <2> QED
      BY <2>2, <2>3
  <1>8. Eq(F)
    <2>1. PICK E : E = [i \in 1..(n + 1) |-> IF i > n THEN <<>>
                                             ELSE IF Hit(s, old, i) THEN new \o F[i + Len(old)]
                                             ELSE <<s[i]>> \o F[i + 1]]
      OBVIOUS
    <2>2. \A i \in 1..(n + 1) : E[i] = F[i]
      BY <1>7, <2>1, Zenon
    <2>3. F = [i \in 1..(n + 1) |-> F[i]]
      BY <1>6, Zenon
    <2>4. E = [i \in 1..(n + 1) |-> E[i]]
      BY <2>1, Zenon
    <2>5. E = F
      BY <2>2, <2>3, <2>4, Zenon
    <2> QED
      BY <2>1, <2>5, Zenon
  <1> HIDE DEF Eq
  <1>9. Eq(R0)
    BY <1>8, Zenon
  <1> HIDE DEF R0
  <1>10. \A i \in 1..(n + 1) :
            R0[i] = IF i > n THEN <<>> ELSE IF Hit(s, old, i) THEN new \o R0[i + Len(old)]
                                       ELSE <<s[i]>> \o R0[i + 1]
    BY <1>9, Zenon DEF Eq
  <1>11. n + 1 \in 1..(n + 1) /\ n + 1 > n /\ \A i \in 1..n : i \in 1..(n + 1) /\ ~ (i > n)
    OBVIOUS
  <1>12. R0[n + 1] = <<>> /\ \A i \in 1..n : R0[i] = IF Hit(s, old, i) THEN new \o R0[i + Len(old)]
                                                      ELSE <<s[i]>> \o R0[i + 1]
    BY <1>10, <1>11, Zenon
  <1> QED
    BY <1>2, <1>12, Zenon DEF IsReplace

LEMMA SplitIs ==
    ASSUME NEW s \in Text, NEW w \in Text, NEW n \in Nat, n = Len(s), Len(w) # 0
    PROVE  \E R : string_split(s, w) = R[1] /\ IsSplit(R, s, w, n)
  <1>1. PICK m \in Nat : m = Len(w) /\ m # 0
    BY TextIs
  <1> DEFINE Step(R, i) == IF FindFrom(s, w, i) = 0 THEN <<SubSeq(s, i, n)>>
                           ELSE <<SubSeq(s, i, FindFrom(s, w, i) - 1)>>
                                  \o R[FindFrom(s, w, i) + Len(w)]
             Eq(R) == R = [i \in 1..(n + 1) |-> IF i > n THEN <<>> ELSE Step(R, i)]
             R0 == CHOOSE R : Eq(R)
  <1>2. string_split(s, w) = R0[1]
    BY DEF string_split
  <1>3. PICK W : W = [i \in 1..n |-> IF FindFrom(s, w, i) = 0 THEN <<SubSeq(s, i, n)>>
                                     ELSE <<SubSeq(s, i, FindFrom(s, w, i) - 1)>>]
    OBVIOUS
  <1>4. PICK J : J = [i \in 1..n |-> IF FindFrom(s, w, i) = 0 THEN n + 1 ELSE FindFrom(s, w, i) + m]
    OBVIOUS
  <1>5. ASSUME NEW i \in 1..n PROVE J[i] \in (i + 1)..(n + 1)
    <2>1. PICK f : f = FindFrom(s, w, i)
      OBVIOUS
    <2>2. f = 0 \/ (f \in i..n /\ Hit(s, w, f))
      BY <2>1, FindIs
    <2>3. Hit(s, w, f) => f + m - 1 <= n
      BY <1>1 DEF Hit
    <2>4. J[i] = IF f = 0 THEN n + 1 ELSE f + m
      BY <1>4, <2>1
    <2> QED
      BY <1>1, <2>2, <2>3, <2>4
  <1>6. PICK F : F = [i \in 1..(n + 1) |-> IF i > n THEN <<>> ELSE W[i] \o F[J[i]]]
    <2>1. \E F : IsChain(F, W, J, n)
      BY <1>5, ChainExists
    <2> QED
      BY <2>1, Zenon DEF IsChain
  <1>7. ASSUME NEW i \in 1..n PROVE F[i] = Step(F, i)
    <2>1. F[i] = W[i] \o F[J[i]]
      <3>1. i \in 1..(n + 1) /\ ~ (i > n)
        OBVIOUS
      <3> QED
        BY <1>6, <3>1
    <2>2. F[n + 1] = <<>>
      <3>1. n + 1 \in 1..(n + 1) /\ n + 1 > n
        OBVIOUS
      <3> QED
        BY <1>6, <3>1
    <2>3. CASE FindFrom(s, w, i) = 0
      <3>1. W[i] = <<SubSeq(s, i, n)>> /\ J[i] = n + 1
        BY <1>3, <1>4, <2>3
      <3>2. PICK t : t = SubSeq(s, i, n)
        OBVIOUS
      <3>3. <<t>> \o <<>> = <<t>>
        <4>1. <<t>> \in Seq({t})
          OBVIOUS
        <4> QED
          BY <4>1, ConcatEmptySeq
      <3> QED
        BY <2>1, <2>2, <2>3, <3>1, <3>2, <3>3, Zenon
    <2>4. CASE FindFrom(s, w, i) # 0
      <3>1. W[i] = <<SubSeq(s, i, FindFrom(s, w, i) - 1)>> /\ J[i] = FindFrom(s, w, i) + Len(w)
        BY <1>1, <1>3, <1>4, <2>4
      <3> QED
        BY <2>1, <2>4, <3>1, Zenon
    <2> QED
      BY <2>3, <2>4
  <1>8. Eq(F)
    <2> HIDE DEF Step
    <2>1. PICK E : E = [i \in 1..(n + 1) |-> IF i > n THEN <<>> ELSE Step(F, i)]
      OBVIOUS
    <2>2. \A i \in 1..(n + 1) : E[i] = F[i]
      <3>1. \A i \in 1..(n + 1) : i > n \/ i \in 1..n
        OBVIOUS
      <3>2. \A i \in 1..(n + 1) : i > n => F[i] = <<>>
        BY <1>6, Zenon
      <3> QED
        BY <1>7, <2>1, <3>1, <3>2, Zenon
    <2>3. F = [i \in 1..(n + 1) |-> F[i]]
      BY <1>6, Zenon
    <2>4. E = [i \in 1..(n + 1) |-> E[i]]
      BY <2>1, Zenon
    <2>5. E = F
      BY <2>2, <2>3, <2>4, Zenon
    <2> QED
      BY <2>1, <2>5, Zenon
  <1> HIDE DEF Eq
  <1>9. Eq(R0)
    BY <1>8, Zenon
  <1> HIDE DEF R0
  <1>10. \A i \in 1..(n + 1) : R0[i] = IF i > n THEN <<>> ELSE Step(R0, i)
    <2> HIDE DEF Step
    <2> QED
      BY <1>9, Zenon DEF Eq
  <1>11. n + 1 \in 1..(n + 1) /\ n + 1 > n /\ \A i \in 1..n : i \in 1..(n + 1) /\ ~ (i > n)
    OBVIOUS
  <1>12. R0[n + 1] = <<>> /\ \A i \in 1..n : R0[i] = Step(R0, i)
    <2> HIDE DEF Step
    <2> QED
      BY <1>10, <1>11, Zenon
  <1> QED
    BY <1>2, <1>12, Zenon DEF IsSplit

-----------------------------------------------------------------------------
(* What replace_all makes of a text.                                       *)

\* Where a piece stands there is an occurrence of it, and a piece of one letter is
\* the letter at its place.
LEMMA PieceHit ==
    ASSUME NEW p \in Seq(Text), NEW n \in Nat, n = Len(p), NEW k \in 0..(n - 1)
    PROVE  /\ Len(Heads(p)[k]) \in Nat
           /\ Hit(FlattenSeq(p), p[k + 1], Len(Heads(p)[k]) + 1)
           /\ Len(p[k + 1]) = 1 => p[k + 1] = <<FlattenSeq(p)[Len(Heads(p)[k]) + 1]>>
  <1>1. PICK x : x = FlattenSeq(p) /\ x \in Text
    BY FlattenAt
  <1>2. k \in 0..n /\ k + 1 \in 0..n
    OBVIOUS
  <1>3. PICK a \in Nat : a = Len(Heads(p)[k])
    <2>1. Len(Heads(p)[k]) \in 0..Len(x) /\ Len(x) \in Nat
      BY <1>1, <1>2, FlattenAt, TextIs
    <2> QED
      BY <2>1
  <1>4. PICK w : w = p[k + 1] /\ w \in Text
    BY HeadsAre
  <1>5. PICK m \in Nat : m = Len(w)
    BY <1>4, TextIs
  <1>6. /\ \A j \in 1..m : x[a + j] = w[j]
        /\ a + m <= Len(x) /\ Len(x) \in Nat
    <2>1. /\ Len(Heads(p)[k + 1]) = a + m
          /\ \A j \in 1..m : x[a + j] = w[j]
      BY <1>1, <1>3, <1>4, <1>5, FlattenAt
    <2>2. Len(Heads(p)[k + 1]) \in 0..Len(x)
      BY <1>1, <1>2, FlattenAt
    <2> QED
      BY <1>1, <2>1, <2>2, TextIs
  <1>7. Hit(x, w, a + 1)
    <2>1. a + 1 \in Nat \ {0} /\ a + 1 + m - 1 = a + m
      BY <1>3, <1>5
    <2>2. \A j \in 1..m : a + 1 + j - 1 = a + j
      BY <1>3
    <2>3. \A j \in 1..m : x[a + 1 + j - 1] = w[j]
      BY <1>6, <2>2
    <2> QED
      BY <1>1, <1>4, <1>5, <1>6, <2>1, <2>3, HitIs
  <1>8. ASSUME m = 1 PROVE w = <<x[a + 1]>>
    <2>1. x[a + 1] = w[1] /\ w[1] \in Letter
      <3>1. 1 \in 1..m
        BY <1>8
      <3> QED
        BY <1>4, <1>5, <1>6, <3>1, TextIs
    <2>2. PICK c \in Letter : c = w[1]
      BY <2>1
    <2>3. PICK e : e = <<c>> /\ e \in Text /\ Len(e) = 1 /\ e[1] = c
      BY Char
    <2>4. \A i \in 1..1 : w[i] = e[i]
      BY <2>2, <2>3
    <2>5. w = e
      BY <1>4, <1>5, <1>8, <2>3, <2>4, Same
    <2> QED
      BY <2>1, <2>2, <2>3, <2>5
  <1> QED
    BY <1>1, <1>3, <1>4, <1>5, <1>7, <1>8

\* replace_all on a text made of occurrences of the pattern and other letters.
IsBlocks(b, c, n, x, old, new) ==
    /\ b \in Seq(Text) /\ c \in Seq(Text) /\ Len(b) = n /\ Len(c) = n
    /\ x = FlattenSeq(b) /\ old \in Text /\ Len(old) # 0 /\ new \in Text
    /\ \A k \in 0..(n - 1) :
          \/ b[k + 1] = old /\ c[k + 1] = new
          \/ /\ Len(b[k + 1]) = 1 /\ c[k + 1] = b[k + 1]
             /\ ~ Hit(x, old, Len(Heads(b)[k]) + 1)

LEMMA ReplaceBlocks ==
    ASSUME NEW b, NEW c, NEW n \in Nat, NEW x, NEW old, NEW new, IsBlocks(b, c, n, x, old, new)
    PROVE  replace_all(x, old, new) = FlattenSeq(c)
  <1>a. /\ b \in Seq(Text) /\ c \in Seq(Text) /\ Len(b) = n /\ Len(c) = n
        /\ x = FlattenSeq(b) /\ old \in Text /\ Len(old) # 0 /\ new \in Text /\ x \in Text
    <2>1. /\ b \in Seq(Text) /\ c \in Seq(Text) /\ Len(b) = n /\ Len(c) = n
          /\ x = FlattenSeq(b) /\ old \in Text /\ Len(old) # 0 /\ new \in Text
      BY DEF IsBlocks
    <2> QED
      BY <2>1, FlattenAt
  <1>1. PICK m \in Nat : m = Len(x)
    BY <1>a, TextIs
  <1>0. PICK R : replace_all(x, old, new) = R[1] /\ IsReplace(R, x, old, new, m)
    BY <1>1, <1>a, ReplaceIs
  <1>2. /\ replace_all(x, old, new) = R[1]
        /\ \A i \in 1..m : R[i] = IF Hit(x, old, i) THEN new \o R[i + Len(old)]
                                  ELSE <<x[i]>> \o R[i + 1]
        /\ R[m + 1] = <<>>
    BY <1>0, Zenon DEF IsReplace
  <1>3. PICK F, G : F = Heads(b) /\ G = Heads(c)
    OBVIOUS
  <1>4. PICK L : L = [k \in 0..n |-> Len(F[k]) + 1]
    OBVIOUS
  <1>5. /\ \A k \in 0..n : Len(F[k]) \in 0..m
        /\ L[0] = 1 /\ L[n] = m + 1
        /\ \A k \in 0..(n - 1) : Len(F[k + 1]) = Len(F[k]) + Len(b[k + 1])
    <2>1. /\ \A k \in 0..n : Len(F[k]) \in 0..m
          /\ Len(F[0]) = 0 /\ Len(F[n]) = m
          /\ \A k \in 0..(n - 1) : Len(F[k + 1]) = Len(F[k]) + Len(b[k + 1])
      BY <1>1, <1>3, <1>a, FlattenAt
    <2>2. 0 \in 0..n /\ n \in 0..n /\ m \in Nat
      BY <1>1
    <2>3. L[0] = Len(F[0]) + 1 /\ L[n] = Len(F[n]) + 1
      BY <1>4, <2>2, Zenon
    <2>4. L[0] = 1 /\ L[n] = m + 1
      BY <2>1, <2>2, <2>3
    <2> QED
      BY <2>1, <2>4, Zenon
  <1>6. /\ G[0] = <<>> /\ FlattenSeq(c) = G[n]
        /\ \A k \in 0..(n - 1) : G[k + 1] = G[k] \o c[k + 1] /\ c[k + 1] \in Text
        /\ \A k \in 0..n : G[k] \in Text
    BY <1>3, <1>a, HeadsAre, FlattenIs
  <1>7. ASSUME NEW k \in 0..(n - 1) PROVE R[L[k]] = c[k + 1] \o R[L[k + 1]]
    <2>1. k \in 0..n /\ k + 1 \in 0..n
      OBVIOUS
    <2>0. L[k] = Len(F[k]) + 1 /\ Len(F[k]) \in 0..m
      BY <1>4, <1>5, <2>1, Zenon
    <2>2. PICK a \in Nat : a = Len(F[k]) /\ L[k] = a + 1 /\ a <= m
      BY <1>1, <2>0
    <2>3. PICK d \in Nat : d = Len(b[k + 1])
      BY <1>a, <2>1, HeadsAre, TextIs
    <2>4. L[k + 1] = a + 1 + d /\ a + d <= m
      <3>1. PICK v \in 0..m : L[k + 1] = v + 1 /\ v = a + d
        BY <1>4, <1>5, <2>1, <2>2, <2>3, Zenon
      <3>2. L[k + 1] = a + 1 + d
        <4>1. v \in Int /\ v + 1 = a + 1 + d
          <5>1. v = a + d
            BY <3>1, Zenon
          <5> QED
            BY <5>1
        <4>2. L[k + 1] = v + 1
          BY <3>1, Zenon
        <4> QED
          BY <4>1, <4>2, Zenon
      <3>3. a + d <= m
        BY <1>1, <3>1
      <3> QED
        BY <3>2, <3>3
    <2>5. Hit(x, b[k + 1], a + 1) /\ (d = 1 => b[k + 1] = <<x[a + 1]>>)
      BY <1>3, <1>a, <2>2, <2>3, PieceHit
    <2>6. CASE b[k + 1] = old /\ c[k + 1] = new
      <3>1. a + 1 \in 1..m
        BY <1>1, <1>a, <2>2, <2>3, <2>4, <2>6
      <3>2. R[a + 1] = new \o R[a + 1 + Len(old)]
        BY <1>2, <2>5, <2>6, <3>1, Zenon
      <3> QED
        BY <2>2, <2>3, <2>4, <2>6, <3>2, Zenon
    <2>7. CASE d = 1 /\ c[k + 1] = b[k + 1] /\ ~ Hit(x, old, a + 1)
      <3>1. a + 1 \in 1..m
        BY <1>1, <2>2, <2>3, <2>4, <2>7
      <3>2. R[a + 1] = <<x[a + 1]>> \o R[a + 1 + 1]
        BY <1>2, <2>7, <3>1, Zenon
      <3> QED
        BY <2>2, <2>4, <2>5, <2>7, <3>2, Zenon
    <2> QED
      BY <1>3, <2>2, <2>3, <2>6, <2>7 DEF IsBlocks
  <1> DEFINE S == {k \in 0..n : R[L[k]] \in Text}
  <1>8. n \in S
    BY <1>2, <1>5, Empty
  <1>9. ASSUME NEW k \in 1..n, k \in S PROVE k - 1 \in S
    <2>1. PICK l \in 0..(n - 1) : l = k - 1 /\ l + 1 = k
      OBVIOUS
    <2>2. R[L[l + 1]] \in Text /\ c[l + 1] \in Text
      BY <1>6, <1>9, <2>1
    <2>3. c[l + 1] \o R[L[l + 1]] \in Text
      BY <2>2, Cat
    <2>4. R[L[l]] \in Text
      BY <1>7, <2>3, Zenon
    <2> QED
      BY <2>1, <2>4
  <1> HIDE DEF S
  <1>10. \A k \in 0..n : k \in S
    BY <1>8, <1>9, InductDown
  <1>11. \A k \in 0..n : R[L[k]] \in Text
    BY <1>10 DEF S
  <1> DEFINE T == {k \in 0..n : G[k] \o R[L[k]] = R[1]}
  <1>12. 0 \in T
    <2>1. 0 \in 0..n
      OBVIOUS
    <2>2. R[L[0]] \in Text /\ R[L[0]] = R[1]
      BY <1>5, <1>11, <2>1
    <2>3. <<>> \o R[L[0]] = R[L[0]]
      BY <2>2, TextIs
    <2>4. G[0] \o R[L[0]] = R[1]
      BY <1>6, <2>2, <2>3, Zenon
    <2> QED
      BY <2>1, <2>4
  <1>13. ASSUME NEW k \in 0..(n - 1), k \in T PROVE k + 1 \in T
    <2>1. k \in 0..n /\ k + 1 \in 0..n
      OBVIOUS
    <2>2. G[k] \in Text /\ c[k + 1] \in Text /\ R[L[k + 1]] \in Text
      BY <1>6, <1>11, <2>1, Zenon
    <2>3. (G[k] \o c[k + 1]) \o R[L[k + 1]] = G[k] \o (c[k + 1] \o R[L[k + 1]])
      <3>1. PICK g \in Text, y \in Text, z \in Text : g = G[k] /\ y = c[k + 1] /\ z = R[L[k + 1]]
        BY <2>2
      <3>2. (g \o y) \o z = g \o (y \o z)
        BY <3>1, Assoc, ZenonT(60)
      <3> QED
        BY <3>1, <3>2, Zenon
    <2>4. G[k] \o R[L[k]] = R[1]
      BY <1>13
    <2>5. G[k + 1] \o R[L[k + 1]] = R[1]
      BY <1>6, <1>7, <2>3, <2>4, Zenon
    <2> QED
      BY <2>1, <2>5
  <1> HIDE DEF T
  <1>14. \A k \in 0..n : k \in T
    BY <1>12, <1>13, Induct
  <1>15. G[n] \o R[L[n]] = R[1]
    <2>1. n \in 0..n
      OBVIOUS
    <2> QED
      BY <1>14, <2>1, Zenon DEF T
  <1>16. G[n] \o <<>> = G[n]
    BY <1>6, TextIs
  <1> QED
    BY <1>2, <1>5, <1>6, <1>15, <1>16, Zenon

\* A pattern of one letter.
LEMMA ReplaceChar ==
    ASSUME NEW a \in Letter, NEW new \in Text, NEW s \in Text,
           NEW h \in [Letter -> Text], h[a] = new,
           \A i \in 1..Len(s) : s[i] # a => h[s[i]] = <<s[i]>>
    PROVE  replace_all(s, <<a>>, new) = Hom(h, s)
  <1>1. PICK n \in Nat : n = Len(s)
    BY TextIs
  <1>2. PICK one : one = [c \in Letter |-> <<c>>]
    OBVIOUS
  <1>3. one \in [Letter -> Text]
    BY <1>2, Char
  <1>4. Hom(one, s) = s
    BY <1>2, <1>3, HomId, TextIs
  <1>5. PICK b, c : b = [i \in DOMAIN s |-> one[s[i]]] /\ c = [i \in DOMAIN s |-> h[s[i]]]
    OBVIOUS
  <1>6. /\ b \in Seq(Text) /\ Len(b) = n /\ c \in Seq(Text) /\ Len(c) = n
        /\ FlattenSeq(b) = s /\ FlattenSeq(c) = Hom(h, s)
    BY <1>1, <1>3, <1>4, <1>5, HomPieces DEF Hom
  <1>7. PICK old : old = <<a>> /\ old \in Text /\ Len(old) = 1 /\ old[1] = a
    BY Char
  <1>8. ASSUME NEW k \in 0..(n - 1)
        PROVE  \/ b[k + 1] = old /\ c[k + 1] = new
               \/ /\ Len(b[k + 1]) = 1 /\ c[k + 1] = b[k + 1]
                  /\ ~ Hit(s, old, Len(Heads(b)[k]) + 1)
    <2>1. k + 1 \in 1..n /\ k + 1 \in DOMAIN s
      BY <1>1, TextIs
    <2>2. PICK e \in Letter : e = s[k + 1]
      BY <1>1, <2>1, TextIs
    <2>3. b[k + 1] = <<e>> /\ c[k + 1] = h[e]
      BY <1>2, <1>5, <2>1, <2>2
    <2>4. CASE e = a
      BY <1>7, <2>3, <2>4
    <2>5. CASE e # a
      <3>1. c[k + 1] = <<e>>
        BY <1>1, <2>1, <2>2, <2>3, <2>5
      <3>2. Len(b[k + 1]) = 1
        BY <2>3, Char
      <3>3. PICK l \in Nat : l = Len(Heads(b)[k]) /\ b[k + 1] = <<s[l + 1]>>
        BY <1>1, <1>6, <3>2, PieceHit
      <3>4. s[l + 1] = e
        BY <2>3, <3>3
      <3>5. ~ Hit(s, old, l + 1)
        <4>1. l + 1 \in Nat \ {0} /\ 1 \in 1..Len(old) /\ l + 1 + 1 - 1 = l + 1
          BY <1>7, <3>3
        <4>2. SUFFICES ASSUME Hit(s, old, l + 1) PROVE FALSE
          OBVIOUS
        <4>3. s[l + 1 + 1 - 1] = old[1]
          BY <1>7, <4>1, <4>2, HitIs, ZenonT(60)
        <4> QED
          BY <1>7, <2>5, <3>4, <4>1, <4>3
      <3> QED
        BY <2>3, <3>1, <3>2, <3>3, <3>5
    <2> QED
      BY <2>4, <2>5
  <1>9. replace_all(s, old, new) = FlattenSeq(c)
    <2>1. n = Len(b) /\ n = Len(c) /\ s = FlattenSeq(b) /\ Len(old) # 0
      BY <1>6, <1>7
    <2>2. IsBlocks(b, c, n, s, old, new)
      BY <1>6, <1>7, <1>8, <2>1, Zenon DEF IsBlocks
    <2> QED
      BY <1>1, <2>2, ReplaceBlocks
  <1> QED
    BY <1>6, <1>7, <1>9, Zenon

-----------------------------------------------------------------------------
(* The states of split_args_sig.                                           *)

\* The states of split_args_sig.
IsRun(F, s, n) ==
    F = [i \in 0..n |-> IF i = 0 THEN SplitStart ELSE SplitStep(F[i - 1], s[i])]

LEMMA RunExists ==
    ASSUME NEW n \in Nat, NEW s
    PROVE  \E F : IsRun(F, s, n)
  <1> DEFINE S == {m \in 0..n : \E F : IsRun(F, s, m)}
  <1>1. 0 \in S
    <2>1. PICK F : F = [i \in 0..0 |-> SplitStart]
      OBVIOUS
    <2>2. IsRun(F, s, 0)
      BY <2>1 DEF IsRun
    <2> QED
      BY <2>2
  <1>2. ASSUME NEW m \in 0..(n - 1), m \in S PROVE m + 1 \in S
    <2>1. PICK F : IsRun(F, s, m)
      BY <1>2
    <2>2. PICK E : E = [i \in 0..(m + 1) |-> IF i = m + 1 THEN SplitStep(F[m], s[m + 1]) ELSE F[i]]
      OBVIOUS
    <2>3. ASSUME NEW i \in 0..(m + 1)
          PROVE  E[i] = IF i = 0 THEN SplitStart ELSE SplitStep(E[i - 1], s[i])
      <3>1. CASE i = m + 1
        <4>1. E[i] = SplitStep(F[m], s[m + 1]) /\ E[i - 1] = F[m] /\ i # 0
          BY <2>2, <3>1
        <4> QED
          BY <3>1, <4>1
      <3>2. CASE i # m + 1
        <4>1. i \in 0..m /\ E[i] = F[i] /\ (i # 0 => E[i - 1] = F[i - 1])
          BY <2>2, <3>2
        <4>2. F[i] = IF i = 0 THEN SplitStart ELSE SplitStep(F[i - 1], s[i])
          BY <2>1, <4>1 DEF IsRun
        <4> QED
          BY <4>1, <4>2
      <3> QED
        BY <3>1, <3>2
    <2>4. IsRun(E, s, m + 1)
      BY <2>2, <2>3 DEF IsRun
    <2> QED
      BY <2>4
  <1> HIDE DEF S
  <1>3. n \in S
    BY <1>1, <1>2, Induct
  <1> QED
    BY <1>3 DEF S

\* F goes from state to state along s.
Runs(F, s, n) ==
    /\ F[0] = SplitStart
    /\ \A k \in 0..(n - 1) : F[k + 1] = SplitStep(F[k], s[k + 1])

LEMMA RunIs ==
    ASSUME NEW s, NEW n \in Nat, n = Len(s)
    PROVE  \E F : /\ Runs(F, s, n)
                  /\ split_args_sig(s) = IF F[n].mode = "arg" THEN [ok |-> "yes", args |-> F[n].args]
                                         ELSE Failed
  <1> DEFINE F == CHOOSE F : IsRun(F, s, n)
  <1>1. split_args_sig(s) = IF F[n].mode = "arg" THEN [ok |-> "yes", args |-> F[n].args] ELSE Failed
    BY Zenon DEF split_args_sig, IsRun
  <1>2. IsRun(F, s, n)
    BY RunExists, Zenon
  <1> HIDE DEF F
  <1>3. \A i \in 0..n : F[i] = IF i = 0 THEN SplitStart ELSE SplitStep(F[i - 1], s[i])
    BY <1>2, Zenon DEF IsRun
  <1>4. ASSUME NEW k \in 0..(n - 1) PROVE F[k + 1] = SplitStep(F[k], s[k + 1])
    <2>1. PICK i \in 0..n : i = k + 1 /\ i # 0 /\ i - 1 = k
      OBVIOUS
    <2>2. F[i] = SplitStep(F[i - 1], s[i])
      BY <1>3, <2>1, Zenon
    <2> QED
      BY <2>1, <2>2, Zenon
  <1>5. F[0] = SplitStart
    BY <1>3
  <1> QED
    BY <1>1, <1>4, <1>5, Zenon DEF Runs

\* Between two arguments, in the dimensions of an array, and in a class name.
St(m, a, c, g) == [mode |-> m, array |-> a, cur |-> c, args |-> g]
InArg(args) == St("arg", 0, <<>>, args)
InDims(d, args) == St(IF d = 0 THEN "arg" ELSE "array", d, <<>>, args)
InClass(cur, args) == St("class", 0, cur, args)

LEMMA Single ==
    \A m, a, c, g, x :
           /\ [St(m, a, c, g) EXCEPT !.cur = x] = St(m, a, x, g)
           /\ [St(m, a, c, g) EXCEPT !.mode = x] = St(x, a, c, g)
           /\ [St(m, a, c, g) EXCEPT !.array = x] = St(m, x, c, g)
           /\ [St(m, a, c, g) EXCEPT !.args = x] = St(m, a, c, x)
  BY SMT DEF St

AllUpdates(m, a, c, g, x, y, z, w) ==
    /\ [St(m, a, c, g) EXCEPT !.mode = x, !.array = y] = St(x, y, c, g)
    /\ [St(m, a, c, g) EXCEPT !.mode = x, !.array = y, !.cur = z] = St(x, y, z, g)
    /\ [St(m, a, c, g) EXCEPT !.mode = x, !.array = y, !.cur = z, !.args = w] = St(x, y, z, w)

LEMMA Updates == \A m, a, c, g, x, y, z, w : AllUpdates(m, a, c, g, x, y, z, w)
  <1> TAKE m, a, c, g, x, y, z, w
  <1>1. ASSUME NEW s
        PROVE  /\ [s EXCEPT !.mode = x, !.array = y] = [[s EXCEPT !.mode = x] EXCEPT !.array = y]
               /\ [s EXCEPT !.mode = x, !.array = y, !.cur = z]
                    = [[[s EXCEPT !.mode = x] EXCEPT !.array = y] EXCEPT !.cur = z]
               /\ [s EXCEPT !.mode = x, !.array = y, !.cur = z, !.args = w]
                    = [[[[s EXCEPT !.mode = x] EXCEPT !.array = y] EXCEPT !.cur = z] EXCEPT !.args = w]
    OBVIOUS
  <1>2. [[St(m, a, c, g) EXCEPT !.mode = x] EXCEPT !.array = y] = St(x, y, c, g)
    <2>1. [St(m, a, c, g) EXCEPT !.mode = x] = St(x, a, c, g)
      BY Single
    <2>2. [St(x, a, c, g) EXCEPT !.array = y] = St(x, y, c, g)
      BY Single
    <2> QED
      BY <2>1, <2>2, Zenon
  <1>3. [[[St(m, a, c, g) EXCEPT !.mode = x] EXCEPT !.array = y] EXCEPT !.cur = z] = St(x, y, z, g)
    <2>1. [St(x, y, c, g) EXCEPT !.cur = z] = St(x, y, z, g)
      BY Single
    <2> QED
      BY <1>2, <2>1, Zenon
  <1>4. [[[[St(m, a, c, g) EXCEPT !.mode = x] EXCEPT !.array = y] EXCEPT !.cur = z] EXCEPT !.args = w]
          = St(x, y, z, w)
    <2>1. [St(x, y, z, g) EXCEPT !.args = w] = St(x, y, z, w)
      BY Single
    <2> QED
      BY <1>3, <2>1, Zenon
  <1> QED
    BY <1>1, <1>2, <1>3, <1>4, Zenon DEF AllUpdates

\* One step from each kind of state.
OneStep(m, a, c, g, ch) ==
    m # "error" =>
           /\ m # "class" /\ ch = "[" => SplitStep(St(m, a, c, g), ch) = St("array", a + 1, c, g)
           /\ m # "class" /\ ch = "L" => SplitStep(St(m, a, c, g), ch) = St("class", 0, <<ch>>, g)
           /\ m # "class" /\ is_java_base_args_sig(ch) =>
                SplitStep(St(m, a, c, g), ch) = St("arg", 0, <<>>, Append(g, Append(Dims(a), ch)))
           /\ m = "class" /\ ch # ";" => SplitStep(St(m, a, c, g), ch) = St(m, a, Append(c, ch), g)
           /\ m = "class" /\ ch = ";" =>
                SplitStep(St(m, a, c, g), ch) = St("arg", 0, <<>>, Append(g, Append(c, ch)))
           /\ m # "class" /\ ch \notin {"[", "L"} /\ ~ is_java_base_args_sig(ch) =>
                SplitStep(St(m, a, c, g), ch) = St("error", a, c, g)

LEMMA StepIs == \A m, a, c, g, ch : OneStep(m, a, c, g, ch)
  <1> TAKE m, a, c, g, ch
  <1> SUFFICES ASSUME m # "error" PROVE OneStep(m, a, c, g, ch)
    BY Zenon DEF OneStep
  <1>1. PICK s : s = St(m, a, c, g)
    OBVIOUS
  <1>2. s.mode = m /\ s.array = a /\ s.cur = c /\ s.args = g
    BY <1>1 DEF St
  <1>3. PICK e1, e2, e3, e4 : /\ e1 = St("arg", 0, <<>>, Append(g, Append(c, ch)))
                              /\ e2 = St(m, a, Append(c, ch), g)
                              /\ e3 = St("array", a + 1, c, g)
                              /\ e4 = St("class", 0, <<ch>>, g)
    OBVIOUS
  <1>4. PICK e5, e6 : /\ e5 = St("arg", 0, <<>>, Append(g, Append(Dims(a), ch)))
                      /\ e6 = St("error", a, c, g)
    OBVIOUS
  <1>a. ASSUME NEW x
        PROVE  EndArg(s, x) = St("arg", 0, <<>>, Append(g, x))
    <2>1. EndArg(s, x) = [s EXCEPT !.mode = "arg", !.array = 0, !.cur = <<>>, !.args = Append(g, x)]
      BY <1>2 DEF EndArg
    <2>2. PICK x1, x2, x3, x4 : x1 = "arg" /\ x2 = 0 /\ x3 = <<>> /\ x4 = Append(g, x)
      OBVIOUS
    <2>3. [St(m, a, c, g) EXCEPT !.mode = x1, !.array = x2, !.cur = x3, !.args = x4] = St(x1, x2, x3, x4)
      <3>1. AllUpdates(m, a, c, g, x1, x2, x3, x4)
        BY Updates
      <3> QED
        BY <3>1, Zenon DEF AllUpdates
    <2> QED
      BY <1>1, <2>1, <2>2, <2>3, Zenon
  <1>b. EndArg(s, Append(c, ch)) = e1 /\ EndArg(s, Append(Dims(a), ch)) = e5
    BY <1>a, <1>3, <1>4, Zenon
  <1>c. [s EXCEPT !.cur = Append(c, ch)] = e2
    <2>1. PICK x : x = Append(c, ch)
      OBVIOUS
    <2>2. [St(m, a, c, g) EXCEPT !.cur = x] = St(m, a, x, g)
      BY Single
    <2> QED
      BY <1>1, <1>3, <2>1, <2>2, Zenon
  <1>d. [s EXCEPT !.mode = "array", !.array = a + 1] = e3
    <2>1. PICK x1, x2 : x1 = "array" /\ x2 = a + 1
      OBVIOUS
    <2>2. [St(m, a, c, g) EXCEPT !.mode = x1, !.array = x2] = St(x1, x2, c, g)
      <3>1. AllUpdates(m, a, c, g, x1, x2, x2, x2)
        BY Updates
      <3> QED
        BY <3>1, Zenon DEF AllUpdates
    <2> QED
      BY <1>1, <1>3, <2>1, <2>2, Zenon
  <1>e. [s EXCEPT !.mode = "class", !.array = 0, !.cur = <<ch>>] = e4
    <2>1. PICK x1, x2, x3 : x1 = "class" /\ x2 = 0 /\ x3 = <<ch>>
      OBVIOUS
    <2>2. [St(m, a, c, g) EXCEPT !.mode = x1, !.array = x2, !.cur = x3] = St(x1, x2, x3, g)
      <3>1. AllUpdates(m, a, c, g, x1, x2, x3, x3)
        BY Updates
      <3> QED
        BY <3>1, Zenon DEF AllUpdates
    <2> QED
      BY <1>1, <1>3, <2>1, <2>2, Zenon
  <1>f. [s EXCEPT !.mode = "error"] = e6
    <2>1. [St(m, a, c, g) EXCEPT !.mode = "error"] = St("error", a, c, g)
      BY Single
    <2> QED
      BY <1>1, <1>4, <2>1, Zenon
  <1>5. InClassName(s, ch) = IF ch = ";" THEN e1 ELSE e2
    <2>1. [s EXCEPT !.cur = Append(@, ch)] = [s EXCEPT !.cur = Append(c, ch)]
      BY <1>2
    <2> QED
      BY <1>2, <1>b, <1>c, <2>1, Zenon DEF InClassName
  <1>6. is_java_base_args_sig(ch) => ch # "[" /\ ch # "L"
    BY DEF is_java_base_args_sig
  <1>7. m = "class" => SplitStep(s, ch) = IF ch = ";" THEN e1 ELSE e2
    BY <1>2, <1>5, Zenon DEF SplitStep
  <1>8. ASSUME m # "class"
        PROVE  SplitStep(s, ch) = IF ch = "[" THEN e3 ELSE IF ch = "L" THEN e4
                                  ELSE IF is_java_base_args_sig(ch) THEN e5 ELSE e6
    <2>1. [s EXCEPT !.mode = "array", !.array = @ + 1] = [s EXCEPT !.mode = "array", !.array = a + 1]
      BY <1>2
    <2>2. SplitStep(s, ch) =
            CASE ch = "[" -> [s EXCEPT !.mode = "array", !.array = @ + 1]
              [] ch = "L" -> [s EXCEPT !.mode = "class", !.array = 0, !.cur = <<ch>>]
              [] is_java_base_args_sig(ch) -> EndArg(s, Append(Dims(s.array), ch))
              [] OTHER -> [s EXCEPT !.mode = "error"]
      BY <1>2, <1>8, Zenon DEF SplitStep
    <2>3. SplitStep(s, ch) = CASE ch = "[" -> e3 [] ch = "L" -> e4
                               [] is_java_base_args_sig(ch) -> e5 [] OTHER -> e6
      BY <2>1, <2>2, <1>2, <1>b, <1>d, <1>e, <1>f, Zenon
    <2> QED
      BY <2>3 DEF is_java_base_args_sig
  <1> QED
    BY <1>1, <1>3, <1>4, <1>6, <1>7, <1>8, Zenon DEF OneStep

AllSteps(args, cur, d) ==
           /\ SplitStart = InArg(<<>>)
           /\ InDims(0, args) = InArg(args)
           /\ SplitStep(InDims(d, args), "[") = InDims(d + 1, args)
           /\ SplitStep(InDims(d, args), "L") = InClass(<<"L">>, args)
           /\ \A b : is_java_base_args_sig(b) =>
                 SplitStep(InDims(d, args), b) = InArg(Append(args, Append(Dims(d), b)))
           /\ \A ch : ch # ";" => SplitStep(InClass(cur, args), ch) = InClass(Append(cur, ch), args)
           /\ SplitStep(InClass(cur, args), ";") = InArg(Append(args, Append(cur, ";")))

LEMMA Steps == \A args, cur : \A d \in Nat : AllSteps(args, cur, d)
  <1> TAKE args, cur
  <1> TAKE d \in Nat
  <1>1. SplitStart = InArg(<<>>) /\ InDims(0, args) = InArg(args)
    BY DEF SplitStart, InArg, InDims, St
  <1>2. PICK m : m = (IF d = 0 THEN "arg" ELSE "array") /\ m # "error" /\ m # "class"
    OBVIOUS
  <1>3. SplitStep(InDims(d, args), "[") = InDims(d + 1, args)
    <2>0. PICK c, e : c = "[" /\ e = <<>>
      OBVIOUS
    <2>3. SplitStep(St(m, d, e, args), c) = St("array", d + 1, e, args)
      <3>1. OneStep(m, d, e, args, c)
        BY StepIs
      <3> QED
        BY <3>1, <1>2, <2>0, Zenon DEF OneStep
    <2>1. SplitStep(St(m, d, <<>>, args), "[") = St("array", d + 1, <<>>, args)
      BY <2>0, <2>3, Zenon
    <2>2. InDims(d + 1, args) = St("array", d + 1, <<>>, args)
      BY DEF InDims
    <2> QED
      BY <1>2, <2>1, <2>2, Zenon DEF InDims
  <1>4. SplitStep(InDims(d, args), "L") = InClass(<<"L">>, args)
    <2>0. PICK c, e : c = "L" /\ e = <<>>
      OBVIOUS
    <2>3. SplitStep(St(m, d, e, args), c) = St("class", 0, <<c>>, args)
      <3>1. OneStep(m, d, e, args, c)
        BY StepIs
      <3> QED
        BY <3>1, <1>2, <2>0, Zenon DEF OneStep
    <2>1. SplitStep(St(m, d, <<>>, args), "L") = St("class", 0, <<"L">>, args)
      BY <2>0, <2>3, Zenon
    <2> QED
      BY <1>2, <2>1, Zenon DEF InDims, InClass
  <1>5. ASSUME NEW b, is_java_base_args_sig(b)
        PROVE  SplitStep(InDims(d, args), b) = InArg(Append(args, Append(Dims(d), b)))
    <2>0. PICK e : e = <<>>
      OBVIOUS
    <2>3. SplitStep(St(m, d, e, args), b) = St("arg", 0, <<>>, Append(args, Append(Dims(d), b)))
      <3>1. OneStep(m, d, e, args, b)
        BY StepIs
      <3> QED
        BY <3>1, <1>2, <1>5, Zenon DEF OneStep
    <2>1. SplitStep(St(m, d, <<>>, args), b) = St("arg", 0, <<>>, Append(args, Append(Dims(d), b)))
      BY <2>0, <2>3, Zenon
    <2> QED
      BY <1>2, <2>1, Zenon DEF InDims, InArg
  <1>6. ASSUME NEW ch, ch # ";"
        PROVE  SplitStep(InClass(cur, args), ch) = InClass(Append(cur, ch), args)
    <2>0. PICK y, z : y = "class" /\ z = 0 /\ y # "error"
      OBVIOUS
    <2>3. SplitStep(St(y, z, cur, args), ch) = St(y, z, Append(cur, ch), args)
      <3>1. OneStep(y, z, cur, args, ch)
        BY StepIs
      <3> QED
        BY <3>1, <1>6, <2>0, Zenon DEF OneStep
    <2>1. SplitStep(St("class", 0, cur, args), ch) = St("class", 0, Append(cur, ch), args)
      BY <2>0, <2>3, Zenon
    <2> QED
      BY <2>1, Zenon DEF InClass
  <1>7. SplitStep(InClass(cur, args), ";") = InArg(Append(args, Append(cur, ";")))
    <2>a. PICK y, z : y = "class" /\ z = 0 /\ y # "error"
      OBVIOUS
    <2>b. PICK c : c = ";"
      OBVIOUS
    <2>0. y = "class" /\ z = 0 /\ y # "error" /\ c = ";"
      BY <2>a, <2>b, Zenon
    <2>3. SplitStep(St(y, z, cur, args), c) = St("arg", 0, <<>>, Append(args, Append(cur, c)))
      <3>1. OneStep(y, z, cur, args, c)
        BY StepIs
      <3> QED
        BY <3>1, <2>0, Zenon DEF OneStep
    <2>1. SplitStep(St("class", 0, cur, args), ";") = St("arg", 0, <<>>, Append(args, Append(cur, ";")))
      BY <2>0, <2>3, Zenon
    <2> QED
      BY <2>1, Zenon DEF InClass, InArg
  <1> QED
    BY <1>1, <1>3, <1>4, <1>5, <1>6, <1>7, Zenon DEF AllSteps

LEMMA RunDims ==
    ASSUME NEW F, NEW s, NEW n \in Nat, Runs(F, s, n), NEW k \in Nat, NEW d \in Nat, k + d <= n,
           NEW args, F[k] = InArg(args), \A j \in 0..(d - 1) : s[k + j + 1] = "["
    PROVE  F[k + d] = InDims(d, args)
  <1> DEFINE S == {i \in 0..d : F[k + i] = InDims(i, args)}
  <1>1. 0 \in S
    <2>1. k + 0 = k /\ 0 \in Nat
      OBVIOUS
    <2>2. F[k + 0] = InDims(0, args)
      <3>1. AllSteps(args, <<>>, 0)
        BY Steps
      <3> QED
        BY <2>1, <3>1, Zenon DEF AllSteps
    <2> QED
      BY <2>2
  <1>2. ASSUME NEW i \in 0..(d - 1), i \in S PROVE i + 1 \in S
    <2>1. i + 1 \in 1..d /\ k + i \in 0..(n - 1) /\ k + i + 1 = k + (i + 1) /\ i \in Nat
      OBVIOUS
    <2>2. F[k + i] = InDims(i, args)
      BY <1>2
    <2>3. F[k + i + 1] = SplitStep(F[k + i], s[k + i + 1])
      BY <2>1, Zenon DEF Runs
    <2>4. s[k + i + 1] = "["
      OBVIOUS
    <2>5. SplitStep(InDims(i, args), "[") = InDims(i + 1, args)
      <3>1. AllSteps(args, <<>>, i)
        BY <2>1, Steps
      <3> QED
        BY <3>1, Zenon DEF AllSteps
    <2>6. F[k + (i + 1)] = InDims(i + 1, args)
      BY <2>1, <2>2, <2>3, <2>4, <2>5, Zenon
    <2> QED
      BY <2>1, <2>6
  <1> HIDE DEF S
  <1>3. \A i \in 0..d : i \in S
    BY <1>1, <1>2, Induct
  <1> QED
    BY <1>3 DEF S

\* The letters of body stand in s behind position k, and none is the end of a class.
IsBody(s, k, body, m) ==
    /\ body \in Text /\ m = Len(body)
    /\ \A j \in 0..(m - 1) : s[k + j + 1] = body[j + 1] /\ body[j + 1] # ";"

LEMMA Grow ==
    ASSUME NEW body \in Text, NEW m \in Nat, m = Len(body), NEW i \in 0..(m - 1), NEW cur \in Text
    PROVE  /\ body[i + 1] \in Letter
           /\ Append(cur \o SubSeq(body, 1, i), body[i + 1]) = cur \o SubSeq(body, 1, i + 1)
  <1>1. PICK c \in Letter : c = body[i + 1]
    <2>1. i + 1 \in 1..m
      OBVIOUS
    <2> QED
      BY <2>1, TextIs
  <1>2. PICK u \in Text, v \in Text : u = SubSeq(body, 1, i) /\ v = cur \o u
    <2>1. i \in Nat /\ i <= Len(body) /\ 1 <= i + 1 /\ 1 \in Nat \ {0}
      OBVIOUS
    <2>2. SubSeq(body, 1, i) \in Text
      BY <2>1, SubText
    <2> QED
      BY <2>2, Cat
  <1>3. SubSeq(body, 1, i + 1) = u \o <<c>>
    <2>1. body \in Seq(Letter) /\ 1 \in 1..Len(body) /\ i + 1 \in 1..Len(body) /\ i + 1 - 1 = i
      BY DEF Text
    <2>2. SubSeq(body, 1, i + 1) = SubSeq(body, 1, i + 1 - 1) \o <<body[i + 1]>>
      BY <2>1, SubSeqRecursiveSecond
    <2> QED
      BY <1>1, <1>2, <2>1, <2>2, Zenon
  <1>4. Append(v, c) = v \o <<c>>
    BY <1>2, AppendIsConcat DEF Text
  <1>5. v \o <<c>> = cur \o (u \o <<c>>)
    <2>1. PICK e : e = <<c>> /\ e \in Text
      BY <1>1, Char
    <2>2. (cur \o u) \o e = cur \o (u \o e)
      <3>1. cur \in Text /\ u \in Text /\ e \in Text
        BY <1>2, <2>1, Zenon
      <3> QED
        BY <3>1, Assoc, SMTT(60)
    <2> QED
      BY <1>2, <2>1, <2>2, Zenon
  <1> QED
    BY <1>1, <1>2, <1>3, <1>4, <1>5, Zenon

LEMMA RunClass ==
    ASSUME NEW F, NEW s, NEW n \in Nat, Runs(F, s, n), NEW k \in Nat, NEW args, NEW cur \in Text,
           NEW body, NEW m \in Nat, k + m <= n, IsBody(s, k, body, m),
           F[k] = InClass(cur, args)
    PROVE  F[k + m] = InClass(cur \o body, args)
  <1>0. body \in Text /\ m = Len(body)
    BY DEF IsBody
  <1> DEFINE S == {i \in 0..m : F[k + i] = InClass(cur \o SubSeq(body, 1, i), args)}
  <1>1. 0 \in S
    <2>1. SubSeq(body, 1, 0) = <<>> /\ k + 0 = k /\ 0 \in 0..m
      BY SubSeqEmpty
    <2>2. cur \o <<>> = cur
      BY TextIs
    <2>3. F[k + 0] = InClass(cur \o SubSeq(body, 1, 0), args)
      BY <2>1, <2>2
    <2> QED
      BY <2>1, <2>3
  <1>2. ASSUME NEW i \in 0..(m - 1), i \in S PROVE i + 1 \in S
    <2>1. /\ i + 1 \in 0..m /\ k + i \in 0..(n - 1) /\ k + i + 1 = k + (i + 1) /\ i \in Nat
      OBVIOUS
    <2>2. PICK h : h = cur \o SubSeq(body, 1, i)
      OBVIOUS
    <2>3. F[k + i] = InClass(h, args)
      BY <1>2, <2>2
    <2>4. PICK c : c = body[i + 1] /\ c # ";" /\ s[k + i + 1] = c
      BY DEF IsBody
    <2>5. F[k + i + 1] = SplitStep(F[k + i], s[k + i + 1])
      BY <2>1, Zenon DEF Runs
    <2>6. SplitStep(InClass(h, args), c) = InClass(Append(h, c), args)
      <3>1. AllSteps(args, h, 0)
        BY Steps
      <3> QED
        BY <2>4, <3>1, Zenon DEF AllSteps
    <2>7. Append(h, c) = cur \o SubSeq(body, 1, i + 1)
      BY <1>0, <2>2, <2>4, Grow
    <2>8. F[k + (i + 1)] = InClass(cur \o SubSeq(body, 1, i + 1), args)
      BY <2>1, <2>3, <2>4, <2>5, <2>6, <2>7, Zenon
    <2> QED
      BY <2>1, <2>8
  <1> HIDE DEF S
  <1>3. \A i \in 0..m : i \in S
    BY <1>1, <1>2, Induct
  <1>4. m \in S
    BY <1>3
  <1>5. F[k + m] = InClass(cur \o SubSeq(body, 1, m), args)
    BY <1>4 DEF S
  <1>6. SubSeq(body, 1, m) = body
    BY <1>0, SubSeqFull DEF Text
  <1> QED
    BY <1>5, <1>6, Zenon

-----------------------------------------------------------------------------
(* The words of a signature.                                               *)

\* What stands for one argument in a signature, and what the hook takes from it.
IsBaseWord(w, d, b) == d \in Nat /\ is_java_base_args_sig(b) /\ w = Dims(d) \o <<b>>
IsClassWord(w, v, d, body) ==
    /\ d \in Nat
    /\ body \in Text /\ \A j \in 1..Len(body) : body[j] # ";"
    /\ v = (<<"L">> \o body) \o <<";">>
    /\ w = Dims(d) \o v
IsSigWord(w, v) ==
    \/ v = w /\ \E d, b : IsBaseWord(w, d, b)
    \/ \E d, body : IsClassWord(w, v, d, body)

LEMMA DimsAre ==
    ASSUME NEW d \in Nat
    PROVE  /\ Dims(d) \in Text /\ Len(Dims(d)) = d
           /\ \A j \in 1..d : Dims(d)[j] = "["
           /\ \A j \in 0..(d - 1) : Dims(d)[j + 1] = "["
  <1>1. "[" \in Letter
    BY Literals DEF Literal
  <1>2. Dims(d) \in Seq(Letter)
    BY <1>1 DEF Dims
  <1>3. Len(Dims(d)) = d
    BY <1>2 DEF Dims
  <1>4. \A j \in 1..d : Dims(d)[j] = "["
    BY DEF Dims
  <1>5. ASSUME NEW j \in 0..(d - 1) PROVE Dims(d)[j + 1] = "["
    <2>1. j + 1 \in 1..d
      OBVIOUS
    <2> QED
      BY <1>4, <2>1
  <1> QED
    BY <1>2, <1>3, <1>4, <1>5 DEF Text

LEMMA BaseLetters == \A b : is_java_base_args_sig(b) => b \in Letter
  BY Literals

LEMMA Letters2 == "L" \in Letter /\ ";" \in Letter
  BY Literals DEF Literal

LEMMA Sides ==
    ASSUME NEW x \in Text, NEW y \in Text, NEW c \in Nat, c = Len(x), NEW e \in Nat, e = Len(y)
    PROVE  /\ x \o y \in Text /\ Len(x \o y) = c + e
           /\ \A j \in 0..(c - 1) : (x \o y)[j + 1] = x[j + 1]
           /\ \A j \in 0..(e - 1) : (x \o y)[c + j + 1] = y[j + 1]
  <1>1. PICK z : z = x \o y
    OBVIOUS
  <1>2. /\ z \in Text /\ Len(z) = c + e
        /\ \A i \in 1..c : z[i] = x[i]
        /\ \A i \in 1..e : z[c + i] = y[i]
    BY <1>1, Cat
  <1>3. ASSUME NEW j \in 0..(c - 1) PROVE z[j + 1] = x[j + 1]
    <2>1. j + 1 \in 1..c
      OBVIOUS
    <2> QED
      BY <1>2, <2>1
  <1>4. ASSUME NEW j \in 0..(e - 1) PROVE z[c + j + 1] = y[j + 1]
    <2>1. PICK i \in 1..e : i = j + 1 /\ c + i = c + j + 1
      OBVIOUS
    <2> QED
      BY <1>2, <2>1
  <1> QED
    BY <1>1, <1>2, <1>3, <1>4, Zenon

\* The text w stands in s behind position k.
Stands(s, k, w, m) == w \in Text /\ m = Len(w) /\ \A j \in 0..(m - 1) : s[k + j + 1] = w[j + 1]

IsCat(z, x, y) == z = x \o y

LEMMA StandsParts ==
    ASSUME NEW s, NEW k \in Nat, NEW x \in Text, NEW y \in Text, NEW c \in Nat, NEW e \in Nat,
           c = Len(x), e = Len(y), NEW m \in Nat, NEW z, IsCat(z, x, y), Stands(s, k, z, m)
    PROVE  Stands(s, k, x, c) /\ Stands(s, k + c, y, e)
  <1>1. z = x \o y
    BY DEF IsCat
  <1>2. /\ z \in Text /\ Len(z) = c + e
        /\ \A j \in 0..(c - 1) : z[j + 1] = x[j + 1]
        /\ \A j \in 0..(e - 1) : z[c + j + 1] = y[j + 1]
    BY <1>1, Sides, SMTT(60)
  <1>3. m = c + e /\ \A j \in 0..(m - 1) : s[k + j + 1] = z[j + 1]
    BY <1>1, <1>2, Zenon DEF Stands
  <1>4. ASSUME NEW j \in 0..(c - 1) PROVE s[k + j + 1] = x[j + 1]
    <2>1. j \in 0..(m - 1)
      BY <1>3
    <2>2. s[k + j + 1] = z[j + 1] /\ z[j + 1] = x[j + 1]
      BY <1>2, <1>3, <2>1, Zenon
    <2> QED
      BY <2>2, Zenon
  <1>5. ASSUME NEW j \in 0..(e - 1) PROVE s[k + c + j + 1] = y[j + 1]
    <2>1. PICK i \in 0..(m - 1) : i = c + j /\ k + i + 1 = k + c + j + 1 /\ i + 1 = c + j + 1
      BY <1>3
    <2>2. s[k + i + 1] = z[i + 1] /\ z[c + j + 1] = y[j + 1]
      BY <1>2, <1>3, <2>1
    <2> QED
      BY <2>1, <2>2, Zenon
  <1> QED
    BY <1>3, <1>4, <1>5 DEF Stands

LEMMA StandsLen ==
    ASSUME NEW s, NEW k, NEW x \in Text, NEW y \in Text, NEW c \in Nat, NEW e \in Nat,
           c = Len(x), e = Len(y), NEW m \in Nat, NEW z, IsCat(z, x, y), Stands(s, k, z, m)
    PROVE  m = c + e
  <1>1. Len(x \o y) = Len(x) + Len(y)
    BY Cat
  <1>2. Len(z) = Len(x) + Len(y) /\ m = Len(z)
    BY <1>1, Zenon DEF IsCat, Stands
  <1> QED
    BY <1>2

LEMMA StandsOne ==
    ASSUME NEW s, NEW k \in Nat, NEW c \in Letter, Stands(s, k, <<c>>, 1)
    PROVE  s[k + 1] = c
  <1>1. <<c>>[1] = c
    OBVIOUS
  <1>2. 0 \in 0..(1 - 1) /\ k + 0 + 1 = k + 1 /\ 0 + 1 = 1
    OBVIOUS
  <1>3. s[k + 0 + 1] = <<c>>[0 + 1]
    BY <1>2, Zenon DEF Stands
  <1> QED
    BY <1>1, <1>2, <1>3, Zenon

LEMMA AppendIs ==
    ASSUME NEW s \in Text, NEW c \in Letter
    PROVE  Append(s, c) = s \o <<c>>
  BY AppendIsConcat DEF Text

LEMMA RunDims2 ==
    ASSUME NEW F, NEW s, NEW n \in Nat, Runs(F, s, n), NEW k \in Nat, NEW d \in Nat, k + d <= n,
           NEW args, F[k] = InArg(args), Stands(s, k, Dims(d), d)
    PROVE  F[k + d] = InDims(d, args)
  <1>1. \A j \in 0..(d - 1) : s[k + j + 1] = "["
    BY DimsAre, Zenon DEF Stands
  <1> QED
    BY <1>1, RunDims

LEMMA RunBase ==
    ASSUME NEW F, NEW s, NEW n \in Nat, Runs(F, s, n), NEW k \in Nat, NEW m \in Nat, k + m <= n,
           NEW args, F[k] = InArg(args), NEW w, Stands(s, k, w, m),
           NEW d, NEW b, IsBaseWord(w, d, b)
    PROVE  F[k + m] = InArg(Append(args, w))
  <1>1. d \in Nat /\ is_java_base_args_sig(b) /\ b \in Letter
    BY BaseLetters DEF IsBaseWord
  <1>2. PICK x, y : /\ x = Dims(d) /\ x \in Text /\ Len(x) = d
                    /\ y = <<b>> /\ y \in Text /\ Len(y) = 1
    <2>1. <<b>> \in Text /\ Len(<<b>>) = 1
      BY <1>1, Char
    <2>2. Dims(d) \in Text /\ Len(Dims(d)) = d
      BY <1>1, DimsAre
    <2> QED
      BY <2>1, <2>2, Zenon
  <1>3. w = x \o y
    BY <1>2 DEF IsBaseWord
  <1>4. m = d + 1 /\ Stands(s, k, x, d) /\ Stands(s, k + d, y, 1)
    <2>1. PICK o \in Nat : o = 1
      OBVIOUS
    <2>2. PICK a \in Nat : a = d
      BY <1>1
    <2>3. x \in Text /\ y \in Text /\ a = Len(x) /\ o = Len(y) /\ IsCat(w, x, y)
      BY <1>1, <1>2, <1>3, <2>1, <2>2, Zenon DEF IsCat
    <2>4. Stands(s, k, x, a) /\ Stands(s, k + a, y, o)
      BY <2>3, StandsParts
    <2>5. m = a + o
      BY <2>3, StandsLen
    <2> QED
      BY <2>1, <2>2, <2>4, <2>5, Zenon
  <1>5. F[k + d] = InDims(d, args)
    <2>1. k + d <= n /\ Stands(s, k, Dims(d), d)
      BY <1>1, <1>2, <1>4
    <2> QED
      BY <1>1, <2>1, RunDims2
  <1>6. s[k + d + 1] = b
    <2>1. k + d \in Nat /\ Stands(s, k + d, <<b>>, 1)
      BY <1>1, <1>2, <1>4
    <2> QED
      BY <1>1, <2>1, StandsOne
  <1>7. F[k + d + 1] = SplitStep(F[k + d], s[k + d + 1])
    <2>1. k + d \in 0..(n - 1)
      BY <1>1, <1>4
    <2> QED
      BY <2>1, Zenon DEF Runs
  <1>8. SplitStep(InDims(d, args), b) = InArg(Append(args, Append(Dims(d), b)))
    <2>1. AllSteps(args, <<>>, d)
      BY <1>1, Steps
    <2> QED
      BY <1>1, <2>1, Zenon DEF AllSteps
  <1>9. Append(Dims(d), b) = w
    BY <1>1, <1>2, <1>3, AppendIs
  <1>10. k + m = k + d + 1
    BY <1>1, <1>4
  <1> QED
    BY <1>5, <1>6, <1>7, <1>8, <1>9, <1>10, Zenon

LEMMA RunClassWord ==
    ASSUME NEW F, NEW s, NEW n \in Nat, Runs(F, s, n), NEW k \in Nat, NEW m \in Nat, k + m <= n,
           NEW args, F[k] = InArg(args), NEW w, NEW v, Stands(s, k, w, m),
           NEW d, NEW body, IsClassWord(w, v, d, body)
    PROVE  F[k + m] = InArg(Append(args, v))
  <1>1. d \in Nat /\ body \in Text
    BY DEF IsClassWord
  <1>2. PICK l, x, y, c, e : /\ l = Len(body) /\ l \in Nat
                             /\ x = Dims(d) /\ x \in Text /\ Len(x) = d
                             /\ y = <<"L">> /\ y \in Text /\ Len(y) = 1
                             /\ c = y \o body /\ c \in Text /\ Len(c) = 1 + l
                             /\ e = <<";">> /\ e \in Text /\ Len(e) = 1
    <2>1. "L" \in Letter /\ ";" \in Letter
      BY Letters2
    <2>2. Dims(d) \in Text /\ Len(Dims(d)) = d
      BY <1>1, DimsAre
    <2>3. Len(body) \in Nat
      BY <1>1, TextIs
    <2>4. PICK y : y = <<"L">> /\ y \in Text /\ Len(y) = 1
      BY <2>1, Char
    <2>5. PICK e : e = <<";">> /\ e \in Text /\ Len(e) = 1
      BY <2>1, Char
    <2>6. y \o body \in Text /\ Len(y \o body) = 1 + Len(body)
      BY <1>1, <2>4, Cat
    <2> QED
      BY <2>2, <2>3, <2>4, <2>5, <2>6, Zenon
  <1>3. v = c \o e /\ w = x \o v
    BY <1>2, Zenon DEF IsClassWord
  <1>n. l \in Nat /\ d \in Nat /\ l + 1 \in Nat /\ l + 2 \in Nat /\ 1 \in Nat /\ k + d \in Nat
    <2>1. l \in Nat /\ d \in Nat
      BY <1>1, <1>2, Zenon
    <2> QED
      BY <2>1
  <1>4. v \in Text /\ Len(v) = l + 2
    <2>1. c \in Text /\ e \in Text /\ Len(c) = 1 + l /\ Len(e) = 1
      BY <1>2, Zenon
    <2>2. c \o e \in Text /\ Len(c \o e) = Len(c) + Len(e)
      BY <2>1, Cat
    <2>3. 1 + l + 1 = l + 2
      BY <1>n
    <2> QED
      BY <1>3, <2>1, <2>2, <2>3, Zenon
  <1>5. m = d + (l + 2) /\ Stands(s, k, x, d) /\ Stands(s, k + d, v, l + 2)
    <2>1. x \in Text /\ v \in Text /\ d = Len(x) /\ l + 2 = Len(v) /\ IsCat(w, x, v)
      BY <1>2, <1>3, <1>4, Zenon DEF IsCat
    <2>2. Stands(s, k, x, d) /\ Stands(s, k + d, v, l + 2)
      BY <1>n, <2>1, StandsParts
    <2>3. m = d + (l + 2)
      BY <1>n, <2>1, StandsLen
    <2> QED
      BY <2>2, <2>3
  <1>6. Stands(s, k + d, c, l + 1) /\ Stands(s, k + d + (l + 1), e, 1)
    <2>1. 1 + l = l + 1
      BY <1>n
    <2>2. /\ c \in Text /\ e \in Text /\ l + 1 = Len(c) /\ 1 = Len(e)
          /\ Stands(s, k + d, v, l + 2) /\ IsCat(v, c, e)
      BY <1>2, <1>3, <1>5, <2>1, Zenon DEF IsCat
    <2>3. PICK o \in Nat, a \in Nat, h \in Nat, z \in Nat : o = 1 /\ a = l + 1 /\ h = l + 2 /\ z = k + d
      BY <1>n
    <2>4. a = Len(c) /\ o = Len(e) /\ Stands(s, z, v, h)
      BY <2>2, <2>3, Zenon
    <2>5. Stands(s, z, c, a) /\ Stands(s, z + a, e, o)
      BY <2>2, <2>4, StandsParts
    <2> QED
      BY <2>3, <2>5, Zenon
  <1>7. Stands(s, k + d, y, 1) /\ Stands(s, k + d + 1, body, l)
    <2>1. /\ y \in Text /\ body \in Text /\ 1 = Len(y) /\ l = Len(body)
          /\ Stands(s, k + d, c, l + 1) /\ IsCat(c, y, body)
      BY <1>1, <1>2, <1>6, Zenon DEF IsCat
    <2> QED
      BY <1>n, <2>1, StandsParts
  <1>k. PICK k1 : k1 = k + d
    OBVIOUS
  <1>l. PICK k2 : k2 = k1 + 1
    OBVIOUS
  <1>m. PICK k3 : k3 = k2 + l
    OBVIOUS
  <1>8. /\ k1 = k + d /\ k2 = k1 + 1 /\ k3 = k2 + l /\ k + m = k3 + 1
        /\ k1 \in 0..(n - 1) /\ k2 \in Nat /\ k2 + l <= n /\ k3 \in 0..(n - 1)
        /\ k1 \in Nat /\ k3 \in Nat
        /\ k + d + 1 = k2 /\ k + d + (l + 1) = k3 /\ k + d <= n
    <2>1. m = d + (l + 2)
      BY <1>5
    <2> QED
      BY <1>n, <1>k, <1>l, <1>m, <2>1
  <1>9. F[k1] = InDims(d, args)
    <2>1. k + d <= n /\ Stands(s, k, Dims(d), d)
      BY <1>2, <1>5, <1>8, Zenon
    <2>2. F[k + d] = InDims(d, args)
      BY <1>1, <2>1, RunDims2
    <2> QED
      BY <1>8, <2>2, Zenon
  <1>10. F[k2] = InClass(<<"L">>, args)
    <2>1. s[k1 + 1] = "L"
      <3>1. "L" \in Letter /\ Stands(s, k1, <<"L">>, 1)
        BY <1>2, <1>7, <1>8, Letters2, Zenon
      <3> QED
        BY <1>8, <3>1, StandsOne
    <2>2. F[k1 + 1] = SplitStep(F[k1], s[k1 + 1])
      BY <1>8, Zenon DEF Runs
    <2>3. AllSteps(args, <<>>, d)
      BY <1>1, Steps
    <2> QED
      BY <1>8, <1>9, <2>1, <2>2, <2>3, Zenon DEF AllSteps
  <1>11. F[k3] = InClass(c, args)
    <2>1. IsBody(s, k2, body, l)
      <3>1. ASSUME NEW j \in 0..(l - 1) PROVE s[k2 + j + 1] = body[j + 1] /\ body[j + 1] # ";"
        <4>1. j + 1 \in 1..l
          BY <1>n
        <4>2. body[j + 1] # ";"
          BY <1>2, <4>1, Zenon DEF IsClassWord
        <4>3. s[k2 + j + 1] = body[j + 1]
          <5>1. Stands(s, k2, body, l)
            BY <1>7, <1>8, Zenon
          <5> QED
            BY <5>1, Zenon DEF Stands
        <4> QED
          BY <4>2, <4>3
      <3> QED
        BY <1>1, <1>2, <3>1 DEF IsBody
    <2>2. F[k2] = InClass(y, args)
      BY <1>2, <1>10
    <2>3. F[k2 + l] = InClass(y \o body, args)
      <3>1. y \in Text /\ k2 \in Nat /\ k2 + l <= n
        BY <1>2, <1>8, Zenon
      <3> QED
        BY <1>n, <2>1, <2>2, <3>1, RunClass
    <2> QED
      BY <1>2, <1>8, <2>3, Zenon
  <1>12. s[k3 + 1] = ";"
    <2>1. ";" \in Letter /\ Stands(s, k3, <<";">>, 1)
      BY <1>2, <1>6, <1>8, Letters2, Zenon
    <2> QED
      BY <1>8, <2>1, StandsOne
  <1>13. F[k3 + 1] = SplitStep(F[k3], s[k3 + 1])
    BY <1>8, Zenon DEF Runs
  <1>14. SplitStep(InClass(c, args), ";") = InArg(Append(args, Append(c, ";")))
    <2>1. AllSteps(args, c, 0)
      BY Steps
    <2> QED
      BY <2>1, Zenon DEF AllSteps
  <1>15. Append(c, ";") = v
    <2>1. ";" \in Letter
      BY Letters2
    <2> QED
      BY <1>2, <1>3, <2>1, AppendIs
  <1> QED
    BY <1>8, <1>11, <1>12, <1>13, <1>14, <1>15, Zenon

LEMMA RunWord ==
    ASSUME NEW F, NEW s, NEW n \in Nat, Runs(F, s, n), NEW k \in Nat, NEW m \in Nat, k + m <= n,
           NEW args, F[k] = InArg(args), NEW w, NEW v, Stands(s, k, w, m), IsSigWord(w, v)
    PROVE  F[k + m] = InArg(Append(args, v))
  <1>1. ASSUME NEW d, NEW b, IsBaseWord(w, d, b)
        PROVE  F[k + m] = InArg(Append(args, w))
    BY <1>1, RunBase
  <1>2. ASSUME NEW d, NEW body, IsClassWord(w, v, d, body)
        PROVE  F[k + m] = InArg(Append(args, v))
    BY <1>2, RunClassWord
  <1> QED
    BY <1>1, <1>2, Zenon DEF IsSigWord

-----------------------------------------------------------------------------
(* A signature is split into its words, or refused.                        *)

\* The pieces of p stand in their concatenation s, piece k + 1 behind position G[k].
LEMMA Pieces ==
    ASSUME NEW p \in Seq(Text), NEW n \in Nat, n = Len(p)
    PROVE  \E G : /\ G[0] = 0 /\ G[n] = Len(FlattenSeq(p))
                  /\ \A k \in 0..n : G[k] \in Nat
                  /\ \A k \in 0..(n - 1) : /\ p[k + 1] \in Text /\ Len(p[k + 1]) \in Nat
                                           /\ G[k + 1] = G[k] + Len(p[k + 1])
                                           /\ G[k + 1] <= Len(FlattenSeq(p))
                                           /\ Stands(FlattenSeq(p), G[k], p[k + 1], Len(p[k + 1]))
  <1>1. PICK s, l : s = FlattenSeq(p) /\ s \in Text /\ l = Len(s) /\ l \in Nat
    <2>1. FlattenSeq(p) \in Text
      BY FlattenAt
    <2>2. Len(FlattenSeq(p)) \in Nat
      BY <2>1, TextIs
    <2> QED
      BY <2>1, <2>2
  <1>2. PICK H : H = Heads(p)
    OBVIOUS
  <1>3. PICK G : G = [k \in 0..n |-> Len(H[k])]
    OBVIOUS
  <1>4. /\ \A i \in 0..n : Len(H[i]) \in 0..l
        /\ Len(H[0]) = 0 /\ Len(H[n]) = l
        /\ \A k \in 0..(n - 1) :
             /\ Len(H[k + 1]) = Len(H[k]) + Len(p[k + 1])
             /\ \A j \in 1..Len(p[k + 1]) : s[Len(H[k]) + j] = p[k + 1][j]
    BY <1>1, <1>2, FlattenAt, Zenon
  <1>5. \A k \in 0..n : G[k] = Len(H[k])
    BY <1>3
  <1>6. 0 \in 0..n /\ n \in 0..n
    OBVIOUS
  <1>7. G[0] = 0 /\ G[n] = l
    BY <1>4, <1>5, <1>6, Zenon
  <1>8. \A k \in 0..n : G[k] \in 0..l
    BY <1>4, <1>5, Zenon
  <1>9. ASSUME NEW k \in 0..(n - 1)
        PROVE  /\ p[k + 1] \in Text /\ Len(p[k + 1]) \in Nat
               /\ G[k + 1] = G[k] + Len(p[k + 1])
               /\ G[k + 1] <= l
               /\ Stands(s, G[k], p[k + 1], Len(p[k + 1]))
    <2>1. k \in 0..n /\ k + 1 \in 0..n /\ k + 1 \in 1..n
      OBVIOUS
    <2>2. p[k + 1] \in Text
      BY <2>1, InSeq
    <2>3. PICK w, m, g : w = p[k + 1] /\ w \in Text /\ m = Len(w) /\ m \in Nat /\ g = G[k] /\ g \in Nat
      <3>1. Len(p[k + 1]) \in Nat
        BY <2>2, TextIs
      <3>2. G[k] \in Nat
        BY <1>8, <2>1
      <3> QED
        BY <2>2, <3>1, <3>2
    <2>4. G[k + 1] = g + m
      BY <1>4, <1>5, <2>1, <2>3, Zenon
    <2>5. G[k + 1] <= l
      BY <1>8, <1>1, <2>1
    <2>6. \A j \in 1..m : s[g + j] = w[j]
      BY <1>4, <1>5, <2>1, <2>3, Zenon
    <2>7. ASSUME NEW j \in 0..(m - 1) PROVE s[g + j + 1] = w[j + 1]
      <3>1. PICK i \in 1..m : i = j + 1 /\ g + i = g + j + 1
        BY <2>3
      <3>2. s[g + i] = w[i]
        BY <2>6, <3>1, Zenon
      <3> QED
        BY <3>1, <3>2, Zenon
    <2>8. Stands(s, g, w, m)
      BY <2>3, <2>7 DEF Stands
    <2> QED
      BY <2>2, <2>3, <2>4, <2>5, <2>8, Zenon
  <1>10. \A k \in 0..n : G[k] \in Nat
    BY <1>8, <1>1
  <1> QED
    BY <1>1, <1>7, <1>9, <1>10, Zenon

\* The words of a signature and what the hook takes from them.
AllWords(p, q, n) ==
    /\ p \in Seq(Text) /\ n = Len(p)
    /\ q \in Seq(Text) /\ n = Len(q)
    /\ \A k \in 0..(n - 1) : IsSigWord(p[k + 1], q[k + 1])

LEMMA AppendNext ==
    ASSUME NEW q \in Seq(Text), NEW n \in Nat, n = Len(q), NEW k \in 0..(n - 1)
    PROVE  Append(SubSeq(q, 1, k), q[k + 1]) = SubSeq(q, 1, k + 1)
  <1>1. PICK h : h = SubSeq(q, 1, k)
    OBVIOUS
  <1>2. h \in Seq(Text)
    BY <1>1, SubSeqProperties
  <1>3. PICK c : c = q[k + 1] /\ c \in Text
    <2>1. k + 1 \in 1..n
      OBVIOUS
    <2> QED
      BY <2>1, InSeq
  <1>4. Append(h, c) = h \o <<c>>
    BY <1>2, <1>3, AppendIsConcat
  <1>5. SubSeq(q, 1, k + 1) = SubSeq(q, 1, k + 1 - 1) \o <<q[k + 1]>>
    <2>1. 1 \in 1..Len(q) /\ k + 1 \in 1..Len(q)
      OBVIOUS
    <2> QED
      BY <2>1, SubSeqRecursiveSecond
  <1>6. k + 1 - 1 = k
    OBVIOUS
  <1> QED
    BY <1>1, <1>3, <1>4, <1>5, <1>6, Zenon

\* A signature is split into its words.
LEMMA SplitWords ==
    ASSUME NEW p, NEW q, NEW n \in Nat, AllWords(p, q, n)
    PROVE  split_args_sig(FlattenSeq(p)) = [ok |-> "yes", args |-> q]
  <1>0. p \in Seq(Text) /\ n = Len(p) /\ q \in Seq(Text) /\ n = Len(q)
    BY DEF AllWords
  <1>1. PICK s, l : s = FlattenSeq(p) /\ l = Len(s) /\ l \in Nat
    <2>1. FlattenSeq(p) \in Text
      BY <1>0, FlattenAt
    <2>2. Len(FlattenSeq(p)) \in Nat
      BY <2>1, TextIs
    <2> QED
      BY <2>1, <2>2
  <1>2. PICK F : /\ Runs(F, s, l)
                 /\ split_args_sig(s) = IF F[l].mode = "arg" THEN [ok |-> "yes", args |-> F[l].args]
                                        ELSE Failed
    BY <1>1, RunIs
  <1>3. PICK G : /\ G[0] = 0 /\ G[n] = l
                 /\ \A k \in 0..n : G[k] \in Nat
                 /\ \A k \in 0..(n - 1) : /\ p[k + 1] \in Text /\ Len(p[k + 1]) \in Nat
                                          /\ G[k + 1] = G[k] + Len(p[k + 1])
                                          /\ G[k + 1] <= l
                                          /\ Stands(s, G[k], p[k + 1], Len(p[k + 1]))
    BY <1>0, <1>1, Pieces, Zenon
  <1> DEFINE S == {k \in 0..n : F[G[k]] = InArg(SubSeq(q, 1, k))}
  <1>4. 0 \in S
    <2>1. SubSeq(q, 1, 0) = <<>> /\ 0 \in 0..n
      BY SubSeqEmpty
    <2>2. AllSteps(<<>>, <<>>, 0)
      BY Steps
    <2>3. F[0] = InArg(<<>>)
      BY <1>2, <2>2, Zenon DEF Runs, AllSteps
    <2>4. F[G[0]] = InArg(SubSeq(q, 1, 0))
      BY <1>3, <2>1, <2>3, Zenon
    <2> QED
      BY <2>1, <2>4
  <1>5. ASSUME NEW k \in 0..(n - 1), k \in S PROVE k + 1 \in S
    <2>1. k + 1 \in 0..n /\ k \in 0..n
      OBVIOUS
    <2>2. PICK w, v, m, g : /\ w = p[k + 1] /\ v = q[k + 1] /\ m = Len(w) /\ m \in Nat
                            /\ g = G[k] /\ g \in Nat
                            /\ Stands(s, g, w, m) /\ IsSigWord(w, v)
                            /\ G[k + 1] = g + m /\ G[k + 1] <= l
      BY <1>3, <2>1, Zenon DEF AllWords
    <2>3. F[g] = InArg(SubSeq(q, 1, k))
      BY <1>5, <2>2
    <2>4. F[g + m] = InArg(Append(SubSeq(q, 1, k), v))
      <3>1. Runs(F, s, l) /\ l \in Nat /\ g \in Nat /\ m \in Nat /\ g + m <= l
        BY <1>1, <1>2, <2>2, Zenon
      <3>2. PICK a : a = SubSeq(q, 1, k)
        OBVIOUS
      <3>3. F[g + m] = InArg(Append(a, v))
        BY <2>2, <2>3, <3>1, <3>2, RunWord
      <3> QED
        BY <3>2, <3>3, Zenon
    <2>5. Append(SubSeq(q, 1, k), v) = SubSeq(q, 1, k + 1)
      BY <1>0, <2>2, AppendNext, Zenon
    <2>6. F[G[k + 1]] = InArg(SubSeq(q, 1, k + 1))
      BY <2>2, <2>4, <2>5, Zenon
    <2> QED
      BY <2>1, <2>6
  <1> HIDE DEF S
  <1>6. \A k \in 0..n : k \in S
    BY <1>4, <1>5, Induct
  <1>7. n \in S
    BY <1>6
  <1>8. F[G[n]] = InArg(SubSeq(q, 1, n))
    BY <1>7 DEF S
  <1>9. SubSeq(q, 1, n) = q
    BY <1>0, SubSeqFull
  <1>10. F[l] = InArg(q)
    BY <1>3, <1>8, <1>9, Zenon
  <1>11. F[l].mode = "arg" /\ F[l].args = q
    BY <1>10 DEF InArg, St
  <1> QED
    BY <1>1, <1>2, <1>11, Zenon

-----------------------------------------------------------------------------
\* A signature that begins with a digit is refused.
LEMMA StaysError ==
    ASSUME NEW F, NEW s, NEW n \in Nat, n # 0, Runs(F, s, n), s[1] = "1"
    PROVE  F[n].mode = "error"
  <1> DEFINE S == {k \in 0..n : k # 0 => F[k].mode = "error"}
  <1>1. 0 \in S
    OBVIOUS
  <1>2. F[1].mode = "error"
    <2>1. 0 \in 0..(n - 1) /\ 0 + 1 = 1
      OBVIOUS
    <2>2. F[0 + 1] = SplitStep(F[0], s[0 + 1])
      BY <2>1, Zenon DEF Runs
    <2>3. F[1] = SplitStep(F[0], s[1])
      BY <2>1, <2>2, Zenon
    <2>4. PICK m, z, e, c : m = "arg" /\ z = 0 /\ e = <<>> /\ c = "1"
      OBVIOUS
    <2>5. F[0] = St(m, z, e, e)
      BY <2>4, Zenon DEF Runs, SplitStart, St
    <2>6. OneStep(m, z, e, e, c)
      BY StepIs
    <2>7. /\ m # "error" /\ m # "class" /\ c \notin {"[", "L"} /\ ~ is_java_base_args_sig(c)
      BY <2>4 DEF is_java_base_args_sig
    <2>8. SplitStep(St(m, z, e, e), c) = St("error", z, e, e)
      BY <2>6, <2>7, Zenon DEF OneStep
    <2>9. F[1] = St("error", z, e, e)
      BY <2>3, <2>4, <2>5, <2>8, Zenon
    <2> QED
      BY <2>9 DEF St
  <1>3. ASSUME NEW k \in 0..(n - 1), k \in S PROVE k + 1 \in S
    <2>1. CASE k = 0
      BY <1>2, <2>1
    <2>2. CASE k # 0
      <3>1. F[k].mode = "error"
        BY <1>3, <2>2
      <3>2. F[k + 1] = SplitStep(F[k], s[k + 1])
        BY Zenon DEF Runs
      <3>3. F[k + 1] = F[k]
        BY <3>1, <3>2, Zenon DEF SplitStep
      <3> QED
        BY <3>1, <3>3
    <2> QED
      BY <2>1, <2>2
  <1> HIDE DEF S
  <1>4. \A k \in 0..n : k \in S
    BY <1>1, <1>3, Induct
  <1>5. n \in S
    BY <1>4
  <1> QED
    BY <1>5 DEF S

LEMMA SplitRefused ==
    ASSUME NEW s \in Text, s # <<>>, s[1] = "1"
    PROVE  split_args_sig(s) = Failed
  <1>1. PICK n \in Nat : n = Len(s) /\ n # 0
    BY TextIs
  <1>2. PICK F : /\ Runs(F, s, n)
                 /\ split_args_sig(s) = IF F[n].mode = "arg" THEN [ok |-> "yes", args |-> F[n].args]
                                        ELSE Failed
    BY <1>1, RunIs
  <1>3. F[n].mode = "error"
    BY <1>1, <1>2, StaysError
  <1>4. F[n].mode # "arg"
    BY <1>3
  <1> QED
    BY <1>2, <1>4, Zenon

-----------------------------------------------------------------------------
(* Kinds of texts that are closed under concatenation.                     *)

\* A kind of text that is closed under concatenation.
IsKind(T) ==
    /\ \A x \in T : x \in Text
    /\ <<>> \in T
    /\ \A x \in T, y \in T : \A z : IsCat(z, x, y) => z \in T

LEMMA KindFlatten ==
    ASSUME NEW T, IsKind(T), NEW p, NEW n \in Nat, p \in Seq(Text), n = Len(p),
           \A k \in 0..(n - 1) : p[k + 1] \in T
    PROVE  FlattenSeq(p) \in T
  <1>1. PICK H : H = Heads(p)
    OBVIOUS
  <1>2. /\ H[0] = <<>>
        /\ \A k \in 0..(n - 1) : H[k + 1] = H[k] \o p[k + 1]
        /\ FlattenSeq(p) = H[n]
    <2>1. H[0] = <<>> /\ \A k \in 0..(n - 1) : H[k + 1] = H[k] \o p[k + 1]
      BY <1>1, HeadsAre, Zenon
    <2>2. FlattenSeq(p) = H[n]
      BY <1>1, FlattenIs, Zenon
    <2> QED
      BY <2>1, <2>2, Zenon
  <1> DEFINE S == {k \in 0..n : H[k] \in T}
  <1>3. 0 \in S
    <2>1. H[0] \in T
      BY <1>2, Zenon DEF IsKind
    <2> QED
      BY <2>1
  <1>4. ASSUME NEW k \in 0..(n - 1), k \in S PROVE k + 1 \in S
    <2>1. k + 1 \in 0..n
      OBVIOUS
    <2>2. H[k] \in T /\ p[k + 1] \in T
      BY <1>4
    <2>3. IsCat(H[k + 1], H[k], p[k + 1])
      BY <1>2, Zenon DEF IsCat
    <2>4. H[k + 1] \in T
      BY <2>2, <2>3, Zenon DEF IsKind
    <2> QED
      BY <2>1, <2>4
  <1> HIDE DEF S
  <1>5. \A k \in 0..n : k \in S
    BY <1>3, <1>4, Induct
  <1>6. n \in S
    BY <1>5
  <1>7. H[n] \in T
    BY <1>6 DEF S
  <1> QED
    BY <1>2, <1>7, Zenon

LEMMA KindCat ==
    ASSUME NEW T, IsKind(T), NEW x \in T, NEW y \in T
    PROVE  x \o y \in T
  <1>1. IsCat(x \o y, x, y)
    BY DEF IsCat
  <1> QED
    BY <1>1, Zenon DEF IsKind

LEMMA KindText ==
    ASSUME NEW T, IsKind(T), NEW x \in T
    PROVE  x \in Text
  BY Zenon DEF IsKind

\* Texts without the letters of a set.
Without(A) == {s \in Text : \A i \in 1..Len(s) : s[i] \notin A}

LEMMA WithoutKind ==
    ASSUME NEW A
    PROVE  IsKind(Without(A))
  <1>1. \A x \in Without(A) : x \in Text
    BY DEF Without
  <1>2. <<>> \in Without(A)
    BY Empty DEF Without
  <1>3. ASSUME NEW x \in Without(A), NEW y \in Without(A), NEW z, IsCat(z, x, y)
        PROVE  z \in Without(A)
    <2>1. /\ x \in Text /\ \A i \in 1..Len(x) : x[i] \notin A
          /\ y \in Text /\ \A i \in 1..Len(y) : y[i] \notin A
      BY DEF Without
    <2>2. PICK c \in Nat, e \in Nat : c = Len(x) /\ e = Len(y)
      BY <2>1, TextIs
    <2>3. /\ z \in Text /\ Len(z) = c + e
          /\ \A i \in 1..c : z[i] = x[i]
          /\ \A i \in 1..e : z[c + i] = y[i]
      BY <1>3, <2>1, <2>2, Cat, Zenon DEF IsCat
    <2>4. ASSUME NEW i \in 1..(c + e) PROVE z[i] \notin A
      <3>1. CASE i <= c
        <4>1. i \in 1..c
          BY <3>1
        <4> QED
          BY <2>1, <2>2, <2>3, <4>1, Zenon
      <3>2. CASE ~ (i <= c)
        <4>1. PICK j \in 1..e : i = c + j
          <5>1. i - c \in 1..e /\ i = c + (i - c)
            BY <3>2
          <5> QED
            BY <5>1
        <4> QED
          BY <2>1, <2>2, <2>3, <4>1, Zenon
      <3> QED
        BY <3>1, <3>2
    <2> QED
      BY <2>3, <2>4 DEF Without
  <1> QED
    BY <1>1, <1>2, <1>3, Zenon DEF IsKind

LEMMA WithoutOne ==
    ASSUME NEW A, NEW c \in Letter, c \notin A
    PROVE  <<c>> \in Without(A)
  <1>1. PICK e : e = <<c>> /\ e \in Text /\ Len(e) = 1 /\ e[1] = c
    BY Char
  <1>2. \A i \in 1..1 : i = 1
    OBVIOUS
  <1>3. e \in Without(A)
    BY <1>1, <1>2 DEF Without
  <1> QED
    BY <1>1, <1>3

LEMMA WithoutIs ==
    ASSUME NEW A, NEW s \in Without(A)
    PROVE  /\ s \in Text /\ \A i \in 1..Len(s) : s[i] \notin A
           /\ \A i \in 0..(Len(s) - 1) : s[i + 1] \notin A
  <1>1. s \in Text /\ \A i \in 1..Len(s) : s[i] \notin A
    BY DEF Without
  <1>2. PICK n \in Nat : n = Len(s)
    BY <1>1, TextIs
  <1>3. ASSUME NEW i \in 0..(n - 1) PROVE s[i + 1] \notin A
    <2>1. i + 1 \in 1..n
      OBVIOUS
    <2> QED
      BY <1>1, <1>2, <2>1
  <1> QED
    BY <1>1, <1>2, <1>3

\* A slash is followed by a letter that begins an identifier, and one of First.
Slashed(First) ==
    {s \in Text : \A i \in 1..Len(s) : s[i] = "/" => i < Len(s) /\ s[i + 1] \in First}

LEMMA SlashedKind ==
    ASSUME NEW A
    PROVE  IsKind(Slashed(A))
  <1>1. \A x \in Slashed(A) : x \in Text
    BY DEF Slashed
  <1>2. <<>> \in Slashed(A)
    BY Empty DEF Slashed
  <1>3. ASSUME NEW x \in Slashed(A), NEW y \in Slashed(A), NEW z, IsCat(z, x, y)
        PROVE  z \in Slashed(A)
    <2>1. /\ x \in Text /\ \A i \in 1..Len(x) : x[i] = "/" => i < Len(x) /\ x[i + 1] \in A
          /\ y \in Text /\ \A i \in 1..Len(y) : y[i] = "/" => i < Len(y) /\ y[i + 1] \in A
      BY DEF Slashed
    <2>2. PICK c \in Nat, e \in Nat : c = Len(x) /\ e = Len(y)
      BY <2>1, TextIs
    <2>3. /\ z \in Text /\ Len(z) = c + e
          /\ \A i \in 1..c : z[i] = x[i]
          /\ \A i \in 1..e : z[c + i] = y[i]
      BY <1>3, <2>1, <2>2, Cat, Zenon DEF IsCat
    <2>4. ASSUME NEW i \in 1..(c + e), z[i] = "/" PROVE i < c + e /\ z[i + 1] \in A
      <3>1. CASE i <= c
        <4>1. i \in 1..c
          BY <3>1
        <4>2. x[i] = "/"
          BY <2>3, <2>4, <4>1, Zenon
        <4>3. i < c /\ x[i + 1] \in A
          BY <2>1, <2>2, <4>1, <4>2, Zenon
        <4>4. PICK j \in 1..c : j = i + 1 /\ i < c + e
          BY <4>1, <4>3
        <4>5. z[j] = x[j]
          BY <2>3, Zenon
        <4> QED
          BY <4>3, <4>4, <4>5, Zenon
      <3>2. CASE ~ (i <= c)
        <4>1. PICK j \in 1..e : i = c + j
          <5>1. i - c \in 1..e /\ i = c + (i - c)
            BY <3>2
          <5> QED
            BY <5>1
        <4>2. y[j] = "/"
          BY <2>3, <2>4, <4>1, Zenon
        <4>3. j < e /\ y[j + 1] \in A
          BY <2>1, <2>2, <4>2, Zenon
        <4>4. PICK k \in 1..e : k = j + 1 /\ c + k = i + 1 /\ i < c + e
          BY <4>1, <4>3
        <4>5. z[c + k] = y[k]
          BY <2>3, Zenon
        <4> QED
          BY <4>3, <4>4, <4>5, Zenon
      <3> QED
        BY <3>1, <3>2
    <2> QED
      BY <2>3, <2>4 DEF Slashed
  <1> QED
    BY <1>1, <1>2, <1>3, Zenon DEF IsKind

LEMMA SlashedWithout ==
    ASSUME NEW A, NEW s \in Without({"/"})
    PROVE  s \in Slashed(A)
  <1>1. s \in Text /\ \A i \in 1..Len(s) : s[i] \notin {"/"}
    BY WithoutIs
  <1> QED
    BY <1>1 DEF Slashed

-----------------------------------------------------------------------------
(* Joined texts and the names of Java.                                     *)

LEMMA WithoutLess ==
    ASSUME NEW A, NEW B, B \subseteq A, NEW s \in Without(A)
    PROVE  s \in Without(B)
  <1>1. s \in Text /\ \A i \in 1..Len(s) : s[i] \notin A
    BY WithoutIs
  <1> QED
    BY <1>1 DEF Without

LEMMA JoinedIs ==
    ASSUME NEW p \in Seq(Text), NEW sep \in Text, NEW n \in Nat, n = Len(p)
    PROVE  \E q : /\ Joined(p, sep) = FlattenSeq(q) /\ q \in Seq(Text) /\ n = Len(q)
                  /\ \A k \in 0..(n - 1) : q[k + 1] = IF k = 0 THEN p[k + 1] ELSE sep \o p[k + 1]
  <1>1. PICK q : q = [i \in DOMAIN p |-> IF i = 1 THEN p[i] ELSE sep \o p[i]]
    OBVIOUS
  <1>2. Joined(p, sep) = FlattenSeq(q)
    BY <1>1, Zenon DEF Joined
  <1>3. DOMAIN p = 1..n /\ \A i \in 1..n : p[i] \in Text
    BY InSeq
  <1>4. \A i \in 1..n : sep \o p[i] \in Text
    BY <1>3, Cat
  <1>5. q \in Seq(Text) /\ Len(q) = n
    BY <1>1, <1>3, <1>4
  <1>6. ASSUME NEW k \in 0..(n - 1)
        PROVE  q[k + 1] = IF k = 0 THEN p[k + 1] ELSE sep \o p[k + 1]
    <2>1. k + 1 \in 1..n /\ (k + 1 = 1 <=> k = 0)
      OBVIOUS
    <2>2. q[k + 1] = IF k + 1 = 1 THEN p[k + 1] ELSE sep \o p[k + 1]
      BY <1>1, <1>3, <2>1
    <2> QED
      BY <2>1, <2>2, Zenon
  <1> QED
    BY <1>2, <1>5, <1>6

LEMMA JoinedKind ==
    ASSUME NEW T, IsKind(T), NEW p \in Seq(Text), NEW sep \in Text, NEW n \in Nat, n = Len(p),
           \A k \in 0..(n - 1) : p[k + 1] \in T /\ sep \o p[k + 1] \in T
    PROVE  Joined(p, sep) \in T
  <1>1. PICK q : /\ Joined(p, sep) = FlattenSeq(q) /\ q \in Seq(Text) /\ n = Len(q)
                 /\ \A k \in 0..(n - 1) : q[k + 1] = IF k = 0 THEN p[k + 1] ELSE sep \o p[k + 1]
    BY JoinedIs
  <1>2. ASSUME NEW k \in 0..(n - 1) PROVE q[k + 1] \in T
    <2>1. CASE k = 0
      BY <1>1, <2>1
    <2>2. CASE k # 0
      BY <1>1, <2>2, Zenon
    <2> QED
      BY <2>1, <2>2
  <1>3. FlattenSeq(q) \in T
    BY <1>1, <1>2, KindFlatten
  <1> QED
    BY <1>1, <1>3, Zenon

LEMMA JoinedKindSep ==
    ASSUME NEW T, IsKind(T), NEW p \in Seq(Text), NEW sep \in T, NEW n \in Nat, n = Len(p),
           \A k \in 0..(n - 1) : p[k + 1] \in T
    PROVE  Joined(p, sep) \in T
  <1>1. sep \in Text
    BY Zenon DEF IsKind
  <1>2. \A k \in 0..(n - 1) : sep \o p[k + 1] \in T
    BY KindCat
  <1> QED
    BY <1>1, <1>2, JoinedKind

-----------------------------------------------------------------------------
\* Names.
Mark == Separator \cup Keyword
IdentFacts(id) ==
    /\ id \in Text /\ id \in Without(Mark) /\ id # <<>> /\ id[1] \notin Digit
    /\ id[1] \in Letter /\ Len(id) \in Nat \ {0}

LEMMA SeqLess ==
    ASSUME NEW S, NEW T, S \subseteq T, NEW s \in Seq(S)
    PROVE  s \in Seq(T)
  OBVIOUS

LEMMA IdentIs ==
    ASSUME NEW id, IsIdentifier(id)
    PROVE  IdentFacts(id)
  <1>1. /\ id \in Seq(STRING) /\ id # <<>> /\ id[1] \notin Digit
        /\ \A i \in DOMAIN id : id[i] \notin Mark
    BY DEF IsIdentifier, Mark
  <1>2. id \in Text
    <2>1. STRING \subseteq Letter
      BY DEF Letter
    <2> QED
      BY <1>1, <2>1, SeqLess, Zenon DEF Text
  <1>3. id \in Without(Mark)
    BY <1>1, <1>2, TextIs DEF Without
  <1>4. Len(id) \in Nat \ {0} /\ id[1] \in Letter
    <2>1. Len(id) \in Nat \ {0} /\ \A i \in 1..Len(id) : id[i] \in Letter
      BY <1>1, <1>2, TextIs
    <2> QED
      BY <2>1
  <1> QED
    BY <1>1, <1>2, <1>3, <1>4 DEF IdentFacts

\* The names of a class, or of a method of it.
IsPath(p, n) ==
    /\ p \in Seq(Text) /\ n \in Nat \ {0} /\ n = Len(p)
    /\ \A k \in 0..(n - 1) : IdentFacts(p[k + 1])

LEMMA PathIs ==
    ASSUME NEW p \in Seq(Seq(STRING)), IsName(p)
    PROVE  \E n : IsPath(p, n)
  <1>1. PICK n \in Nat : n = Len(p)
    OBVIOUS
  <1>2. n # 0 /\ DOMAIN p = 1..n
    BY <1>1 DEF IsName
  <1>3. \A i \in 1..n : IdentFacts(p[i])
    BY <1>2, IdentIs DEF IsName
  <1>4. p \in Seq(Text)
    <2>1. \A i \in 1..n : p[i] \in Text
      BY <1>3 DEF IdentFacts
    <2> QED
      BY <1>1, <2>1
  <1>5. ASSUME NEW k \in 0..(n - 1) PROVE IdentFacts(p[k + 1])
    <2>1. k + 1 \in 1..n
      OBVIOUS
    <2> QED
      BY <1>3, <2>1
  <1>6. IsPath(p, n)
    BY <1>1, <1>2, <1>4, <1>5 DEF IsPath
  <1> QED
    BY <1>6

LEMMA PathAppend ==
    ASSUME NEW p, NEW n, IsPath(p, n), NEW id, IsIdentifier(id)
    PROVE  IsPath(Append(p, id), n + 1)
  <1>1. IdentFacts(id) /\ id \in Text
    BY IdentIs DEF IdentFacts
  <1>2. /\ p \in Seq(Text) /\ n \in Nat \ {0} /\ n = Len(p)
        /\ \A k \in 0..(n - 1) : IdentFacts(p[k + 1])
    BY DEF IsPath
  <1>3. PICK q : q = Append(p, id)
    OBVIOUS
  <1>4. /\ q \in Seq(Text) /\ Len(q) = n + 1 /\ q[n + 1] = id
        /\ \A i \in 1..n : q[i] = p[i]
    BY <1>1, <1>2, <1>3
  <1>5. ASSUME NEW k \in 0..(n + 1 - 1) PROVE IdentFacts(q[k + 1])
    <2>1. CASE k = n
      BY <1>1, <1>4, <2>1
    <2>2. CASE k # n
      <3>1. k \in 0..(n - 1) /\ k + 1 \in 1..n
        BY <1>2, <2>2
      <3> QED
        BY <1>2, <1>4, <3>1
    <2> QED
      BY <2>1, <2>2
  <1>6. n + 1 \in Nat \ {0} /\ n + 1 = Len(q)
    BY <1>2, <1>4
  <1> QED
    BY <1>3, <1>4, <1>5, <1>6 DEF IsPath

\* A name in print has none of the letters of A.
LEMMA PathWithout ==
    ASSUME NEW A, A \subseteq Mark, NEW c \in Letter, c \notin A, NEW p, NEW n, IsPath(p, n)
    PROVE  Joined(p, <<c>>) \in Without(A)
  <1>1. p \in Seq(Text) /\ n \in Nat /\ n = Len(p) /\ \A k \in 0..(n - 1) : p[k + 1] \in Without(Mark)
    BY DEF IsPath, IdentFacts
  <1>2. \A k \in 0..(n - 1) : p[k + 1] \in Without(A)
    BY <1>1, WithoutLess
  <1>3. <<c>> \in Without(A)
    BY WithoutOne
  <1> QED
    BY <1>1, <1>2, <1>3, JoinedKindSep, WithoutKind

-----------------------------------------------------------------------------
(* A letter between two texts.                                             *)

IsOne(w, c) == c \in Letter /\ w = <<c>>

HasLen(x, l) == x \in Text /\ l \in Nat /\ l = Len(x)
CatFacts(z, x, l, y, m) ==
    /\ z \in Text /\ l + m \in Nat /\ Len(z) = l + m
    /\ \A i \in 1..l : z[i] = x[i]
    /\ \A i \in 1..m : z[l + i] = y[i]

LEMMA CatIs ==
    ASSUME NEW x, NEW l, HasLen(x, l), NEW y, NEW m, HasLen(y, m), NEW z, IsCat(z, x, y)
    PROVE  CatFacts(z, x, l, y, m)
  <1>1. x \in Text /\ y \in Text /\ l \in Nat /\ m \in Nat /\ l = Len(x) /\ m = Len(y)
    BY DEF HasLen
  <1>2. l + m \in Nat
    BY <1>1
  <1>3. /\ z \in Text /\ Len(z) = l + m
        /\ \A i \in 1..l : z[i] = x[i]
        /\ \A i \in 1..m : z[l + i] = y[i]
    BY <1>1, Cat, Zenon DEF IsCat
  <1> QED
    BY <1>2, <1>3 DEF CatFacts

LEMMA HitChar ==
    ASSUME NEW s \in Text, NEW c, NEW w, IsOne(w, c), NEW i \in Nat \ {0}, NEW n \in Nat, n = Len(s)
    PROVE  Hit(s, w, i) <=> i <= n /\ s[i] = c
  <1>1. w = <<c>> /\ w \in Text /\ Len(w) = 1 /\ w[1] = c
    BY Char, Zenon DEF IsOne
  <1>2. Hit(s, w, i) <=> /\ i + Len(w) - 1 <= Len(s)
                         /\ \A j \in 1..Len(w) : s[i + j - 1] = w[j]
    BY <1>1, HitIs
  <1>3. (\A j \in 1..1 : s[i + j - 1] = w[j]) <=> s[i] = c
    <2>1. i + 1 - 1 = i /\ \A j \in 1..1 : j = 1
      OBVIOUS
    <2>2. 1 \in 1..1
      OBVIOUS
    <2> QED
      BY <1>1, <2>1, <2>2, Zenon
  <1>4. i + Len(w) - 1 <= Len(s) <=> i <= n
    BY <1>1
  <1> QED
    BY <1>1, <1>2, <1>3, <1>4, Zenon

\* A letter between two texts.
LEMMA Middle ==
    ASSUME NEW x \in Text, NEW c \in Letter, NEW y \in Text,
           NEW l \in Nat, l = Len(x), NEW m \in Nat, m = Len(y)
    PROVE  /\ (x \o <<c>>) \o y \in Text /\ Len((x \o <<c>>) \o y) = l + 1 + m
           /\ \A i \in 1..l : ((x \o <<c>>) \o y)[i] = x[i]
           /\ ((x \o <<c>>) \o y)[l + 1] = c
           /\ \A i \in 1..m : ((x \o <<c>>) \o y)[l + 1 + i] = y[i]
  <1>1. PICK z : /\ z = x \o <<c>> /\ z \in Text /\ Len(z) = l + 1
                 /\ \A i \in 1..l : z[i] = x[i]
                 /\ z[l + 1] = c
    BY CatChar, ZenonT(60)
  <1>2. PICK s, a : s = z \o y /\ IsCat(s, z, y) /\ a = l + 1
    BY DEF IsCat
  <1>3. a \in 1..a /\ \A i \in 1..l : i \in 1..a
    BY <1>2
  <1>7. HasLen(z, a) /\ HasLen(y, m)
    BY <1>1, <1>2 DEF HasLen
  <1>8. CatFacts(s, z, a, y, m)
    BY <1>2, <1>7, CatIs
  <1>6. /\ s \in Text /\ Len(s) = a + m
        /\ \A i \in 1..a : s[i] = z[i]
        /\ \A i \in 1..m : s[a + i] = y[i]
    BY <1>8, Zenon DEF CatFacts
  <1>4. s[l + 1] = c /\ \A i \in 1..l : s[i] = x[i]
    BY <1>1, <1>2, <1>3, <1>6, Zenon
  <1>5. s \in Text /\ Len(s) = l + 1 + m /\ \A i \in 1..m : s[l + 1 + i] = y[i]
    BY <1>2, <1>6, Zenon
  <1> QED
    BY <1>1, <1>2, <1>4, <1>5, Zenon

LEMMA FindChar ==
    ASSUME NEW c, NEW x \in Without({c}), NEW y \in Text, NEW l \in Nat, l = Len(x),
           NEW w, IsOne(w, c), NEW u, IsCat(u, x, w), NEW s, IsCat(s, u, y)
    PROVE  Find(s, w) = l + 1
  <1>1. x \in Text /\ \A i \in 1..l : x[i] # c
    BY WithoutIs
  <1>2. PICK m \in Nat : m = Len(y)
    BY TextIs
  <1>3. /\ s \in Text /\ Len(s) = l + 1 + m
        /\ \A i \in 1..l : s[i] = x[i]
        /\ s[l + 1] = c
    <2>1. s = (x \o <<c>>) \o y /\ c \in Letter
      BY Zenon DEF IsCat, IsOne
    <2> QED
      BY <1>1, <1>2, <2>1, Middle
  <1>4. PICK n \in Nat : n = Len(s) /\ n = l + 1 + m
    BY <1>2, <1>3
  <1>5. \A k \in 1..l : ~ Hit(s, w, k)
    <2>1. ASSUME NEW k \in 1..l PROVE ~ Hit(s, w, k)
      <3>1. s[k] # c /\ k \in Nat \ {0}
        BY <1>1, <1>3
      <3> QED
        BY <1>3, <1>4, <3>1, HitChar
    <2> QED
      BY <2>1
  <1>6. Hit(s, w, l + 1)
    <2>1. l + 1 \in Nat \ {0} /\ l + 1 <= n
      BY <1>4
    <2> QED
      BY <1>3, <1>4, <2>1, HitChar
  <1>7. PICK r \in 1..n : r = l + 1 /\ r - 1 = l
    BY <1>4
  <1>8. FindFrom(s, w, 1) = r
    <2>1. Hit(s, w, r) /\ n = Len(s) /\ \A k \in 1..(r - 1) : ~ Hit(s, w, k)
      BY <1>4, <1>5, <1>6, <1>7, Zenon
    <2>2. 1 \in Nat \ {0}
      OBVIOUS
    <2> QED
      BY <2>1, <2>2, FindAt
  <1> QED
    BY <1>7, <1>8, Zenon DEF Find

LEMMA FindNoChar ==
    ASSUME NEW c \in Letter, NEW s \in Without({c})
    PROVE  Find(s, <<c>>) = 0
  <1>1. s \in Text /\ \A i \in 1..Len(s) : s[i] # c
    BY WithoutIs
  <1>2. PICK n \in Nat : n = Len(s)
    BY <1>1, TextIs
  <1>w. PICK w : w = <<c>> /\ IsOne(w, c)
    BY DEF IsOne
  <1>3. ASSUME NEW k \in 1..n PROVE ~ Hit(s, w, k)
    <2>1. s[k] # c /\ k \in Nat \ {0}
      BY <1>1, <1>2
    <2> QED
      BY <1>w, <1>1, <1>2, <2>1, HitChar
  <1>4. FindFrom(s, w, 1) = 0
    BY <1>2, <1>3, FindNone
  <1> QED
    BY <1>w, <1>4, Zenon DEF Find

LEMMA SubMiddle ==
    ASSUME NEW x \in Text, NEW y \in Text, NEW z \in Text,
           NEW l \in Nat, l = Len(x), NEW m \in Nat, m = Len(y),
           NEW u, IsCat(u, x, y), NEW s, IsCat(s, u, z)
    PROVE  SubSeq(s, l + 1, l + m) = y
  <1>0. PICK c \in Nat : c = l + m
    OBVIOUS
  <1>2. PICK o \in Nat : o = Len(z)
    BY TextIs
  <1>1. /\ u \in Text /\ Len(u) = l + m
        /\ \A i \in 1..m : u[l + i] = y[i]
    <2>1. HasLen(x, l) /\ HasLen(y, m)
      BY DEF HasLen
    <2>2. CatFacts(u, x, l, y, m)
      BY <2>1, CatIs
    <2> QED
      BY <2>2, Zenon DEF CatFacts
  <1>3. /\ s \in Text /\ Len(s) = l + m + o
        /\ \A i \in 1..(l + m) : s[i] = u[i]
    <2>1. HasLen(u, c) /\ HasLen(z, o)
      BY <1>0, <1>1, <1>2 DEF HasLen
    <2>2. CatFacts(s, u, c, z, o)
      BY <2>1, CatIs
    <2> QED
      BY <1>0, <2>2, Zenon DEF CatFacts
  <1>4. PICK a \in Nat \ {0}, b \in Nat : a = l + 1 /\ b = l + m /\ a <= b + 1 /\ b <= Len(s)
                                          /\ b + 1 - a = m
    <2>1. l + m <= Len(s)
      BY <1>3
    <2>2. l + 1 \in Nat \ {0} /\ l + m \in Nat /\ l + 1 <= l + m + 1 /\ l + m + 1 - (l + 1) = m
      OBVIOUS
    <2> QED
      BY <2>1, <2>2
  <1>5. /\ SubSeq(s, a, b) \in Text /\ Len(SubSeq(s, a, b)) = b + 1 - a
        /\ \A i \in 1..(b + 1 - a) : SubSeq(s, a, b)[i] = s[a + i - 1]
    <2>1. s \in Text /\ b <= Len(s) /\ a <= b + 1
      BY <1>3, <1>4, Zenon
    <2> QED
      BY <2>1, SubText
  <1>6. ASSUME NEW i \in 1..m PROVE SubSeq(s, a, b)[i] = y[i]
    <2>1. PICK j \in 1..(l + m) : j = l + i /\ a + i - 1 = j
      BY <1>4
    <2>2. SubSeq(s, a, b)[i] = s[j]
      BY <1>4, <1>5, <2>1
    <2>3. s[j] = u[l + i] /\ u[l + i] = y[i]
      BY <1>1, <1>3, <2>1
    <2> QED
      BY <2>2, <2>3
  <1>7. SubSeq(s, a, b) = y
    <2>1. PICK v : v = SubSeq(s, a, b)
      OBVIOUS
    <2>2. v \in Text /\ Len(v) = m
      BY <1>4, <1>5, <2>1
    <2>3. \A i \in 1..m : v[i] = y[i]
      BY <1>6, <2>1
    <2>4. v = y
      BY <2>2, <2>3, Same
    <2> QED
      BY <2>1, <2>4
  <1> QED
    BY <1>4, <1>7, Zenon

\* The same with the hypotheses named.
Lacks(x, l, c) == HasLen(x, l) /\ x \in Without({c})

LEMMA FindLetter ==
    ASSUME NEW x, NEW l, NEW c, Lacks(x, l, c), NEW w, IsOne(w, c), NEW y, NEW m, HasLen(y, m),
           NEW u, IsCat(u, x, w), NEW s, IsCat(s, u, y)
    PROVE  Find(s, w) = l + 1
  <1>1. c \in Letter /\ x \in Without({c}) /\ l \in Nat /\ l = Len(x) /\ y \in Text
    BY DEF Lacks, HasLen, IsOne
  <1> QED
    BY <1>1, FindChar

LEMMA SubPart ==
    ASSUME NEW x, NEW l, HasLen(x, l), NEW y, NEW m, HasLen(y, m), NEW z, NEW n, HasLen(z, n),
           NEW u, IsCat(u, x, y), NEW s, IsCat(s, u, z)
    PROVE  SubSeq(s, l + 1, l + m) = y
  <1>1. x \in Text /\ y \in Text /\ z \in Text /\ l \in Nat /\ m \in Nat /\ l = Len(x) /\ m = Len(y)
    BY DEF HasLen
  <1> QED
    BY <1>1, SubMiddle

LEMMA HasLenIs ==
    ASSUME NEW x \in Text
    PROVE  HasLen(x, Len(x))
  BY TextIs DEF HasLen

LEMMA AssocIs ==
    ASSUME NEW x \in Text, NEW y \in Text, NEW z \in Text, NEW u, IsCat(u, x, y), NEW v, IsCat(v, y, z),
           NEW s, IsCat(s, u, z)
    PROVE  IsCat(s, x, v)
  BY Assoc, Zenon DEF IsCat

-----------------------------------------------------------------------------
(* The signature of a type.                                                *)

\* What the hook takes from the signature of a type: the dimensions of an array of
\* objects are lost.
SigTaken(t) == IF t.word = "class" THEN (<<"L">> \o Joined(t.path, <<"/">>)) \o <<";">>
                                   ELSE TypeSig(t)

LEMMA Brackets == "[" \in Letter /\ "L" \in Letter /\ ";" \in Letter /\ "/" \in Letter
                    /\ "(" \in Letter /\ ")" \in Letter
  BY Literals DEF Literal

LEMMA DimsKind ==
    ASSUME NEW A, "[" \notin A, NEW d \in Nat
    PROVE  Dims(d) \in Without(A)
  <1>1. Dims(d) \in Text /\ Len(Dims(d)) = d /\ \A j \in 1..d : Dims(d)[j] = "["
    BY DimsAre
  <1> QED
    BY <1>1 DEF Without

LEMMA BaseSigIs ==
    ASSUME NEW w \in Keyword
    PROVE  is_java_base_args_sig(BaseSig(w)) /\ BaseSig(w) # "none"
  BY DEF Keyword, BaseSig, is_java_base_args_sig

\* A type whose word is a keyword.
LEMMA BasicSig ==
    ASSUME NEW t, IsType(t), t.word # "class"
    PROVE  /\ IsBaseWord(TypeSig(t), t.dim, BaseSig(t.word))
           /\ TypeSig(t) = Dims(t.dim) \o <<BaseSig(t.word)>>
  <1>1. t.dim \in Nat /\ t.word \in Keyword
    BY DEF IsType
  <1>2. TypeSig(t) = Dims(t.dim) \o <<BaseSig(t.word)>>
    BY Zenon DEF TypeSig
  <1> QED
    BY <1>1, <1>2, BaseSigIs DEF IsBaseWord

LEMMA ClassSig ==
    ASSUME NEW t, IsType(t), t.word = "class"
    PROVE  /\ TypeSig(t) = Dims(t.dim) \o SigTaken(t)
           /\ SigTaken(t) = (<<"L">> \o Joined(t.path, <<"/">>)) \o <<";">>
           /\ t.dim \in Nat
           /\ \E n : IsPath(t.path, n)
  <1>1. t.dim \in Nat
    BY DEF IsType
  <1>2. t.word \notin Keyword
    BY DEF Keyword
  <1>3. t.path \in Seq(Seq(STRING)) /\ IsName(t.path)
    BY <1>2, Zenon DEF IsType
  <1>4. \E n : IsPath(t.path, n)
    BY <1>3, PathIs
  <1>5. SigTaken(t) = (<<"L">> \o Joined(t.path, <<"/">>)) \o <<";">>
    BY Zenon DEF SigTaken
  <1>6. TypeSig(t) = Dims(t.dim) \o ((<<"L">> \o Joined(t.path, <<"/">>)) \o <<";">>)
    BY Zenon DEF TypeSig
  <1> QED
    BY <1>1, <1>4, <1>5, <1>6, Zenon

\* The letters of a type's signature.
LEMMA TypeSigWithout ==
    ASSUME NEW A, A \subseteq {"(", ")", ",", " ", "."}, NEW t, IsType(t)
    PROVE  TypeSig(t) \in Without(A) /\ SigTaken(t) \in Without(A)
  <1>0. A \subseteq Mark /\ \A c \in {"[", "L", ";", "/"} : c \notin A
    BY DEF Mark, Separator
  <1>1. IsKind(Without(A))
    BY WithoutKind
  <1>d. t.dim \in Nat
    BY DEF IsType
  <1>2. Dims(t.dim) \in Without(A)
    BY <1>0, <1>d, DimsKind
  <1>3. CASE t.word = "class"
    <2>1. PICK n : IsPath(t.path, n)
      BY <1>3, ClassSig
    <2>2. PICK J : J = Joined(t.path, <<"/">>)
      OBVIOUS
    <2>3. J \in Without(A)
      <3>1. "/" \in Letter /\ "/" \notin A
        BY <1>0, Brackets
      <3> QED
        BY <1>0, <2>1, <2>2, <3>1, PathWithout
    <2>4. PICK l, e : l = <<"L">> /\ l \in Without(A) /\ e = <<";">> /\ e \in Without(A)
      <3>1. <<"L">> \in Without(A) /\ <<";">> \in Without(A)
        BY <1>0, Brackets, WithoutOne
      <3> QED
        BY <3>1
    <2>5. (l \o J) \o e \in Without(A)
      <3>1. l \o J \in Without(A)
        BY <1>1, <2>3, <2>4, KindCat
      <3> QED
        BY <1>1, <2>4, <3>1, KindCat
    <2>6. SigTaken(t) = (l \o J) \o e /\ TypeSig(t) = Dims(t.dim) \o SigTaken(t)
      BY <1>3, <2>2, <2>4, ClassSig, Zenon
    <2>7. SigTaken(t) \in Without(A)
      BY <2>5, <2>6, Zenon
    <2>8. TypeSig(t) \in Without(A)
      <3>1. Dims(t.dim) \o SigTaken(t) \in Without(A)
        BY <1>1, <1>2, <2>7, KindCat
      <3> QED
        BY <2>6, <3>1, Zenon
    <2> QED
      BY <2>7, <2>8
  <1>4. CASE t.word # "class"
    <2>1. TypeSig(t) = Dims(t.dim) \o <<BaseSig(t.word)>> /\ SigTaken(t) = TypeSig(t)
      BY <1>4, BasicSig, Zenon DEF SigTaken
    <2>2. PICK b : b = BaseSig(t.word)
      OBVIOUS
    <2>3. b \in Letter /\ b \notin A
      <3>1. t.word \in Keyword
        BY <1>4 DEF IsType
      <3>2. is_java_base_args_sig(b)
        BY <2>2, <3>1, BaseSigIs
      <3>3. b \notin {"(", ")", ",", " ", "."}
        BY <3>2 DEF is_java_base_args_sig
      <3> QED
        BY <3>2, <3>3, BaseLetters
    <2>4. <<b>> \in Without(A)
      BY <2>3, WithoutOne
    <2>5. Dims(t.dim) \o <<b>> \in Without(A)
      BY <1>1, <1>2, <2>4, KindCat
    <2> QED
      BY <2>1, <2>2, <2>5, Zenon
  <1> QED
    BY <1>3, <1>4

LEMMA TypeSigWord ==
    ASSUME NEW t, IsType(t)
    PROVE  IsSigWord(TypeSig(t), SigTaken(t)) /\ TypeSig(t) \in Text /\ SigTaken(t) \in Text
  <1>0. TypeSig(t) \in Text /\ SigTaken(t) \in Text
    <2>1. TypeSig(t) \in Without({}) /\ SigTaken(t) \in Without({})
      BY TypeSigWithout
    <2> QED
      BY <2>1, WithoutIs
  <1>1. CASE t.word = "class"
    <2>1. PICK n : IsPath(t.path, n)
      BY <1>1, ClassSig
    <2>2. PICK J : J = Joined(t.path, <<"/">>)
      OBVIOUS
    <2>3. J \in Without({";"})
      <3>1. "/" \in Letter /\ "/" \notin {";"} /\ {";"} \subseteq Mark
        BY Brackets DEF Mark, Separator
      <3> QED
        BY <2>1, <2>2, <3>1, PathWithout
    <2>4. J \in Text /\ \A j \in 1..Len(J) : J[j] # ";"
      BY <2>3, WithoutIs
    <2>5. SigTaken(t) = (<<"L">> \o J) \o <<";">> /\ TypeSig(t) = Dims(t.dim) \o SigTaken(t) /\ t.dim \in Nat
      BY <1>1, <2>2, ClassSig, Zenon
    <2>6. IsClassWord(TypeSig(t), SigTaken(t), t.dim, J)
      BY <2>4, <2>5, Zenon DEF IsClassWord
    <2> QED
      BY <1>0, <2>6, Zenon DEF IsSigWord
  <1>2. CASE t.word # "class"
    <2>1. SigTaken(t) = TypeSig(t)
      BY <1>2, Zenon DEF SigTaken
    <2>2. IsBaseWord(TypeSig(t), t.dim, BaseSig(t.word))
      BY <1>2, BasicSig
    <2> QED
      BY <1>0, <2>1, <2>2, Zenon DEF IsSigWord
  <1> QED
    BY <1>1, <1>2

-----------------------------------------------------------------------------
(* What a declaration is, and parse_java_signature.                        *)

\* What the hook knows of the arguments of d from its signature.
Taken(d) == [i \in DOMAIN d.args |-> SigTaken(d.args[i])]

LEMMA DeclIs ==
    ASSUME NEW d \in Decl
    PROVE  /\ \E n : IsPath(d.class, n)
           /\ IsIdentifier(d.name)
           /\ IsType(d.ret)
           /\ Len(d.args) \in Nat /\ DOMAIN d.args = 1..Len(d.args)
           /\ \A i \in 1..Len(d.args) : IsType(d.args[i])
           /\ Len(d.args) <= MaxInts /\ Len(d.args) <= MaxFps
           /\ d # NoMethod
  <1>1. /\ d.class \in Seq(Seq(STRING)) /\ IsName(d.class) /\ IsIdentifier(d.name)
        /\ IsType(d.ret)
        /\ d.args \in Seq([word : Keyword \cup {"class"}, dim : Nat, path : Seq(Seq(STRING))])
        /\ \A i \in DOMAIN d.args : IsType(d.args[i])
        /\ Len(d.args) <= MaxInts /\ Len(d.args) <= MaxFps
        /\ d # NoMethod
    BY DeclAssumption, Zenon
  <1>2. \E n : IsPath(d.class, n)
    BY <1>1, PathIs
  <1>3. Len(d.args) \in Nat /\ DOMAIN d.args = 1..Len(d.args)
    BY <1>1, InSeq
  <1>4. \A i \in 1..Len(d.args) : IsType(d.args[i])
    BY <1>1, <1>3, Zenon
  <1> QED
    BY <1>1, <1>2, <1>3, <1>4, Zenon

LEMMA ArgSigsAre ==
    ASSUME NEW d \in Decl
    PROVE  /\ \E p : ArgSigs(d) = FlattenSeq(p) /\ AllWords(p, Taken(d), Len(d.args))
           /\ \A A : A \subseteq {"(", ")", ",", " ", "."} => ArgSigs(d) \in Without(A)
           /\ Len(Taken(d)) = Len(d.args) /\ DOMAIN Taken(d) = 1..Len(d.args)
  <1>1. PICK n \in Nat : n = Len(d.args)
    BY DeclIs
  <1>2. DOMAIN d.args = 1..n /\ \A i \in 1..n : IsType(d.args[i])
    BY <1>1, DeclIs, Zenon
  <1>3. PICK p : p = [i \in DOMAIN d.args |-> TypeSig(d.args[i])]
    OBVIOUS
  <1>4. ArgSigs(d) = FlattenSeq(p)
    BY <1>3, Zenon DEF ArgSigs
  <1>5. PICK q : q = Taken(d)
    OBVIOUS
  <1>6. \A i \in 1..n : /\ IsSigWord(TypeSig(d.args[i]), SigTaken(d.args[i]))
                        /\ TypeSig(d.args[i]) \in Text
                        /\ SigTaken(d.args[i]) \in Text
    BY <1>2, TypeSigWord
  <1>7. p \in Seq(Text) /\ Len(p) = n /\ \A i \in 1..n : p[i] = TypeSig(d.args[i])
    BY <1>2, <1>3, <1>6
  <1>8. q \in Seq(Text) /\ Len(q) = n /\ \A i \in 1..n : q[i] = SigTaken(d.args[i])
    BY <1>2, <1>5, <1>6 DEF Taken
  <1>9. ASSUME NEW k \in 0..(n - 1) PROVE IsSigWord(p[k + 1], q[k + 1])
    <2>1. k + 1 \in 1..n
      OBVIOUS
    <2> QED
      BY <1>6, <1>7, <1>8, <2>1, Zenon
  <1>10. AllWords(p, q, n)
    BY <1>7, <1>8, <1>9 DEF AllWords
  <1>11. ASSUME NEW A, A \subseteq {"(", ")", ",", " ", "."} PROVE ArgSigs(d) \in Without(A)
    <2>1. ASSUME NEW k \in 0..(n - 1) PROVE p[k + 1] \in Without(A)
      <3>1. k + 1 \in 1..n
        OBVIOUS
      <3>2. TypeSig(d.args[k + 1]) \in Without(A)
        <4>1. PICK t : t = d.args[k + 1] /\ IsType(t)
          BY <1>2, <3>1
        <4>2. TypeSig(t) \in Without(A)
          BY <1>11, <4>1, TypeSigWithout
        <4> QED
          BY <4>1, <4>2
      <3> QED
        BY <1>7, <3>1, <3>2, Zenon
    <2>2. FlattenSeq(p) \in Without(A)
      BY <1>7, <2>1, WithoutKind, KindFlatten
    <2> QED
      BY <1>4, <2>2, Zenon
  <1>12. DOMAIN q = 1..n
    BY <1>2, <1>5 DEF Taken
  <1> QED
    BY <1>1, <1>4, <1>5, <1>8, <1>10, <1>11, <1>12, Zenon

\* A signature is read as it was written.
LEMMA SignatureRead ==
    ASSUME NEW d \in Decl
    PROVE  /\ parse_java_signature(Signature(d)) # Failed
           /\ parse_java_signature(Signature(d)).args = Taken(d)
  <1>1. PICK A, R, o, c, s : /\ A = ArgSigs(d) /\ R = TypeSig(d.ret) /\ o = <<"(">> /\ c = <<")">>
                             /\ s = Signature(d)
    OBVIOUS
  <1>2. s = ((o \o A) \o c) \o R
    BY <1>1, Zenon DEF Signature
  <1>3. A \in Without({")"}) /\ A \in Without({"("}) /\ A \in Text
    <2>1. \A B : B \subseteq {"(", ")", ",", " ", "."} => A \in Without(B)
      BY <1>1, ArgSigsAre, Zenon
    <2>2. A \in Without({")"}) /\ A \in Without({"("})
      BY <2>1
    <2> QED
      BY <2>2, WithoutIs
  <1>4. R \in Text
    BY <1>1, DeclIs, TypeSigWord
  <1>5. /\ o \in Text /\ c \in Text /\ Len(o) = 1 /\ Len(c) = 1
        /\ IsOne(o, "(") /\ IsOne(c, ")")
    <2>1. "(" \in Letter /\ ")" \in Letter
      BY Brackets
    <2> QED
      BY <1>1, <2>1, Char DEF IsOne
  <1>6. PICK l \in Nat : l = Len(A)
    BY <1>3, TextIs
  <1>7. PICK u1, u2, y, z : u1 = o \o A /\ u2 = u1 \o c /\ z = c \o R /\ y = A \o z
    OBVIOUS
  <1>8. u1 \in Text /\ u2 \in Text /\ z \in Text /\ y \in Text /\ Len(u1) = l + 1
    <2>1. u1 \in Text /\ Len(u1) = Len(o) + Len(A) /\ z \in Text
      BY <1>3, <1>4, <1>5, <1>7, Cat
    <2>2. u2 \in Text /\ y \in Text
      BY <1>3, <1>5, <1>7, <2>1, Cat
    <2> QED
      BY <1>5, <1>6, <2>1, <2>2
  <1>9. s = u2 \o R /\ s = u1 \o z /\ s = o \o y
    <2>1. s = u2 \o R
      BY <1>2, <1>7, Zenon
    <2>2. (u1 \o c) \o R = u1 \o (c \o R)
      <3>1. u1 \in Text /\ c \in Text /\ R \in Text
        BY <1>4, <1>5, <1>8, Zenon
      <3> QED
        BY <3>1, Assoc
    <2>3. (o \o A) \o z = o \o (A \o z)
      <3>1. o \in Text /\ A \in Text /\ z \in Text
        BY <1>3, <1>5, <1>8, Zenon
      <3> QED
        BY <3>1, Assoc
    <2> QED
      BY <1>7, <2>1, <2>2, <2>3, Zenon
  <1>10. Find(s, c) = l + 2
    <2>1. u1 \in Without({")"})
      <3>1. o \in Without({")"})
        <4>1. "(" \in Letter /\ "(" \notin {")"}
          BY Brackets
        <4> QED
          BY <1>1, <4>1, WithoutOne
      <3> QED
        BY <1>3, <1>7, <3>1, WithoutKind, KindCat
    <2>2. IsCat(u2, u1, c) /\ IsCat(s, u2, R)
      BY <1>7, <1>9, Zenon DEF IsCat
    <2>3. PICK m \in Nat : m = l + 1 /\ m = Len(u1)
      BY <1>8
    <2>4. Find(s, c) = m + 1
      <3>1. Lacks(u1, m, ")") /\ HasLen(R, Len(R)) /\ IsOne(c, ")")
        BY <1>4, <1>5, <1>8, <2>1, <2>3, HasLenIs DEF Lacks, HasLen
      <3> QED
        BY <2>2, <3>1, FindLetter
    <2>5. m + 1 = l + 2
      BY <2>3
    <2> QED
      BY <2>4, <2>5
  <1>11. Find(s, o) = 1
    <2>1. PICK e : e = <<>> /\ e \in Text /\ Len(e) = 0 /\ e \in Without({"("})
      BY Empty, WithoutKind DEF IsKind
    <2>2. IsCat(o, e, o) /\ IsCat(s, o, y)
      <3>1. <<>> \o o = o
        BY <1>5, TextIs
      <3> QED
        BY <1>9, <2>1, <3>1, Zenon DEF IsCat
    <2>3. PICK m \in Nat : m = 0 /\ m = Len(e)
      BY <2>1
    <2>4. Find(s, o) = m + 1
      <3>1. Lacks(e, m, "(") /\ HasLen(y, Len(y)) /\ IsOne(o, "(")
        BY <1>5, <1>8, <2>1, <2>3, HasLenIs DEF Lacks, HasLen
      <3> QED
        BY <2>2, <3>1, FindLetter
    <2> QED
      BY <2>3, <2>4
  <1>12. SubSeq(s, 2, l + 1) = A
    <2>1. IsCat(u1, o, A) /\ IsCat(s, u1, z)
      BY <1>7, <1>9, Zenon DEF IsCat
    <2>2. PICK m \in Nat : m = 1 /\ m = Len(o)
      BY <1>5
    <2>3. SubSeq(s, m + 1, m + l) = A
      <3>1. HasLen(o, m) /\ HasLen(A, l) /\ HasLen(z, Len(z))
        BY <1>3, <1>5, <1>6, <1>8, <2>2, HasLenIs DEF HasLen
      <3> QED
        BY <2>1, <3>1, SubPart
    <2>4. m + 1 = 2 /\ m + l = l + 1
      BY <2>2
    <2> QED
      BY <2>3, <2>4, Zenon
  <1>13. split_args_sig(A) = [ok |-> "yes", args |-> Taken(d)]
    <2>1. PICK p : A = FlattenSeq(p) /\ AllWords(p, Taken(d), Len(d.args))
      BY <1>1, ArgSigsAre, Zenon
    <2>2. Len(d.args) \in Nat
      BY DeclIs
    <2> QED
      BY <2>1, <2>2, SplitWords, Zenon
  <1>14. PICK p1, p2, split : p1 = Find(s, o) /\ p2 = Find(s, c) /\ split = split_args_sig(SubSeq(s, p1 + 1, p2 - 1))
    OBVIOUS
  <1>15. p1 = 1 /\ p2 = l + 2 /\ p1 + 1 = 2 /\ p2 - 1 = l + 1 /\ ~ (p1 > p2) /\ p1 # 0 /\ p2 # 0
    BY <1>10, <1>11, <1>14
  <1>16. split = [ok |-> "yes", args |-> Taken(d)]
    BY <1>12, <1>13, <1>14, <1>15, Zenon
  <1>17. split # Failed /\ split.args = Taken(d)
    BY <1>16 DEF Failed
  <1>18. parse_java_signature(s) = IF p1 = 0 \/ p2 = 0 \/ p1 > p2 \/ split = Failed THEN Failed
                                   ELSE [ok |-> "yes", args |-> split.args,
                                         ret |-> SubSeq(s, p2 + 1, Len(s))]
    BY <1>1, <1>14, Zenon DEF parse_java_signature
  <1>19. parse_java_signature(s) = [ok |-> "yes", args |-> split.args, ret |-> SubSeq(s, p2 + 1, Len(s))]
    BY <1>15, <1>17, <1>18, Zenon
  <1>20. parse_java_signature(s).args = split.args /\ parse_java_signature(s).ok = "yes"
    BY <1>19
  <1>21. parse_java_signature(s) # Failed
    BY <1>20 DEF Failed
  <1> QED
    BY <1>1, <1>17, <1>20, <1>21, Zenon

-----------------------------------------------------------------------------
(* The full name of a method is taken apart.                               *)

Agree(a, b, n) == n \in Nat /\ \A k \in 0..(n - 1) : a[k + 1] = b[k + 1]

LEMMA SameSeq ==
    ASSUME NEW T, NEW a \in Seq(T), NEW b \in Seq(T), NEW n, Agree(a, b, n), n = Len(a), n = Len(b)
    PROVE  a = b
  <1>0. n \in Nat /\ \A k \in 0..(n - 1) : a[k + 1] = b[k + 1]
    BY DEF Agree
  <1>1. ASSUME NEW i \in 1..n PROVE a[i] = b[i]
    <2>1. PICK k \in 0..(n - 1) : k + 1 = i
      <3>1. i - 1 \in 0..(n - 1) /\ i - 1 + 1 = i
        BY <1>0
      <3> QED
        BY <3>1
    <2> QED
      BY <1>0, <2>1
  <1>2. Len(a) = Len(b) /\ \A i \in 1..Len(a) : a[i] = b[i]
    BY <1>0, <1>1
  <1> QED
    BY <1>2, SeqEqual, Zenon

LEMMA CatOne ==
    ASSUME NEW T, NEW a \in Seq(T), NEW y \in T, NEW n \in Nat, n = Len(a)
    PROVE  /\ a \o <<y>> \in Seq(T) /\ Len(a \o <<y>>) = n + 1 /\ (a \o <<y>>)[n + 1] = y
           /\ \A k \in 0..(n - 1) : (a \o <<y>>)[k + 1] = a[k + 1]
  OBVIOUS

LEMMA JoinedAppend ==
    ASSUME NEW p \in Seq(Text), p # <<>>, NEW sep \in Text, NEW x \in Text
    PROVE  Joined(Append(p, x), sep) = Joined(p, sep) \o (sep \o x)
  <1>1. PICK n \in Nat \ {0} : n = Len(p)
    OBVIOUS
  <1>2. PICK q : q = Append(p, x)
    OBVIOUS
  <1>3. /\ q \in Seq(Text) /\ Len(q) = n + 1 /\ q[n + 1] = x
        /\ \A k \in 0..(n - 1) : q[k + 1] = p[k + 1]
    BY <1>1, <1>2
  <1>4. PICK y : y = sep \o x /\ y \in Text
    BY Cat
  <1>5. PICK a : /\ Joined(p, sep) = FlattenSeq(a) /\ a \in Seq(Text) /\ n = Len(a)
                 /\ \A k \in 0..(n - 1) : a[k + 1] = IF k = 0 THEN p[k + 1] ELSE sep \o p[k + 1]
    BY <1>1, JoinedIs
  <1>6. PICK m \in Nat : m = n + 1
    OBVIOUS
  <1>7. PICK c : /\ Joined(q, sep) = FlattenSeq(c) /\ c \in Seq(Text) /\ m = Len(c)
                 /\ \A k \in 0..(m - 1) : c[k + 1] = IF k = 0 THEN q[k + 1] ELSE sep \o q[k + 1]
    <2>1. q \in Seq(Text) /\ m = Len(q)
      BY <1>3, <1>6, Zenon
    <2> QED
      BY <2>1, JoinedIs
  <1>8. PICK b : b = a \o <<y>>
    OBVIOUS
  <1>9. /\ b \in Seq(Text) /\ Len(b) = m /\ b[n + 1] = y
        /\ \A k \in 0..(n - 1) : b[k + 1] = a[k + 1]
    <2>1. a \in Seq(Text) /\ n = Len(a) /\ n \in Nat /\ y \in Text
      BY <1>4, <1>5
    <2> QED
      <3>1. /\ a \o <<y>> \in Seq(Text) /\ Len(a \o <<y>>) = n + 1 /\ (a \o <<y>>)[n + 1] = y
            /\ \A k \in 0..(n - 1) : (a \o <<y>>)[k + 1] = a[k + 1]
        BY <2>1, CatOne
      <3> QED
        BY <1>6, <1>8, <3>1, Zenon
  <1>10. ASSUME NEW k \in 0..(m - 1) PROVE c[k + 1] = b[k + 1]
    <2>1. CASE k = n
      <3>1. k # 0
        BY <2>1
      <3>2. c[k + 1] = sep \o q[k + 1]
        BY <1>7, <3>1, Zenon
      <3> QED
        BY <1>3, <1>4, <1>9, <2>1, <3>2, Zenon
    <2>2. CASE k # n
      <3>1. k \in 0..(n - 1)
        BY <1>6, <2>2
      <3>2. q[k + 1] = p[k + 1] /\ b[k + 1] = a[k + 1]
        BY <1>3, <1>9, <3>1, Zenon
      <3>3. a[k + 1] = IF k = 0 THEN p[k + 1] ELSE sep \o p[k + 1]
        BY <1>5, <3>1, Zenon
      <3>4. c[k + 1] = IF k = 0 THEN q[k + 1] ELSE sep \o q[k + 1]
        BY <1>7, Zenon
      <3> QED
        BY <3>2, <3>3, <3>4, Zenon
    <2> QED
      BY <2>1, <2>2
  <1>11. c = b
    <2>1. c \in Seq(Text) /\ b \in Seq(Text) /\ m = Len(c) /\ m = Len(b)
      BY <1>7, <1>9, Zenon
    <2> QED
      <3>1. Agree(c, b, m)
        BY <1>6, <1>10 DEF Agree
      <3> QED
        BY <2>1, <3>1, SameSeq
  <1>12. FlattenSeq(b) = FlattenSeq(a) \o FlattenSeq(<<y>>)
    <2>1. a \in Seq(Text)
      BY <1>5
    <2>2. <<y>> \in Seq(Text)
      BY <1>4
    <2> QED
      BY <1>8, <2>1, <2>2, FlattenConcat, Zenon
  <1>13. FlattenSeq(<<y>>) = y
    BY <1>4, FlattenOne
  <1> QED
    BY <1>2, <1>4, <1>5, <1>7, <1>11, <1>12, <1>13, Zenon

-----------------------------------------------------------------------------
\* The full name of a method is taken apart at its last point.
LEMMA SplitNameIs ==
    ASSUME NEW J \in Text, J # <<>>, NEW id \in Without({"."}), id # <<>>,
           NEW w, IsOne(w, "."), NEW u, IsCat(u, J, w), NEW s, IsCat(s, u, id)
    PROVE  /\ SplitName(s) # Failed
           /\ SplitName(s).class = J /\ SplitName(s).method = id
  <1>1. PICK l \in Nat \ {0} : l = Len(J)
    BY TextIs
  <1>2. id \in Text /\ \A i \in 1..Len(id) : id[i] # "."
    BY WithoutIs
  <1>3. PICK m \in Nat \ {0} : m = Len(id)
    BY <1>2, TextIs
  <1>4. "." \in Letter /\ w = <<".">> /\ w \in Text /\ Len(w) = 1
    BY Char DEF IsOne
  <1>5. PICK e : e = <<>> /\ e \in Text /\ Len(e) = 0
    BY Empty
  <1>6. /\ s \in Text /\ Len(s) = l + 1 + m
        /\ s[l + 1] = "."
        /\ \A i \in 1..m : s[l + 1 + i] = id[i]
    <2>1. id \in Text /\ "." \in Letter
      BY <1>2, <1>4, Zenon
    <2> QED
      <3>1. s = (J \o <<".">>) \o id
        BY <1>4, Zenon DEF IsCat
      <3> QED
        <4>1. PICK v : v = (J \o <<".">>) \o id
          OBVIOUS
        <4>2. /\ v \in Text /\ Len(v) = l + 1 + m
              /\ v[l + 1] = "."
              /\ \A i \in 1..m : v[l + 1 + i] = id[i]
          BY <1>1, <1>3, <2>1, <4>1, Middle
        <4> QED
          BY <3>1, <4>1, <4>2, Zenon
  <1>7. PICK n \in Nat : n = l + 1 + m /\ n = Len(s)
    BY <1>6
  <1>8. FindLastOf(s, ".", n) = l + 1
    <2>1. ASSUME NEW k \in (l + 2)..n PROVE s[k] # "."
      <3>1. PICK i \in 1..m : k = l + 1 + i
        <4>1. k - l - 1 \in 1..m /\ k = l + 1 + (k - l - 1)
          BY <1>7
        <4> QED
          BY <4>1
      <3>2. s[k] = id[i]
        BY <1>6, <3>1, Zenon
      <3> QED
        BY <1>2, <1>3, <3>2
    <2>2. PICK r \in 1..n : r = l + 1 /\ r + 1 = l + 2
      BY <1>7
    <2>3. s[r] = "." /\ \A k \in (r + 1)..n : s[k] # "."
      BY <1>6, <2>1, <2>2, Zenon
    <2>4. FindLastOf(s, ".", n) = r
      <3>1. n \in Int
        OBVIOUS
      <3> QED
        BY <2>3, <3>1, FindLastIs
    <2> QED
      BY <2>2, <2>4
  <1>9. u \in Text /\ Len(u) = l + 1
    <2>1. HasLen(J, l) /\ HasLen(w, 1)
      BY <1>1, <1>4 DEF HasLen
    <2>2. CatFacts(u, J, l, w, 1)
      BY <2>1, CatIs
    <2> QED
      BY <2>2, Zenon DEF CatFacts
  <1>10. SubSeq(s, 1, l) = J
    <2>1. PICK z : IsCat(z, w, id)
      BY DEF IsCat
    <2>2. IsCat(J, e, J) /\ IsCat(s, J, z) /\ z \in Text
      <3>2. IsCat(s, J, z)
        BY <1>2, <1>4, <2>1, AssocIs
      <3>3. <<>> \o J = J
        BY TextIs
      <3>4. z \in Text
        BY <1>2, <1>4, <2>1, Cat, Zenon DEF IsCat
      <3> QED
        BY <1>5, <3>2, <3>3, <3>4, Zenon DEF IsCat
    <2>3. PICK o : o = 0 /\ HasLen(e, o) /\ HasLen(J, l) /\ HasLen(z, Len(z))
      BY <1>1, <1>5, <2>2, HasLenIs DEF HasLen
    <2>4. SubSeq(s, o + 1, o + l) = J
      BY <2>2, <2>3, SubPart
    <2>5. o + 1 = 1 /\ o + l = l
      BY <2>3
    <2> QED
      BY <2>4, <2>5, Zenon
  <1>11. SubSeq(s, l + 2, n) = id
    <2>1. IsCat(s, s, e)
      <3>1. s \o <<>> = s
        BY <1>6, TextIs
      <3> QED
        BY <1>5, <3>1, Zenon DEF IsCat
    <2>2. PICK o : o = l + 1 /\ HasLen(u, o) /\ HasLen(id, m) /\ HasLen(e, Len(e))
      BY <1>1, <1>2, <1>3, <1>5, <1>9, HasLenIs DEF HasLen
    <2>3. SubSeq(s, o + 1, o + m) = id
      <3>1. HasLen(u, o) /\ HasLen(id, m) /\ HasLen(e, Len(e))
        BY <2>2, Zenon
      <3> QED
        BY <2>1, <3>1, SubPart
    <2>4. o + 1 = l + 2 /\ o + m = n
      BY <1>7, <2>2
    <2> QED
      BY <2>3, <2>4, Zenon
  <1>12. PICK point : point = FindLastOf(s, ".", Len(s)) /\ point = l + 1
    BY <1>7, <1>8
  <1>13. ~ (point <= 1 \/ point = Len(s)) /\ point - 1 = l /\ point + 1 = l + 2
    BY <1>7, <1>12
  <1>14. SplitName(s) = IF point <= 1 \/ point = Len(s) THEN Failed
                        ELSE [ok |-> "yes", class |-> SubSeq(s, 1, point - 1),
                              method |-> SubSeq(s, point + 1, Len(s))]
    BY <1>12, Zenon DEF SplitName
  <1>15. SplitName(s) = [ok |-> "yes", class |-> J, method |-> id]
    BY <1>7, <1>10, <1>11, <1>13, <1>14, Zenon
  <1> QED
    BY <1>15 DEF Failed

-----------------------------------------------------------------------------
(* Where joined parts stand.                                               *)

LEMMA SubStands ==
    ASSUME NEW s \in Text, NEW k \in Nat, NEW w, NEW m \in Nat, Stands(s, k, w, m), k + m <= Len(s)
    PROVE  SubSeq(s, k + 1, k + m) = w
  <1>1. w \in Text /\ m = Len(w) /\ \A j \in 0..(m - 1) : s[k + j + 1] = w[j + 1]
    BY DEF Stands
  <1>2. PICK a \in Nat \ {0}, b \in Nat : a = k + 1 /\ b = k + m /\ a <= b + 1 /\ b + 1 - a = m
    <2>1. k + 1 \in Nat \ {0} /\ k + m \in Nat /\ k + 1 <= k + m + 1 /\ k + m + 1 - (k + 1) = m
      OBVIOUS
    <2> QED
      BY <2>1
  <1>3. PICK v : v = SubSeq(s, a, b)
    OBVIOUS
  <1>4. /\ v \in Text /\ Len(v) = m
        /\ \A i \in 1..m : v[i] = s[a + i - 1]
    <2>1. b <= Len(s)
      BY <1>2
    <2>2. /\ SubSeq(s, a, b) \in Text /\ Len(SubSeq(s, a, b)) = b + 1 - a
          /\ \A i \in 1..(b + 1 - a) : SubSeq(s, a, b)[i] = s[a + i - 1]
      BY <1>2, <2>1, SubText
    <2> QED
      BY <1>2, <1>3, <2>2, Zenon
  <1>5. ASSUME NEW i \in 1..m PROVE v[i] = w[i]
    <2>1. PICK j \in 0..(m - 1) : j = i - 1 /\ j + 1 = i /\ a + i - 1 = k + j + 1
      <3>1. i - 1 \in 0..(m - 1) /\ i - 1 + 1 = i /\ k + 1 + i - 1 = k + (i - 1) + 1
        OBVIOUS
      <3> QED
        BY <1>2, <3>1
    <2>2. v[i] = s[k + j + 1] /\ s[k + j + 1] = w[j + 1]
      BY <1>1, <1>4, <2>1, Zenon
    <2> QED
      BY <2>1, <2>2, Zenon
  <1>6. v = w
    BY <1>1, <1>4, <1>5, Same
  <1> QED
    BY <1>2, <1>3, <1>6, Zenon

\* Where the parts of p stand when they are joined by the letter c: behind T[k].
IsPlaces(T, p, n, s, c) ==
    /\ T[0] = 0
    /\ \A k \in 0..(n - 1) :
          /\ T[k] \in Nat /\ T[k] + Len(p[k + 1]) <= Len(s)
          /\ Stands(s, T[k], p[k + 1], Len(p[k + 1]))
          /\ k # n - 1 => /\ T[k + 1] = T[k] + Len(p[k + 1]) + 1
                          /\ s[T[k] + Len(p[k + 1]) + 1] = c
          /\ k = n - 1 => T[k] + Len(p[k + 1]) = Len(s)

LEMMA JoinedPlaces ==
    ASSUME NEW p \in Seq(Text), NEW c, NEW w, IsOne(w, c), NEW n \in Nat \ {0}, n = Len(p),
           NEW s, s = Joined(p, w)
    PROVE  s \in Text /\ \E T : IsPlaces(T, p, n, s, c)
  <1>1. c \in Letter /\ w = <<c>> /\ w \in Text /\ Len(w) = 1
    BY Char DEF IsOne
  <1>2. PICK q : /\ Joined(p, w) = FlattenSeq(q) /\ q \in Seq(Text) /\ n = Len(q)
                 /\ \A k \in 0..(n - 1) : q[k + 1] = IF k = 0 THEN p[k + 1] ELSE w \o p[k + 1]
    <2>1. n \in Nat
      OBVIOUS
    <2> QED
      BY <1>1, <2>1, JoinedIs
  <1>3. PICK G : /\ G[0] = 0 /\ G[n] = Len(FlattenSeq(q))
                 /\ \A k \in 0..n : G[k] \in Nat
                 /\ \A k \in 0..(n - 1) : /\ q[k + 1] \in Text /\ Len(q[k + 1]) \in Nat
                                          /\ G[k + 1] = G[k] + Len(q[k + 1])
                                          /\ G[k + 1] <= Len(FlattenSeq(q))
                                          /\ Stands(FlattenSeq(q), G[k], q[k + 1], Len(q[k + 1]))
    BY <1>2, Pieces
  <1>4. s = FlattenSeq(q)
    BY <1>2, Zenon
  <1>5. \A k \in 0..(n - 1) : /\ q[k + 1] \in Text /\ Len(q[k + 1]) \in Nat
                              /\ G[k + 1] = G[k] + Len(q[k + 1])
                              /\ G[k + 1] <= Len(s)
                              /\ Stands(s, G[k], q[k + 1], Len(q[k + 1]))
    BY <1>3, <1>4, Zenon
  <1>6. G[0] = 0 /\ G[n] = Len(s) /\ \A k \in 0..n : G[k] \in Nat
    BY <1>3, <1>4, Zenon
  <1>7. s \in Text
    BY <1>2, <1>4, FlattenAt, Zenon
  <1>8. PICK T : T = [k \in 0..(n - 1) |-> IF k = 0 THEN 0 ELSE G[k] + 1]
    OBVIOUS
  <1>9. ASSUME NEW k \in 0..(n - 1)
        PROVE  /\ p[k + 1] \in Text /\ Len(p[k + 1]) \in Nat
               /\ T[k] \in Nat /\ G[k + 1] = T[k] + Len(p[k + 1])
               /\ Stands(s, T[k], p[k + 1], Len(p[k + 1]))
               /\ k # 0 => s[T[k]] = c /\ T[k] = G[k] + 1
    <2>1. p[k + 1] \in Text /\ Len(p[k + 1]) \in Nat
      <3>1. k + 1 \in 1..n
        OBVIOUS
      <3>2. p[k + 1] \in Text
        BY <3>1, InSeq
      <3> QED
        BY <3>2, TextIs
    <2>2. PICK e \in Nat : e = Len(p[k + 1])
      BY <2>1
    <2>3. CASE k = 0
      <3>1. T[k] = 0 /\ q[k + 1] = p[k + 1] /\ G[k] = 0
        BY <1>2, <1>6, <1>8, <2>3
      <3>2. Stands(s, T[k], p[k + 1], e) /\ G[k + 1] = T[k] + e
        BY <1>5, <2>2, <3>1, Zenon
      <3> QED
        BY <2>1, <2>2, <2>3, <3>1, <3>2
    <2>4. CASE k # 0
      <3>1. q[k + 1] = w \o p[k + 1]
        BY <1>2, <2>4, Zenon
      <3>2. PICK x, z : x = p[k + 1] /\ z = q[k + 1] /\ IsCat(z, w, x) /\ x \in Text
        BY <2>1, <3>1 DEF IsCat
      <3>3. PICK m \in Nat, g \in Nat : m = Len(z) /\ g = G[k] /\ G[k + 1] = g + m /\ Stands(s, g, z, m)
        <4>1. k \in 0..n
          OBVIOUS
        <4>2. G[k] \in Nat
          BY <1>6, <4>1, Zenon
        <4>3. Len(z) \in Nat /\ G[k + 1] = G[k] + Len(z) /\ Stands(s, G[k], z, Len(z))
          BY <1>5, <3>2, Zenon
        <4> QED
          BY <4>2, <4>3, Zenon
      <3>4. PICK o \in Nat : o = 1
        OBVIOUS
      <3>5. o = Len(w) /\ e = Len(x) /\ w \in Text
        BY <1>1, <2>2, <3>2, <3>4
      <3>6. Stands(s, g, w, o) /\ Stands(s, g + o, x, e)
        <4>1. w \in Text /\ x \in Text /\ o = Len(w) /\ e = Len(x) /\ IsCat(z, w, x) /\ Stands(s, g, z, m)
          BY <3>2, <3>3, <3>5, Zenon
        <4> QED
          BY <4>1, StandsParts
      <3>7. m = o + e
        BY <3>2, <3>3, <3>5, StandsLen
      <3>8. s[g + 1] = c
        <4>1. Stands(s, g, <<c>>, 1)
          BY <1>1, <3>4, <3>6, Zenon
        <4> QED
          BY <1>1, <4>1, StandsOne
      <3>9. T[k] = g + 1
        BY <1>8, <2>4, <3>3
      <3>10. G[k + 1] = T[k] + e /\ T[k] \in Nat
        BY <3>3, <3>4, <3>7, <3>9
      <3>11. Stands(s, T[k], x, e) /\ s[T[k]] = c /\ T[k] = G[k] + 1
        BY <3>3, <3>4, <3>6, <3>8, <3>9, Zenon
      <3> QED
        BY <2>1, <2>2, <3>2, <3>10, <3>11, Zenon
    <2> QED
      BY <2>3, <2>4
  <1>10. T[0] = 0
    BY <1>8
  <1>11. ASSUME NEW k \in 0..(n - 1)
         PROVE  /\ T[k] \in Nat /\ T[k] + Len(p[k + 1]) <= Len(s)
                /\ Stands(s, T[k], p[k + 1], Len(p[k + 1]))
                /\ k # n - 1 => /\ T[k + 1] = T[k] + Len(p[k + 1]) + 1
                                /\ s[T[k] + Len(p[k + 1]) + 1] = c
                /\ k = n - 1 => T[k] + Len(p[k + 1]) = Len(s)
    <2>1. T[k] \in Nat /\ G[k + 1] = T[k] + Len(p[k + 1]) /\ Stands(s, T[k], p[k + 1], Len(p[k + 1]))
      BY <1>9, Zenon
    <2>2. G[k + 1] <= Len(s)
      BY <1>5, Zenon
    <2>3. ASSUME k # n - 1 PROVE T[k + 1] = G[k + 1] + 1 /\ s[G[k + 1] + 1] = c
      <3>1. PICK h \in 0..(n - 1) : h = k + 1 /\ h # 0
        BY <2>3
      <3>2. s[T[h]] = c /\ T[h] = G[h] + 1
        BY <1>9, <3>1, Zenon
      <3> QED
        BY <3>1, <3>2, Zenon
    <2>4. ASSUME k = n - 1 PROVE G[k + 1] = Len(s)
      <3>1. k + 1 = n
        BY <2>4
      <3> QED
        BY <1>6, <3>1, Zenon
    <2> QED
      BY <2>1, <2>2, <2>3, <2>4, Zenon
  <1>12. IsPlaces(T, p, n, s, c)
    BY <1>10, <1>11, Zenon DEF IsPlaces
  <1> QED
    BY <1>7, <1>12, Zenon

-----------------------------------------------------------------------------
(* Joining and splitting.                                                  *)

LEMMA CatSeq ==
    ASSUME NEW V, NEW d \in Seq(V), NEW a \in Seq(V)
    PROVE  /\ d \o a \in Seq(V) /\ Len(d \o a) = Len(d) + Len(a)
           /\ \A i \in 1..Len(d) : (d \o a)[i] = d[i]
           /\ \A i \in 1..Len(a) : (d \o a)[Len(d) + i] = a[i]
  BY ConcatProperties

LEMMA SubHead ==
    ASSUME NEW V, NEW p \in Seq(V), NEW n \in Nat, n = Len(p), NEW j \in 0..(n - 1)
    PROVE  <<p[j + 1]>> \o SubSeq(p, j + 2, n) = SubSeq(p, j + 1, n)
  <1>1. PICK a, b, d : a = SubSeq(p, j + 2, n) /\ b = SubSeq(p, j + 1, n) /\ d = <<p[j + 1]>>
    OBVIOUS
  <1>2. a \in Seq(V) /\ Len(a) = n - j - 1 /\ \A i \in 1..(n - j - 1) : a[i] = p[j + 1 + i]
    BY <1>1
  <1>3. b \in Seq(V) /\ Len(b) = n - j /\ \A i \in 1..(n - j) : b[i] = p[j + i]
    BY <1>1
  <1>4. j + 1 \in 1..n
    OBVIOUS
  <1>5. d \in Seq(V) /\ Len(d) = 1 /\ d[1] = p[j + 1]
    BY <1>1, <1>4
  <1>6. PICK e : e = d \o a
    OBVIOUS
  <1>7. /\ e \in Seq(V) /\ Len(e) = n - j /\ e[1] = d[1]
        /\ \A i \in 1..(n - j - 1) : e[1 + i] = a[i]
    <2>1. d \in Seq(V) /\ a \in Seq(V)
      BY <1>2, <1>5
    <2>2. /\ e \in Seq(V) /\ Len(e) = Len(d) + Len(a)
          /\ \A i \in 1..Len(d) : e[i] = d[i]
          /\ \A i \in 1..Len(a) : e[Len(d) + i] = a[i]
      <3>1. /\ d \o a \in Seq(V) /\ Len(d \o a) = Len(d) + Len(a)
            /\ \A i \in 1..Len(d) : (d \o a)[i] = d[i]
            /\ \A i \in 1..Len(a) : (d \o a)[Len(d) + i] = a[i]
        BY <2>1, CatSeq
      <3> QED
        BY <1>6, <3>1, Zenon
    <2>3. 1 \in 1..Len(d) /\ Len(d) + Len(a) = n - j
      BY <1>2, <1>5
    <2> QED
      BY <1>2, <1>5, <2>2, <2>3, Zenon
  <1>8. ASSUME NEW i \in 1..(n - j) PROVE e[i] = b[i]
    <2>1. CASE i = 1
      BY <1>3, <1>5, <1>7, <2>1
    <2>2. CASE i # 1
      <3>1. PICK h \in 1..(n - j - 1) : 1 + h = i /\ j + 1 + h = j + i
        <4>1. i - 1 \in 1..(n - j - 1) /\ 1 + (i - 1) = i /\ j + 1 + (i - 1) = j + i
          BY <2>2
        <4> QED
          BY <4>1
      <3> QED
        BY <1>2, <1>3, <1>7, <3>1, ZenonT(60)
    <2> QED
      BY <2>1, <2>2
  <1>9. e = b
    <2>1. Len(e) = Len(b) /\ \A i \in 1..Len(e) : e[i] = b[i]
      BY <1>3, <1>7, <1>8
    <2> QED
      BY <1>3, <1>7, <2>1, SeqEqual, Zenon
  <1> QED
    BY <1>1, <1>6, <1>9, Zenon

LEMMA StandsLacks ==
    ASSUME NEW s, NEW k \in Nat, NEW w, NEW m \in Nat, Stands(s, k, w, m), NEW c, Lacks(w, m, c)
    PROVE  \A h \in (k + 1)..(k + m) : s[h] # c
  <1>1. ASSUME NEW h \in (k + 1)..(k + m) PROVE s[h] # c
    <2>1. PICK j \in 0..(m - 1) : j = h - k - 1 /\ k + j + 1 = h /\ j + 1 \in 1..m
      <3>1. h - k - 1 \in 0..(m - 1) /\ k + (h - k - 1) + 1 = h /\ h - k - 1 + 1 \in 1..m
        OBVIOUS
      <3> QED
        BY <3>1
    <2>2. s[h] = w[j + 1]
      BY <2>1, Zenon DEF Stands
    <2>3. w \in Without({c}) /\ m = Len(w)
      BY Zenon DEF Lacks, HasLen
    <2>4. \A i \in 1..m : w[i] # c
      BY <2>3, WithoutIs
    <2> QED
      BY <2>1, <2>2, <2>4
  <1> QED
    BY <1>1

\* Joining and splitting.
IsParts(p, n, c) ==
    /\ p \in Seq(Text) /\ n \in Nat \ {0} /\ n = Len(p)
    /\ \A k \in 0..(n - 1) : Lacks(p[k + 1], Len(p[k + 1]), c) /\ Len(p[k + 1]) # 0

LEMMA SplitJoined ==
    ASSUME NEW p, NEW n \in Nat \ {0}, NEW c, IsParts(p, n, c), NEW w, IsOne(w, c), NEW s, s = Joined(p, w)
    PROVE  string_split(s, w) = p
  <1>1. /\ p \in Seq(Text) /\ n \in Nat \ {0} /\ n = Len(p)
        /\ \A k \in 0..(n - 1) : /\ Lacks(p[k + 1], Len(p[k + 1]), c) /\ Len(p[k + 1]) # 0
                                 /\ Len(p[k + 1]) \in Nat
    BY DEF IsParts, Lacks, HasLen
  <1>2. PICK T : s \in Text /\ IsPlaces(T, p, n, s, c)
    BY <1>1, JoinedPlaces
  <1>3. PICK l \in Nat : l = Len(s)
    BY <1>2, TextIs
  <1>4. w \in Text /\ Len(w) = 1
    BY Char DEF IsOne
  <1>5. PICK R : string_split(s, w) = R[1] /\ IsSplit(R, s, w, l)
    <2>1. Len(w) # 0
      BY <1>4
    <2> QED
      BY <1>2, <1>3, <1>4, <2>1, SplitIs
  <1>6. \A i \in 1..l :
          R[i] = IF FindFrom(s, w, i) = 0 THEN <<SubSeq(s, i, l)>>
                 ELSE <<SubSeq(s, i, FindFrom(s, w, i) - 1)>> \o R[FindFrom(s, w, i) + Len(w)]
    BY <1>5, Zenon DEF IsSplit
  <1> DEFINE S == {k \in 0..n : k # n => R[T[k] + 1] = SubSeq(p, k + 1, n)}
  <1>7. n \in S
    BY <1>1
  <1>8. ASSUME NEW k \in 1..n, k \in S PROVE k - 1 \in S
    <2>0. PICK j \in 0..(n - 1) : j = k - 1 /\ k = j + 1
      BY <1>1
    <2>a. PICK x, e, t : x = p[j + 1] /\ e = Len(x) /\ t = T[j]
      OBVIOUS
    <2>b. e \in Nat /\ e # 0 /\ Lacks(x, e, c)
      BY <1>1, <2>a, Zenon
    <2>c. /\ t \in Nat /\ t + e <= l /\ Stands(s, t, x, e)
          /\ j # n - 1 => T[j + 1] = t + e + 1 /\ s[t + e + 1] = c
          /\ j = n - 1 => t + e = l
      BY <1>2, <1>3, <2>a, Zenon DEF IsPlaces
    <2>1. /\ x = p[j + 1] /\ e = Len(x) /\ t = T[j] /\ t + e <= l /\ e # 0
          /\ Stands(s, t, x, e) /\ Lacks(x, e, c)
          /\ j # n - 1 => T[j + 1] = t + e + 1 /\ s[t + e + 1] = c
          /\ j = n - 1 => t + e = l
          /\ e \in Nat /\ t \in Nat
      BY <2>a, <2>b, <2>c, Zenon
    <2>2. \A h \in (t + 1)..(t + e) : s[h] # c
      BY <2>1, StandsLacks, SMTT(60)
    <2>3. SubSeq(s, t + 1, t + e) = x
      BY <1>2, <1>3, <2>1, SubStands
    <2>4. PICK i \in 1..l : i = t + 1
      BY <2>1
    <2>5. \A h \in i..(t + e) : ~ Hit(s, w, h)
      <3>1. ASSUME NEW h \in i..(t + e) PROVE ~ Hit(s, w, h)
        <4>1. h \in Nat \ {0} /\ s[h] # c
          BY <2>2, <2>4
        <4> QED
          BY <1>2, <1>3, <4>1, HitChar
      <3> QED
        BY <3>1
    <2>6. R[i] = SubSeq(p, j + 1, n)
      <3>1. <<x>> \o SubSeq(p, j + 2, n) = SubSeq(p, j + 1, n)
        <4>1. <<p[j + 1]>> \o SubSeq(p, j + 2, n) = SubSeq(p, j + 1, n)
          BY <1>1, SubHead
        <4> QED
          BY <2>1, <4>1, Zenon
      <3>2. CASE j = n - 1
        <4>1. FindFrom(s, w, i) = 0
          <5>1. \A h \in i..l : ~ Hit(s, w, h)
            BY <2>1, <2>5, <3>2
          <5>2. i \in Nat \ {0}
            OBVIOUS
          <5> QED
            BY <1>3, <5>1, <5>2, FindNone
        <4>2. R[i] = <<SubSeq(s, i, l)>>
          BY <1>6, <4>1, Zenon
        <4>3. SubSeq(s, i, l) = x
          BY <2>1, <2>3, <2>4, <3>2, Zenon
        <4>4. SubSeq(p, j + 2, n) = <<>>
          <5>1. j + 2 = n + 1
            BY <3>2, SMT
          <5>2. SubSeq(p, n + 1, n) = <<>>
            BY <1>1
          <5> QED
            BY <5>1, <5>2, Zenon
        <4>5. <<x>> \o <<>> = <<x>>
          <5>1. <<x>> \in Seq(Text)
            <6>1. x \in Text
              BY <2>1, Zenon DEF Lacks, HasLen
            <6> QED
              BY <6>1
          <5> QED
            BY <5>1
        <4> QED
          BY <3>1, <4>2, <4>3, <4>4, <4>5, Zenon
      <3>3. CASE j # n - 1
        <4>1. PICK r \in i..l : r = t + e + 1 /\ r - 1 = t + e /\ s[r] = c /\ T[k] = r /\ k # n
                                /\ r + 1 = T[k] + 1 /\ k + 1 = j + 2
          <5>1. k \in 0..(n - 1)
            BY <2>0, <3>3
          <5>2. T[k] = t + e + 1 /\ s[t + e + 1] = c
            BY <2>0, <2>1, <3>3
          <5>3. T[k] + Len(p[k + 1]) <= l /\ Len(p[k + 1]) \in Nat /\ Len(p[k + 1]) # 0
            BY <1>1, <1>2, <1>3, <5>1, Zenon DEF IsPlaces
          <5>4. t + e + 1 \in i..l
            <6>1. PICK v \in Nat : v = Len(p[k + 1])
              BY <5>3
            <6>2. v # 0 /\ t + e + 1 + v <= l
              BY <5>2, <5>3, <6>1
            <6> QED
              <7>1. t \in Nat /\ e \in Nat /\ i = t + 1
                BY <2>b, <2>c, <2>4, Zenon
              <7> QED
                BY <6>2, <7>1
          <5>5. t + e + 1 - 1 = t + e /\ k # n /\ k + 1 = j + 2
            BY <2>0, <2>1, <5>1
          <5> QED
            <6>1. PICK r \in i..l : r = t + e + 1
              BY <5>4
            <6>2. r - 1 = t + e /\ r + 1 = t + e + 1 + 1
              BY <2>1, <6>1
            <6> QED
              BY <5>2, <5>5, <6>1, <6>2, Zenon
        <4>2. FindFrom(s, w, i) = r
          <5>1. Hit(s, w, r)
            <6>1. r \in Nat \ {0} /\ r <= l
              OBVIOUS
            <6> QED
              BY <1>2, <1>3, <4>1, <6>1, HitChar
          <5>2. \A h \in i..(r - 1) : ~ Hit(s, w, h)
            BY <2>5, <4>1, Zenon
          <5>3. i \in Nat \ {0}
            OBVIOUS
          <5> QED
            BY <1>3, <5>1, <5>2, <5>3, FindAt
        <4>3. R[i] = <<SubSeq(s, i, r - 1)>> \o R[r + 1]
          <5>1. r # 0
            OBVIOUS
          <5> QED
            BY <1>4, <1>6, <4>2, <5>1, Zenon
        <4>4. SubSeq(s, i, r - 1) = x
          BY <2>3, <2>4, <4>1, Zenon
        <4>5. R[r + 1] = SubSeq(p, j + 2, n)
          <5>1. R[T[k] + 1] = SubSeq(p, k + 1, n)
            BY <1>8, <4>1
          <5> QED
            BY <4>1, <5>1, Zenon
        <4> QED
          BY <3>1, <4>3, <4>4, <4>5, Zenon
      <3> QED
        BY <3>2, <3>3
    <2>7. R[T[j] + 1] = SubSeq(p, j + 1, n)
      BY <2>1, <2>4, <2>6, Zenon
    <2>8. j \in 0..n
      OBVIOUS
    <2> QED
      BY <2>0, <2>7, <2>8
  <1> HIDE DEF S
  <1>9. \A k \in 0..n : k \in S
    BY <1>1, <1>7, <1>8, Induct, InductDown
  <1>10. R[T[0] + 1] = SubSeq(p, 0 + 1, n)
    BY <1>1, <1>9 DEF S
  <1>11. T[0] = 0
    BY <1>2, Zenon DEF IsPlaces
  <1>12. SubSeq(p, 1, n) = p
    BY <1>1
  <1> QED
    <2>1. R[1] = SubSeq(p, 1, n)
      <3>1. 0 + 1 = 1
        OBVIOUS
      <3> QED
        BY <1>10, <1>11, <3>1, Zenon
    <2> QED
      BY <1>5, <1>12, <2>1, Zenon

-----------------------------------------------------------------------------
(* One letter is replaced by a text.                                       *)

\* One letter is replaced by a text.
Subst(a, new) == [c \in Letter |-> IF c = a THEN new ELSE <<c>>]
IsSubst(h, a, new) ==
    /\ h \in [Letter -> Text] /\ h[a] = new
    /\ \A c \in Letter : c # a => h[c] = <<c>>

LEMMA SubstIs ==
    ASSUME NEW a \in Letter, NEW new \in Text
    PROVE  IsSubst(Subst(a, new), a, new)
  <1>1. \A c \in Letter : <<c>> \in Text
    BY Char
  <1>2. Subst(a, new) \in [Letter -> Text]
    BY <1>1 DEF Subst
  <1>3. Subst(a, new)[a] = new
    BY DEF Subst
  <1>4. \A c \in Letter : c # a => Subst(a, new)[c] = <<c>>
    BY DEF Subst
  <1> QED
    BY <1>2, <1>3, <1>4 DEF IsSubst

LEMMA ReplaceIsHom ==
    ASSUME NEW a \in Letter, NEW new \in Text, NEW s \in Text, NEW w, IsOne(w, a),
           NEW h, IsSubst(h, a, new)
    PROVE  replace_all(s, w, new) = Hom(h, s)
  <1>1. h \in [Letter -> Text] /\ h[a] = new /\ w = <<a>>
    BY DEF IsSubst, IsOne
  <1>2. ASSUME NEW i \in 1..Len(s), s[i] # a PROVE h[s[i]] = <<s[i]>>
    <2>1. s[i] \in Letter
      BY TextIs
    <2> QED
      BY <1>2, <2>1, Zenon DEF IsSubst
  <1>3. replace_all(s, <<a>>, new) = Hom(h, s)
    BY <1>1, <1>2, ReplaceChar, SMTT(60)
  <1> QED
    BY <1>1, <1>3, Zenon

\* A letter that does not occur.
LEMMA SubstId ==
    ASSUME NEW a, NEW new, NEW h, IsSubst(h, a, new), NEW s \in Without({a})
    PROVE  Hom(h, s) = s
  <1>1. s \in Text /\ \A i \in 1..Len(s) : s[i] # a
    BY WithoutIs
  <1>2. ASSUME NEW i \in 1..Len(s) PROVE h[s[i]] = <<s[i]>>
    <2>1. s[i] \in Letter /\ s[i] # a
      BY <1>1, TextIs
    <2> QED
      BY <2>1, Zenon DEF IsSubst
  <1>3. h \in [Letter -> Text]
    BY DEF IsSubst
  <1> QED
    BY <1>1, <1>2, <1>3, HomId

LEMMA HomDrop ==
    ASSUME NEW h, NEW s \in Text, \A i \in 1..Len(s) : h[s[i]] = <<>>
    PROVE  Hom(h, s) = <<>>
  <1>1. IsKind({<<>>})
    <2>1. PICK e : e = <<>> /\ e \in Text
      BY Empty
    <2>2. e \o e = e
      BY <2>1, TextIs
    <2>3. IsKind({e})
      BY <2>1, <2>2 DEF IsKind, IsCat
    <2> QED
      BY <2>1, <2>3, Zenon
  <1>2. PICK n \in Nat : n = Len(s) /\ DOMAIN s = 1..n
    BY TextIs
  <1>3. PICK p : p = [i \in DOMAIN s |-> h[s[i]]]
    OBVIOUS
  <1>4. \A i \in 1..n : p[i] = <<>>
    BY <1>2, <1>3
  <1>5. p \in Seq(Text) /\ Len(p) = n
    <2>1. \A i \in 1..n : p[i] \in Text
      BY <1>4, Empty
    <2> QED
      BY <1>2, <1>3, <2>1
  <1>6. ASSUME NEW k \in 0..(n - 1) PROVE p[k + 1] \in {<<>>}
    <2>1. k + 1 \in 1..n
      OBVIOUS
    <2> QED
      BY <1>4, <2>1
  <1>7. FlattenSeq(p) \in {<<>>}
    BY <1>1, <1>5, <1>6, KindFlatten
  <1> QED
    BY <1>3, <1>7 DEF Hom

\* h goes through the parts that are joined.
IsMapped(q, p, h, n) ==
    /\ p \in Seq(Text) /\ q \in Seq(Text) /\ n \in Nat /\ n = Len(p) /\ n = Len(q)
    /\ \A k \in 0..(n - 1) : q[k + 1] = Hom(h, p[k + 1])

LEMMA HomJoined ==
    ASSUME NEW h \in [Letter -> Text], NEW p, NEW q, NEW n \in Nat, IsMapped(q, p, h, n),
           NEW v \in Text, NEW w \in Text, w = Hom(h, v)
    PROVE  Hom(h, Joined(p, v)) = Joined(q, w)
  <1>1. /\ p \in Seq(Text) /\ q \in Seq(Text) /\ n = Len(p) /\ n = Len(q)
        /\ \A k \in 0..(n - 1) : q[k + 1] = Hom(h, p[k + 1])
    BY DEF IsMapped
  <1>2. PICK a : /\ Joined(p, v) = FlattenSeq(a) /\ a \in Seq(Text) /\ n = Len(a)
                 /\ \A k \in 0..(n - 1) : a[k + 1] = IF k = 0 THEN p[k + 1] ELSE v \o p[k + 1]
    BY <1>1, JoinedIs
  <1>3. PICK b : /\ Joined(q, w) = FlattenSeq(b) /\ b \in Seq(Text) /\ n = Len(b)
                 /\ \A k \in 0..(n - 1) : b[k + 1] = IF k = 0 THEN q[k + 1] ELSE w \o q[k + 1]
    BY <1>1, JoinedIs
  <1>4. ASSUME NEW i \in 1..n PROVE b[i] = Hom(h, a[i])
    <2>1. PICK k \in 0..(n - 1) : k + 1 = i
      <3>1. i - 1 \in 0..(n - 1) /\ i - 1 + 1 = i
        OBVIOUS
      <3> QED
        BY <3>1
    <2>2. p[i] \in Text
      BY <1>1, InSeq
    <2>3. CASE k = 0
      <3>1. a[k + 1] = p[k + 1] /\ b[k + 1] = q[k + 1] /\ q[k + 1] = Hom(h, p[k + 1])
        BY <1>1, <1>2, <1>3, <2>3, Zenon
      <3> QED
        BY <2>1, <3>1, Zenon
    <2>4. CASE k # 0
      <3>1. a[k + 1] = v \o p[k + 1] /\ b[k + 1] = w \o q[k + 1] /\ q[k + 1] = Hom(h, p[k + 1])
        BY <1>1, <1>2, <1>3, <2>4, Zenon
      <3>2. Hom(h, v \o p[i]) = Hom(h, v) \o Hom(h, p[i])
        BY <2>2, HomConcat
      <3> QED
        BY <2>1, <3>1, <3>2, Zenon
    <2> QED
      BY <2>3, <2>4
  <1>5. Hom(h, FlattenSeq(a)) = FlattenSeq(b)
    <2>1. a \in Seq(Text) /\ b \in Seq(Text) /\ Len(b) = Len(a) /\ \A i \in 1..Len(a) : b[i] = Hom(h, a[i])
      BY <1>2, <1>3, <1>4
    <2> QED
      BY <2>1, HomFlatten
  <1> QED
    BY <1>2, <1>3, <1>5, Zenon

\* A name with another separator between its parts.
LEMMA PathReplaced ==
    ASSUME NEW p, NEW n, IsPath(p, n), NEW a \in Mark, NEW b \in Letter, NEW v, IsOne(v, a),
           NEW w, IsOne(w, b)
    PROVE  replace_all(Joined(p, v), v, w) = Joined(p, w)
  <1>1. /\ p \in Seq(Text) /\ n \in Nat /\ n = Len(p)
        /\ \A k \in 0..(n - 1) : p[k + 1] \in Without(Mark) /\ p[k + 1] \in Text
    BY DEF IsPath, IdentFacts
  <1>2. a \in Letter /\ v = <<a>> /\ v \in Text /\ w \in Text
    BY Char DEF IsOne
  <1>3. PICK h : IsSubst(h, a, w)
    BY <1>2, SubstIs
  <1>4. h \in [Letter -> Text] /\ h[a] = w
    BY <1>3 DEF IsSubst
  <1>5. ASSUME NEW k \in 0..(n - 1) PROVE p[k + 1] = Hom(h, p[k + 1])
    <2>1. p[k + 1] \in Without({a})
      BY <1>1, WithoutLess
    <2> QED
      BY <1>3, <2>1, SubstId
  <1>6. IsMapped(p, p, h, n)
    BY <1>1, <1>5 DEF IsMapped
  <1>7. w = Hom(h, v)
    BY <1>2, <1>4, HomOne
  <1>8. Hom(h, Joined(p, v)) = Joined(p, w)
    BY <1>1, <1>2, <1>4, <1>6, <1>7, HomJoined
  <1>9. Joined(p, v) \in Text
    <2>1. v \in Without({}) /\ \A k \in 0..(n - 1) : p[k + 1] \in Without({})
      <3>1. \A k \in 0..(n - 1) : p[k + 1] \in Without({})
        BY <1>1, WithoutLess
      <3>2. v \in Without({})
        BY <1>2, WithoutOne
      <3> QED
        BY <3>1, <3>2
    <2>2. Joined(p, v) \in Without({})
      BY <1>1, <2>1, WithoutKind, JoinedKindSep
    <2> QED
      BY <2>2, WithoutIs
  <1>10. replace_all(Joined(p, v), v, w) = Hom(h, Joined(p, v))
    BY <1>2, <1>3, <1>9, ReplaceIsHom
  <1> QED
    BY <1>8, <1>10, Zenon

-----------------------------------------------------------------------------
(* The brackets of an array type in print.                                 *)

\* The brackets of an array type in print.
Pairs(d) == FlattenSeq([i \in 1..d |-> <<"[", "]">>])
IsPairs(B, d) ==
    /\ B \in Text /\ Len(B) = 2 * d
    /\ \A k \in 0..(d - 1) : B[2 * k + 1] = "[" /\ B[2 * k + 2] = "]"

LEMMA PairIs == /\ <<"[", "]">> \in Text /\ Len(<<"[", "]">>) = 2
                /\ <<"[", "]">>[1] = "[" /\ <<"[", "]">>[2] = "]"
  <1>1. "[" \in Letter /\ "]" \in Letter
    BY Literals DEF Literal
  <1>2. <<"[", "]">> \in Seq(Letter)
    BY <1>1
  <1> QED
    BY <1>2 DEF Text

LEMMA PairsAre ==
    ASSUME NEW d \in Nat
    PROVE  IsPairs(Pairs(d), d)
  <1>1. PICK w : w = <<"[", "]">> /\ w \in Text /\ Len(w) = 2 /\ w[1] = "[" /\ w[2] = "]"
    BY PairIs
  <1>2. PICK p : p = [i \in 1..d |-> w]
    OBVIOUS
  <1>3. p \in Seq(Text) /\ Len(p) = d /\ \A i \in 1..d : p[i] = w
    BY <1>1, <1>2
  <1>4. PICK B : B = Pairs(d) /\ B = FlattenSeq(p)
    BY <1>1, <1>2, Zenon DEF Pairs
  <1>5. PICK G : /\ G[0] = 0 /\ G[d] = Len(FlattenSeq(p))
                 /\ \A k \in 0..d : G[k] \in Nat
                 /\ \A k \in 0..(d - 1) : /\ p[k + 1] \in Text /\ Len(p[k + 1]) \in Nat
                                          /\ G[k + 1] = G[k] + Len(p[k + 1])
                                          /\ G[k + 1] <= Len(FlattenSeq(p))
                                          /\ Stands(FlattenSeq(p), G[k], p[k + 1], Len(p[k + 1]))
    BY <1>3, Pieces
  <1>6. \A k \in 0..(d - 1) : p[k + 1] = w
    <2>1. ASSUME NEW k \in 0..(d - 1) PROVE p[k + 1] = w
      <3>1. k + 1 \in 1..d
        OBVIOUS
      <3> QED
        BY <1>3, <3>1
    <2> QED
      BY <2>1
  <1>7. \A k \in 0..(d - 1) : G[k + 1] = G[k] + 2 /\ Stands(B, G[k], w, 2)
    BY <1>1, <1>4, <1>5, <1>6, Zenon
  <1> DEFINE S == {k \in 0..d : G[k] = 2 * k}
  <1>8. 0 \in S
    BY <1>5
  <1>9. ASSUME NEW k \in 0..(d - 1), k \in S PROVE k + 1 \in S
    <2>1. G[k] = 2 * k /\ G[k + 1] = G[k] + 2 /\ k + 1 \in 0..d
      BY <1>7, <1>9
    <2> QED
      BY <2>1
  <1> HIDE DEF S
  <1>10. \A k \in 0..d : k \in S
    BY <1>8, <1>9, Induct
  <1>11. \A k \in 0..d : G[k] = 2 * k
    BY <1>10 DEF S
  <1>12. Len(B) = 2 * d
    BY <1>4, <1>5, <1>11
  <1>13. ASSUME NEW k \in 0..(d - 1) PROVE B[2 * k + 1] = "[" /\ B[2 * k + 2] = "]"
    <2>1. PICK g \in Nat : g = G[k] /\ g = 2 * k
      BY <1>11
    <2>2. \A j \in 0..(2 - 1) : B[g + j + 1] = w[j + 1]
      <3>1. Stands(B, g, w, 2)
        BY <1>7, <2>1
      <3> QED
        BY <3>1, Zenon DEF Stands
    <2>3. 0 \in 0..(2 - 1) /\ 1 \in 0..(2 - 1) /\ g + 0 + 1 = 2 * k + 1 /\ g + 1 + 1 = 2 * k + 2
          /\ 0 + 1 = 1 /\ 1 + 1 = 2
      BY <2>1
    <2> QED
      BY <1>1, <2>2, <2>3, Zenon
  <1>14. B \in Text
    BY <1>3, <1>4, FlattenAt, Zenon
  <1> QED
    BY <1>4, <1>12, <1>13, <1>14, Zenon DEF IsPairs

\* The letters of the brackets.
LEMMA PairsOnly ==
    ASSUME NEW d \in Nat, NEW B, IsPairs(B, d)
    PROVE  \A i \in 1..Len(B) : /\ B[i] = "[" \/ B[i] = "]"
                                /\ B[i] = "[" <=> i % 2 = 1
  <1>1. ASSUME NEW i \in 1..(2 * d) PROVE /\ B[i] = "[" \/ B[i] = "]"
                                          /\ B[i] = "[" <=> i % 2 = 1
    <2>1. PICK k \in 0..(d - 1) : i = 2 * k + 1 \/ i = 2 * k + 2
      <3>1. PICK k : k = (i - 1) \div 2
        OBVIOUS
      <3>2. k \in 0..(d - 1) /\ (i = 2 * k + 1 \/ i = 2 * k + 2)
        BY <3>1
      <3> QED
        BY <3>2
    <2>2. B[2 * k + 1] = "[" /\ B[2 * k + 2] = "]"
      BY DEF IsPairs
    <2>3. (2 * k + 1) % 2 = 1 /\ (2 * k + 2) % 2 = 0
      OBVIOUS
    <2> QED
      BY <2>1, <2>2, <2>3
  <1> QED
    BY <1>1 DEF IsPairs

-----------------------------------------------------------------------------
(* Counting the dimensions of a printed type.                              *)

\* A text without brackets and then d pairs of them: the dimensions of an array
\* are the opening brackets.
LEMMA Dimensions ==
    ASSUME NEW d \in Nat, NEW B, IsPairs(B, d), NEW x, NEW b, HasLen(x, b), x \in Without({"[", "]"}),
           NEW s, IsCat(s, x, B)
    PROVE  Cardinality({i \in DOMAIN s : s[i] = "["}) = d
  <1>1. b \in Nat /\ b = Len(x) /\ x \in Text /\ \A i \in 1..b : x[i] # "["
    BY WithoutIs DEF HasLen
  <1>2. /\ s \in Text /\ Len(s) = b + 2 * d
        /\ \A i \in 1..b : s[i] = x[i]
        /\ \A i \in 1..(2 * d) : s[b + i] = B[i]
    <2>1. 2 * d \in Nat
      OBVIOUS
    <2>2. HasLen(B, 2 * d)
      BY <2>1 DEF IsPairs, HasLen
    <2>3. CatFacts(s, x, b, B, 2 * d)
      BY <2>2, CatIs
    <2> QED
      BY <2>3, Zenon DEF CatFacts
  <1>3. \A i \in 1..(2 * d) : B[i] = "[" <=> i % 2 = 1
    <2>1. \A i \in 1..Len(B) : B[i] = "[" <=> i % 2 = 1
      BY PairsOnly
    <2>2. Len(B) = 2 * d
      BY DEF IsPairs
    <2> QED
      BY <2>1, <2>2
  <1> DEFINE S == {i \in DOMAIN s : s[i] = "["}
             f == [i \in 1..d |-> b + 2 * i - 1]
  <1>4. DOMAIN s = 1..(b + 2 * d)
    BY <1>2, TextIs
  <1>5. ASSUME NEW i \in 1..d PROVE f[i] \in S
    <2>1. PICK j \in 1..(2 * d) : j = 2 * i - 1
      OBVIOUS
    <2>2. j % 2 = 1
      BY <2>1
    <2>3. s[b + j] = "["
      BY <1>2, <1>3, <2>2
    <2>4. f[i] = b + j /\ b + j \in 1..(b + 2 * d)
      BY <1>1, <2>1
    <2> QED
      BY <1>4, <2>3, <2>4
  <1>6. ASSUME NEW i \in 1..d, NEW j \in 1..d, f[i] = f[j] PROVE i = j
    BY <1>1, <1>6
  <1>7. ASSUME NEW y \in S PROVE \E i \in 1..d : f[i] = y
    <2>1. y \in 1..(b + 2 * d) /\ s[y] = "["
      BY <1>4
    <2>2. ~ (y <= b)
      <3>1. ASSUME y <= b PROVE FALSE
        <4>1. y \in 1..b
          BY <2>1, <3>1
        <4>2. s[y] = x[y] /\ x[y] # "["
          BY <1>1, <1>2, <4>1
        <4> QED
          BY <2>1, <4>2
      <3> QED
        BY <3>1
    <2>3. PICK j \in 1..(2 * d) : y = b + j
      <3>1. y - b \in 1..(2 * d) /\ y = b + (y - b)
        BY <1>1, <2>1, <2>2
      <3> QED
        BY <3>1
    <2>4. j % 2 = 1
      <3>1. s[b + j] = B[j]
        BY <1>2
      <3> QED
        BY <1>3, <2>1, <2>3, <3>1
    <2>5. PICK i : i = (j + 1) \div 2
      OBVIOUS
    <2>6. i \in 1..d /\ j = 2 * i - 1
      BY <2>4, <2>5
    <2>7. f[i] = b + j
      BY <1>1, <2>6
    <2> QED
      BY <2>3, <2>6, <2>7
  <1>8. f \in [1..d -> S] /\ (\A i, j \in 1..d : f[i] = f[j] => i = j) /\ (\A y \in S : \E i \in 1..d : f[i] = y)
    <2>1. \A i \in 1..d : f[i] \in S
      BY <1>5
    <2>2. f \in [1..d -> S]
      BY <2>1
    <2> QED
      BY <1>6, <1>7, <2>2
  <1> HIDE DEF S, f
  <1>9. f \in Bijection(1..d, S)
    <2>1. f \in Injection(1..d, S)
      BY <1>8 DEF Injection, IsInjective
    <2>2. f \in Surjection(1..d, S)
      BY <1>8 DEF Surjection
    <2> QED
      BY <2>1, <2>2 DEF Bijection
  <1>10. ExistsBijection(1..d, S)
    BY <1>9 DEF ExistsBijection
  <1>11. Cardinality(S) = d
    BY <1>10, FS_CountingElements
  <1> QED
    BY <1>11 DEF S

-----------------------------------------------------------------------------
(* A printed type without its brackets.                                    *)

LEMMA Points == "." \in Letter /\ "/" \in Letter /\ "[" \in Letter /\ "]" \in Letter
  BY Literals DEF Literal

LEMMA FindSome ==
    ASSUME NEW s \in Text, NEW c, NEW w, IsOne(w, c), NEW i \in 1..Len(s), s[i] = c
    PROVE  Find(s, w) # 0
  <1>1. PICK n \in Nat : n = Len(s)
    BY TextIs
  <1>2. Hit(s, w, i)
    <2>1. i \in Nat \ {0} /\ i <= n
      BY <1>1
    <2> QED
      BY <1>1, <2>1, HitChar
  <1>3. \/ FindFrom(s, w, 1) = 0 /\ \A k \in 1..n : ~ Hit(s, w, k)
        \/ FindFrom(s, w, 1) \in 1..n
    BY <1>1, FindIs
  <1>4. i \in 1..n
    BY <1>1
  <1>5. FindFrom(s, w, 1) # 0
    BY <1>2, <1>3, <1>4
  <1> QED
    BY <1>5 DEF Find

\* What stands in front of the brackets.
PrintedBase(t) == IF t.word = "class" THEN Joined(t.path, <<".">>) ELSE <<t.word>>

LEMMA PrintedBaseWithout ==
    ASSUME NEW A, A \subseteq Separator, "." \notin A, NEW t, IsType(t)
    PROVE  PrintedBase(t) \in Without(A) /\ PrintedBase(t) # <<>>
  <1>1. CASE t.word = "class"
    <2>1. PICK n : IsPath(t.path, n)
      BY <1>1, ClassSig
    <2>2. A \subseteq Mark
      BY DEF Mark
    <2>3. Joined(t.path, <<".">>) \in Without(A)
      BY <2>1, <2>2, Points, PathWithout
    <2>4. Joined(t.path, <<".">>) # <<>>
      <3>1. PICK p, w, s : p = t.path /\ w = <<".">> /\ IsOne(w, ".") /\ s = Joined(p, w)
        BY Points DEF IsOne
      <3>2. /\ p \in Seq(Text) /\ n \in Nat \ {0} /\ n = Len(p)
            /\ p[1] \in Text /\ Len(p[1]) # 0 /\ Len(p[1]) \in Nat
        <4>1. 0 \in 0..(n - 1) /\ 0 + 1 = 1
          BY <2>1 DEF IsPath
        <4>2. IdentFacts(p[0 + 1])
          BY <2>1, <3>1, <4>1 DEF IsPath
        <4> QED
          BY <2>1, <3>1, <4>1, <4>2 DEF IsPath, IdentFacts
      <3>3. PICK T : s \in Text /\ IsPlaces(T, p, n, s, ".")
        BY <3>1, <3>2, JoinedPlaces
      <3>4. T[0] + Len(p[1]) <= Len(s) /\ T[0] = 0
        <4>1. 0 \in 0..(n - 1) /\ 0 + 1 = 1
          BY <3>2
        <4> QED
          BY <3>3, <4>1, Zenon DEF IsPlaces
      <3>5. Len(s) # 0
        <4>1. Len(s) \in Nat
          BY <3>3, TextIs
        <4> QED
          BY <3>2, <3>4, <4>1
      <3> QED
        BY <3>1, <3>5, Empty
    <2> QED
      BY <1>1, <2>3, <2>4 DEF PrintedBase
  <1>2. CASE t.word # "class"
    <2>1. t.word \in Keyword
      BY <1>2 DEF IsType
    <2>2. t.word \in Letter /\ t.word \notin A
      <3>1. t.word \in Letter
        BY <2>1, Literals
      <3>2. t.word \notin Separator
        BY <2>1 DEF Keyword, Separator
      <3> QED
        BY <3>1, <3>2
    <2>3. <<t.word>> \in Without(A)
      BY <2>2, WithoutOne
    <2> QED
      BY <1>2, <2>3 DEF PrintedBase
  <1> QED
    BY <1>1, <1>2

LEMMA PrintedTypeIs ==
    ASSUME NEW t, IsType(t)
    PROVE  /\ IsCat(PrintedType(t), PrintedBase(t), Pairs(t.dim))
           /\ IsPairs(Pairs(t.dim), t.dim) /\ t.dim \in Nat
           /\ PrintedBase(t) \in Text /\ PrintedType(t) \in Text
  <1>1. t.dim \in Nat
    BY DEF IsType
  <1>2. IsPairs(Pairs(t.dim), t.dim)
    BY <1>1, PairsAre
  <1>3. PrintedType(t) = PrintedBase(t) \o Pairs(t.dim)
    BY Zenon DEF PrintedType, PrintedBase, Pairs
  <1>4. PrintedBase(t) \in Text
    <2>1. PrintedBase(t) \in Without({})
      BY PrintedBaseWithout
    <2> QED
      BY <2>1, WithoutIs
  <1>5. PrintedBase(t) \o Pairs(t.dim) \in Text
    <2>1. Pairs(t.dim) \in Text
      BY <1>2 DEF IsPairs
    <2> QED
      BY <1>4, <2>1, Cat
  <1> QED
    BY <1>1, <1>2, <1>3, <1>4, <1>5, Zenon DEF IsCat

\* Without its brackets an array type is that of its elements.
LEMMA Unbracketed ==
    ASSUME NEW d \in Nat, NEW B, IsPairs(B, d), NEW x \in Without({"[", "]"}), NEW s, IsCat(s, x, B)
    PROVE  replace_all(replace_all(s, <<"[">>, <<>>), <<"]">>, <<>>) = x
  <1>1. x \in Text /\ B \in Text /\ x \in Without({"["}) /\ x \in Without({"]"})
    BY WithoutIs, WithoutLess DEF IsPairs
  <1>2. s = x \o B /\ s \in Text
    BY <1>1, Cat DEF IsCat
  <1>3. PICK v, w, e : v = <<"[">> /\ w = <<"]">> /\ e = <<>> /\ IsOne(v, "[") /\ IsOne(w, "]") /\ e \in Text
    BY Points, Empty DEF IsOne
  <1>4. PICK g, h : IsSubst(g, "[", e) /\ IsSubst(h, "]", e)
    BY <1>3, Points, SubstIs
  <1>5. g \in [Letter -> Text] /\ h \in [Letter -> Text]
    BY <1>4 DEF IsSubst
  <1>6. replace_all(s, v, e) = Hom(g, s)
    BY <1>2, <1>3, <1>4, Points, ReplaceIsHom
  <1>7. Hom(g, x) = x /\ Hom(h, x) = x
    BY <1>1, <1>4, SubstId
  <1>8. Hom(g, s) = x \o Hom(g, B)
    <2>1. Hom(g, x \o B) = Hom(g, x) \o Hom(g, B)
      BY <1>1, <1>5, HomConcat
    <2> QED
      BY <1>2, <1>7, <2>1, Zenon
  <1>9. Hom(g, B) \in Text /\ Hom(h, Hom(g, B)) = <<>>
    <2>1. Hom(g, B) \in Text
      BY <1>1, <1>5, HomPieces
    <2>2. PICK f : f = [c \in Letter |-> Hom(h, g[c])]
      OBVIOUS
    <2>3. f \in [Letter -> Text]
      <3>1. \A c \in Letter : Hom(h, g[c]) \in Text
        BY <1>5, HomPieces
      <3> QED
        BY <2>2, <3>1
    <2>4. Hom(h, Hom(g, B)) = Hom(f, B)
      <3>1. ASSUME NEW i \in 1..Len(B) PROVE f[B[i]] = Hom(h, g[B[i]])
        <4>1. B[i] \in Letter
          BY <1>1, TextIs
        <4> QED
          BY <2>2, <4>1
      <3> QED
        BY <1>1, <1>5, <2>3, <3>1, HomHom
    <2>5. ASSUME NEW i \in 1..Len(B) PROVE f[B[i]] = <<>>
      <3>1. B[i] = "[" \/ B[i] = "]"
        BY PairsOnly
      <3>2. f["["] = <<>>
        <4>1. g["["] = e /\ f["["] = Hom(h, g["["])
          BY <1>4, <2>2, Points DEF IsSubst
        <4> QED
          BY <1>3, <4>1, HomEmpty
      <3>3. f["]"] = <<>>
        <4>1. g["]"] = <<"]">> /\ h["]"] = e /\ f["]"] = Hom(h, g["]"])
          BY <1>4, <2>2, Points DEF IsSubst
        <4>2. Hom(h, <<"]">>) = h["]"]
          BY <1>5, Points, HomOne
        <4> QED
          BY <1>3, <4>1, <4>2, Zenon
      <3> QED
        BY <3>1, <3>2, <3>3
    <2>6. Hom(f, B) = <<>>
      BY <1>1, <2>5, HomDrop
    <2> QED
      BY <2>1, <2>4, <2>6, Zenon
  <1>10. Hom(h, Hom(g, s)) = x
    <2>1. Hom(h, x \o Hom(g, B)) = Hom(h, x) \o Hom(h, Hom(g, B))
      BY <1>1, <1>5, <1>9, HomConcat
    <2>2. x \o <<>> = x
      BY <1>1, TextIs
    <2> QED
      BY <1>7, <1>8, <1>9, <2>1, <2>2, Zenon
  <1>11. replace_all(Hom(g, s), w, e) = Hom(h, Hom(g, s))
    <2>1. Hom(g, s) \in Text
      BY <1>2, <1>5, HomPieces
    <2> QED
      BY <1>3, <1>4, <2>1, Points, ReplaceIsHom
  <1> QED
    BY <1>3, <1>6, <1>10, <1>11, Zenon

-----------------------------------------------------------------------------
(* A printed type is converted to its signature.                           *)

LEMMA BaseSigNone ==
    ASSUME NEW w, w \notin Keyword
    PROVE  BaseSig(w) = "none"
  BY DEF Keyword, BaseSig

\* What conv_java_type_2_sig_type makes of the name without brackets.
Converted(x) ==
    IF Len(x) = 1 /\ BaseSig(x[1]) # "none" THEN <<BaseSig(x[1])>>
    ELSE <<"L">> \o replace_all(x, <<".">>, <<"/">>) \o <<";">>

LEMMA ConvertedIs ==
    ASSUME NEW t, IsType(t)
    PROVE  TypeSig(t) = Dims(t.dim) \o Converted(PrintedBase(t))
  <1>1. PICK x : x = PrintedBase(t)
    OBVIOUS
  <1>2. CASE t.word = "class"
    <2>1. PICK n : IsPath(t.path, n)
      BY <1>2, ClassSig
    <2>2. PICK v, w : v = <<".">> /\ w = <<"/">> /\ IsOne(v, ".") /\ IsOne(w, "/")
      BY Points DEF IsOne
    <2>3. x = Joined(t.path, v)
      BY <1>1, <1>2, <2>2, Zenon DEF PrintedBase
    <2>4. replace_all(x, v, w) = Joined(t.path, w)
      <3>1. "." \in Mark
        BY DEF Mark, Separator
      <3>2. replace_all(Joined(t.path, v), v, w) = Joined(t.path, w)
        BY <2>1, <2>2, <3>1, Points, PathReplaced
      <3> QED
        BY <2>3, <3>2, Zenon
    <2>5. ~ (Len(x) = 1 /\ BaseSig(x[1]) # "none")
      <3>1. ASSUME Len(x) = 1 PROVE BaseSig(x[1]) = "none"
        <4>1. Keyword \subseteq Mark /\ "." \notin Keyword
          BY DEF Mark, Keyword
        <4>2. Joined(t.path, <<".">>) \in Without(Keyword)
          BY <2>1, <4>1, Points, PathWithout
        <4>3. x \in Without(Keyword)
          BY <2>2, <2>3, <4>2, Zenon
        <4>4. \A i \in 1..Len(x) : x[i] \notin Keyword
          BY <4>3, WithoutIs
        <4>5. x[1] \notin Keyword
          BY <3>1, <4>4
        <4> QED
          BY <4>5, BaseSigNone
      <3> QED
        BY <3>1
    <2>6. Converted(x) = <<"L">> \o replace_all(x, v, w) \o <<";">>
      BY <2>2, <2>5, Zenon DEF Converted
    <2>7. SigTaken(t) = Converted(x)
      <3>1. SigTaken(t) = (<<"L">> \o Joined(t.path, <<"/">>)) \o <<";">>
        BY <1>2, ClassSig
      <3> QED
        BY <2>2, <2>4, <2>6, <3>1, Zenon
    <2>8. TypeSig(t) = Dims(t.dim) \o SigTaken(t)
      BY <1>2, ClassSig
    <2> QED
      BY <1>1, <2>7, <2>8, Zenon
  <1>3. CASE t.word # "class"
    <2>1. t.word \in Keyword
      BY <1>3 DEF IsType
    <2>2. x = <<t.word>>
      BY <1>1, <1>3, Zenon DEF PrintedBase
    <2>3. Len(x) = 1 /\ x[1] = t.word
      BY <2>2
    <2>4. BaseSig(x[1]) # "none"
      <3>1. BaseSig(t.word) # "none"
        BY <2>1, BaseSigIs
      <3> QED
        BY <2>3, <3>1, Zenon
    <2>5. Converted(x) = <<BaseSig(t.word)>>
      BY <2>3, <2>4, Zenon DEF Converted
    <2>6. TypeSig(t) = Dims(t.dim) \o <<BaseSig(t.word)>>
      BY <1>3, BasicSig
    <2> QED
      BY <1>1, <2>5, <2>6, Zenon
  <1> QED
    BY <1>2, <1>3

\* A printed type is converted to its signature.
LEMMA TypeConverted ==
    ASSUME NEW t, IsType(t)
    PROVE  conv_java_type_2_sig_type(PrintedType(t)) = TypeSig(t)
  <1>1. PICK s, x, B, d : s = PrintedType(t) /\ x = PrintedBase(t) /\ B = Pairs(t.dim) /\ d = t.dim
    OBVIOUS
  <1>2. /\ IsCat(s, x, B) /\ IsPairs(B, d) /\ d \in Nat /\ x \in Text /\ s \in Text
    BY <1>1, PrintedTypeIs, Zenon
  <1>3. x \in Without({"[", "]"})
    <2>1. {"[", "]"} \subseteq Separator /\ "." \notin {"[", "]"}
      BY DEF Separator
    <2> QED
      BY <1>1, <2>1, PrintedBaseWithout
  <1>4. PICK v, w : v = <<"[">> /\ w = <<"]">> /\ IsOne(v, "[") /\ IsOne(w, "]")
    BY Points DEF IsOne
  <1>5. PICK b : HasLen(x, b) /\ b \in Nat
    BY <1>2, TextIs DEF HasLen
  <1>6. B \in Text /\ Len(B) = 2 * d /\ \A k \in 0..(d - 1) : B[2 * k + 1] = "[" /\ B[2 * k + 2] = "]"
    BY <1>2 DEF IsPairs
  <1>7. CatFacts(s, x, b, B, 2 * d)
    <2>1. HasLen(B, 2 * d)
      BY <1>2, <1>6 DEF HasLen
    <2> QED
      BY <1>2, <1>5, <2>1, CatIs
  <1>8. PICK bracketed, array, base :
          /\ bracketed = (Find(s, v) # 0 /\ Find(s, w) # 0)
          /\ array = IF bracketed THEN Cardinality({i \in DOMAIN s : s[i] = "["}) ELSE 0
          /\ base = IF bracketed THEN replace_all(replace_all(s, v, <<>>), w, <<>>) ELSE s
    OBVIOUS
  <1>9. array = d /\ base = x
    <2>1. CASE d = 0
      <3>1. B = <<>>
        BY <1>6, <2>1, Empty, TextIs
      <3>2. s = x
        BY <1>2, <3>1, TextIs DEF IsCat
      <3>3. Find(s, v) = 0
        <4>1. s \in Without({"["})
          BY <1>3, <3>2, WithoutLess
        <4> QED
          BY <1>4, <4>1, Points, FindNoChar
      <3> QED
        BY <1>8, <2>1, <3>2, <3>3
    <2>2. CASE d # 0
      <3>1. 0 \in 0..(d - 1) /\ 2 * 0 + 1 = 1 /\ 2 * 0 + 2 = 2 /\ 1 \in 1..(2 * d) /\ 2 \in 1..(2 * d)
        BY <1>2, <2>2
      <3>2. B[1] = "[" /\ B[2] = "]"
        BY <1>6, <3>1
      <3>3. s[b + 1] = "[" /\ s[b + 2] = "]" /\ Len(s) = b + 2 * d
        BY <1>7, <3>1, <3>2 DEF CatFacts
      <3>4. b + 1 \in 1..Len(s) /\ b + 2 \in 1..Len(s)
        BY <1>2, <1>5, <2>2, <3>3
      <3>5. Find(s, v) # 0 /\ Find(s, w) # 0
        BY <1>2, <1>4, <3>3, <3>4, FindSome
      <3>6. bracketed
        BY <1>8, <3>5
      <3>7. Cardinality({i \in DOMAIN s : s[i] = "["}) = d
        BY <1>2, <1>3, <1>5, Dimensions
      <3>8. replace_all(replace_all(s, v, <<>>), w, <<>>) = x
        BY <1>2, <1>3, <1>4, Unbracketed, Zenon
      <3> QED
        BY <1>8, <3>6, <3>7, <3>8, Zenon
    <2> QED
      BY <2>1, <2>2
  <1>10. conv_java_type_2_sig_type(s) = Dims(array) \o Converted(base)
    BY <1>4, <1>8, Zenon DEF conv_java_type_2_sig_type, Converted
  <1>11. TypeSig(t) = Dims(d) \o Converted(x)
    BY <1>1, ConvertedIs, Zenon
  <1> QED
    BY <1>1, <1>9, <1>10, <1>11, Zenon

-----------------------------------------------------------------------------
(* The printed arguments of a method.                                      *)

Printeds(d) == [i \in DOMAIN d.args |-> PrintedType(d.args[i])]
Sigs(d) == [i \in DOMAIN d.args |-> TypeSig(d.args[i])]
IsComma(v) == v = <<",">> \/ v = <<",", " ">>

LEMMA Spaces == "," \in Letter /\ " " \in Letter
  BY Literals DEF Literal

LEMMA TwoChars ==
    ASSUME NEW a \in Letter, NEW b \in Letter
    PROVE  <<a, b>> = <<a>> \o <<b>>
  <1>1. PICK x, z : x = <<a>> /\ z = <<a, b>>
    OBVIOUS
  <1>2. z \in Seq(Letter) /\ Len(z) = 2 /\ z[1] = a /\ z[2] = b
    BY <1>1
  <1>3. x \in Text /\ Len(x) = 1 /\ x[1] = a
    BY <1>1, Char
  <1>4. PICK y : y = x \o <<b>>
    OBVIOUS
  <1>5. y \in Text /\ Len(y) = 2 /\ y[1] = a /\ y[2] = b
    <2>1. /\ x \o <<b>> \in Text /\ Len(x \o <<b>>) = Len(x) + 1
          /\ \A i \in 1..Len(x) : (x \o <<b>>)[i] = x[i]
          /\ (x \o <<b>>)[Len(x) + 1] = b
      BY <1>3, CatChar, Zenon
    <2>2. /\ y \in Text /\ Len(y) = Len(x) + 1 /\ (\A i \in 1..Len(x) : y[i] = x[i])
          /\ y[Len(x) + 1] = b
      BY <1>4, <2>1, Zenon
    <2> QED
      BY <1>3, <2>2
  <1>6. z = y
    <2>1. \A i \in 1..2 : z[i] = y[i]
      BY <1>2, <1>5
    <2> QED
      BY <1>2, <1>5, <2>1, Same DEF Text
  <1> QED
    BY <1>1, <1>4, <1>6

LEMMA CommaIs ==
    ASSUME NEW v, IsComma(v)
    PROVE  v \in Text /\ v \in Without({"(", ")"})
  <1>1. PICK a, b : a = <<",">> /\ b = <<" ">> /\ a \in Without({"(", ")"}) /\ b \in Without({"(", ")"})
    <2>1. <<",">> \in Without({"(", ")"}) /\ <<" ">> \in Without({"(", ")"})
      BY Spaces, WithoutOne
    <2> QED
      BY <2>1
  <1>2. <<",", " ">> = a \o b
    BY <1>1, TwoChars, Spaces
  <1>3. a \o b \in Without({"(", ")"})
    BY <1>1, WithoutKind, KindCat
  <1>4. v \in Without({"(", ")"})
    BY <1>1, <1>2, <1>3, Zenon DEF IsComma
  <1> QED
    BY <1>4, WithoutIs

LEMMA TypeWithout ==
    ASSUME NEW t, IsType(t)
    PROVE  /\ PrintedType(t) \in Without({"(", ")", ",", " "})
           /\ PrintedType(t) # <<>> /\ PrintedType(t) \in Text
  <1>1. PICK s, x, B, d : s = PrintedType(t) /\ x = PrintedBase(t) /\ B = Pairs(t.dim) /\ d = t.dim
    OBVIOUS
  <1>2. /\ IsCat(s, x, B) /\ IsPairs(B, d) /\ d \in Nat /\ x \in Text /\ s \in Text
    BY <1>1, PrintedTypeIs, Zenon
  <1>3. x \in Without({"(", ")", ",", " "}) /\ x # <<>>
    <2>1. {"(", ")", ",", " "} \subseteq Separator /\ "." \notin {"(", ")", ",", " "}
      BY DEF Separator
    <2> QED
      BY <1>1, <2>1, PrintedBaseWithout
  <1>4. B \in Text /\ Len(B) \in Nat
    BY <1>2, TextIs DEF IsPairs
  <1>5. B \in Without({"(", ")", ",", " "})
    <2>1. \A i \in 1..Len(B) : B[i] = "[" \/ B[i] = "]"
      BY <1>2, PairsOnly
    <2>2. \A i \in 1..Len(B) : B[i] \notin {"(", ")", ",", " "}
      BY <2>1
    <2> QED
      BY <1>4, <2>2 DEF Without
  <1>6. s \in Without({"(", ")", ",", " "})
    <2>1. x \o B \in Without({"(", ")", ",", " "})
      BY <1>3, <1>5, WithoutKind, KindCat
    <2> QED
      BY <1>2, <2>1, Zenon DEF IsCat
  <1>7. s # <<>>
    <2>1. Len(x) \in Nat \ {0}
      BY <1>2, <1>3, TextIs
    <2>2. Len(x \o B) = Len(x) + Len(B)
      BY <1>2, <1>4, Cat
    <2>3. Len(s) # 0
      <3>1. s = x \o B
        BY <1>2 DEF IsCat
      <3>2. Len(s) = Len(x) + Len(B)
        BY <2>2, <3>1, Zenon
      <3> QED
        BY <1>4, <2>1, <3>2
    <2> QED
      BY <2>3, Empty
  <1> QED
    BY <1>1, <1>2, <1>6, <1>7, Zenon

LEMMA PrintedsAre ==
    ASSUME NEW d \in Decl
    PROVE  /\ Printeds(d) \in Seq(Text) /\ Len(d.args) \in Nat /\ Len(Printeds(d)) = Len(d.args)
           /\ DOMAIN d.args = 1..Len(d.args)
           /\ \A i \in 1..Len(d.args) : Printeds(d)[i] = PrintedType(d.args[i]) /\ IsType(d.args[i])
           /\ \A k \in 0..(Len(d.args) - 1) :
                 /\ Printeds(d)[k + 1] \in Without({"(", ")", ",", " "})
                 /\ Printeds(d)[k + 1] # <<>> /\ Printeds(d)[k + 1] \in Text
  <1>1. PICK n \in Nat : n = Len(d.args)
    BY DeclIs
  <1>2. DOMAIN d.args = 1..n /\ \A i \in 1..n : IsType(d.args[i])
    BY <1>1, DeclIs, Zenon
  <1>3. PICK p : p = Printeds(d)
    OBVIOUS
  <1>4. \A i \in 1..n : /\ PrintedType(d.args[i]) \in Without({"(", ")", ",", " "})
                        /\ PrintedType(d.args[i]) # <<>> /\ PrintedType(d.args[i]) \in Text
    BY <1>2, TypeWithout
  <1>5. p \in Seq(Text) /\ Len(p) = n /\ \A i \in 1..n : p[i] = PrintedType(d.args[i])
    <2>1. p = [i \in 1..n |-> PrintedType(d.args[i])]
      BY <1>2, <1>3, Zenon DEF Printeds
    <2>2. \A i \in 1..n : p[i] = PrintedType(d.args[i]) /\ p[i] \in Text
      BY <1>4, <2>1
    <2>3. p = [i \in 1..n |-> p[i]]
      BY <2>1
    <2>4. p \in Seq(Text)
      BY <2>2, <2>3
    <2>5. Len(p) = n
      BY <2>3
    <2> QED
      BY <2>2, <2>4, <2>5
  <1>6. ASSUME NEW k \in 0..(n - 1)
        PROVE  /\ p[k + 1] \in Without({"(", ")", ",", " "})
               /\ p[k + 1] # <<>> /\ p[k + 1] \in Text
    <2>1. k + 1 \in 1..n
      OBVIOUS
    <2> QED
      BY <1>4, <1>5, <2>1, Zenon
  <1> QED
    BY <1>1, <1>2, <1>3, <1>5, <1>6, Zenon

\* Joining and splitting the arguments, with and without a space behind the comma.
LEMMA ArgsSplit ==
    ASSUME NEW d \in Decl, NEW v, IsComma(v)
    PROVE  string_split(replace_all(Joined(Printeds(d), v), <<" ">>, <<>>), <<",">>) = Printeds(d)
  <1>0. PICK n \in Nat : n = Len(d.args)
    BY PrintedsAre
  <1>1. PICK p : p = Printeds(d) /\ n = Len(d.args) /\ p \in Seq(Text) /\ Len(p) = n /\ n = Len(p)
    BY <1>0, PrintedsAre, Zenon
  <1>2. \A k \in 0..(n - 1) : /\ p[k + 1] \in Without({"(", ")", ",", " "})
                              /\ p[k + 1] # <<>> /\ p[k + 1] \in Text
    BY <1>1, PrintedsAre, Zenon
  <1>3. PICK b, c, e : /\ b = <<" ">> /\ c = <<",">> /\ e = <<>> /\ IsOne(b, " ") /\ IsOne(c, ",") /\ e \in Text
                       /\ b \in Text /\ c \in Text
    BY Spaces, Empty, Char DEF IsOne
  <1>4. PICK h : IsSubst(h, " ", e)
    BY <1>3, Spaces, SubstIs
  <1>5. h \in [Letter -> Text] /\ h[" "] = e /\ h[","] = <<",">>
    BY <1>4, Spaces DEF IsSubst
  <1>6. Hom(h, v) = c
    <2>1. Hom(h, c) = c
      BY <1>3, <1>5, Spaces, HomOne
    <2>2. Hom(h, b) = e
      BY <1>3, <1>5, Spaces, HomOne
    <2>3. Hom(h, c \o b) = Hom(h, c) \o Hom(h, b)
      BY <1>3, <1>5, HomConcat
    <2>4. <<",", " ">> = c \o b
      BY <1>3, TwoChars, Spaces
    <2>5. c \o e = c
      BY <1>3, TextIs
    <2> QED
      BY <1>3, <2>1, <2>2, <2>3, <2>4, <2>5, Zenon DEF IsComma
  <1>7. IsMapped(p, p, h, n)
    <2>1. ASSUME NEW k \in 0..(n - 1) PROVE p[k + 1] = Hom(h, p[k + 1])
      <3>2. p[k + 1] \in Without({"(", ")", ",", " "})
        BY <1>2
      <3>1. p[k + 1] \in Without({" "})
        BY <3>2 DEF Without
      <3> QED
        BY <1>4, <3>1, SubstId
    <2> QED
      BY <1>1, <2>1 DEF IsMapped
  <1>8. v \in Text
    BY CommaIs
  <1>9. Hom(h, Joined(p, v)) = Joined(p, c)
    <2>1. c \in Text /\ h \in [Letter -> Text]
      BY <1>3, <1>5, Zenon
    <2> QED
      BY <2>1, <1>6, <1>7, <1>8, HomJoined
  <1>10. Joined(p, v) \in Text
    <2>0. p \in Seq(Text) /\ n = Len(p)
      BY <1>1, Zenon
    <2>1. PICK q : Joined(p, v) = FlattenSeq(q) /\ q \in Seq(Text) /\ n = Len(q)
      BY <2>0, <1>8, JoinedIs
    <2>2. q \in Seq(Text) /\ n = Len(q)
      BY <2>1, Zenon
    <2>3. FlattenSeq(q) \in Text
      BY <2>2, FlattenAt
    <2> QED
      BY <2>1, <2>3, Zenon
  <1>11. replace_all(Joined(p, v), b, e) = Hom(h, Joined(p, v))
    <2>1. IsOne(b, " ") /\ e \in Text
      BY <1>3, Zenon
    <2>2. PICK s, a : s = Joined(p, v) /\ a = " "
      OBVIOUS
    <2>3. s \in Text /\ a \in Letter /\ IsOne(b, a) /\ e \in Text /\ IsSubst(h, a, e)
      BY <1>4, <1>10, <2>1, <2>2, Spaces, Zenon
    <2>4. replace_all(s, b, e) = Hom(h, s)
      BY <2>3, ReplaceIsHom
    <2> QED
      BY <2>2, <2>4, Zenon
  <1>12. string_split(Joined(p, c), c) = p
    <2>1. CASE n = 0
      <3>1. p = <<>>
        BY <1>1, <2>1
      <3>2. Joined(p, c) = <<>>
        <4>0. c \in Text
          BY <1>3, Zenon
        <4>1. PICK q : Joined(p, c) = FlattenSeq(q) /\ q \in Seq(Text) /\ n = Len(q)
          <5>1. p \in Seq(Text) /\ n = Len(p)
            BY <1>1, Zenon
          <5> QED
            BY <4>0, <5>1, JoinedIs
        <4>2. q = <<>>
          BY <2>1, <4>1
        <4> QED
          BY <4>1, <4>2, FlattenEmpty, Zenon
      <3>3. PICK R : string_split(e, c) = R[1] /\ IsSplit(R, e, c, 0)
        <4>1. 0 = Len(e) /\ Len(c) = 1
          BY <1>3, Char, Spaces, Empty, Zenon
        <4>2. Len(c) # 0
          BY <4>1
        <4>3. e \in Text /\ c \in Text
          BY <1>3, Zenon
        <4> QED
          BY <4>1, <4>2, <4>3, SplitIs
      <3>4. R[0 + 1] = <<>>
        BY <3>3, Zenon DEF IsSplit
      <3>5. R[1] = <<>>
        BY <3>4
      <3> QED
        BY <1>3, <3>1, <3>2, <3>3, <3>5, Zenon
    <2>2. CASE n # 0
      <3>1. ASSUME NEW k \in 0..(n - 1) PROVE Lacks(p[k + 1], Len(p[k + 1]), ",") /\ Len(p[k + 1]) # 0
        <4>3. p[k + 1] \in Without({"(", ")", ",", " "})
          BY <1>2
        <4>1. p[k + 1] \in Without({","})
          BY <4>3 DEF Without
        <4>2. HasLen(p[k + 1], Len(p[k + 1])) /\ Len(p[k + 1]) # 0
          BY <1>2, HasLenIs, TextIs
        <4> QED
          BY <4>1, <4>2 DEF Lacks
      <3>2. IsParts(p, n, ",")
        BY <1>1, <2>2, <3>1 DEF IsParts
      <3>3. n \in Nat \ {0}
        BY <2>2
      <3> QED
        BY <1>3, <3>2, <3>3, SplitJoined
    <2> QED
      BY <2>1, <2>2
  <1> QED
    BY <1>1, <1>3, <1>9, <1>11, <1>12, Zenon

LEMMA PrettyArgsRead ==
    ASSUME NEW d \in Decl, NEW v, IsComma(v)
    PROVE  PrettyArgs(Joined(Printeds(d), v)) = Sigs(d)
  <1>0. PICK n \in Nat : n = Len(d.args)
    BY PrintedsAre
  <1>1. PICK p : p = Printeds(d) /\ n = Len(d.args) /\ p \in Seq(Text) /\ Len(p) = n /\ n = Len(p)
    BY <1>0, PrintedsAre, Zenon
  <1>2. DOMAIN d.args = 1..n /\ DOMAIN p = 1..n
        /\ \A i \in 1..n : p[i] = PrintedType(d.args[i]) /\ IsType(d.args[i])
    <2>1. DOMAIN p = 1..n
      BY <1>1
    <2> QED
      BY <1>1, <2>1, PrintedsAre, Zenon
  <1>3. string_split(replace_all(Joined(p, v), <<" ">>, <<>>), <<",">>) = p
    BY <1>1, ArgsSplit, Zenon
  <1>4. PrettyArgs(Joined(p, v)) = [i \in DOMAIN p |-> conv_java_type_2_sig_type(p[i])]
    BY <1>3, Zenon DEF PrettyArgs
  <1>5. \A i \in 1..n : conv_java_type_2_sig_type(p[i]) = TypeSig(d.args[i])
    BY <1>2, TypeConverted
  <1>6. [i \in DOMAIN p |-> conv_java_type_2_sig_type(p[i])] = [i \in DOMAIN d.args |-> TypeSig(d.args[i])]
    BY <1>2, <1>5
  <1> QED
    BY <1>1, <1>4, <1>6, Zenon DEF Sigs

-----------------------------------------------------------------------------
(* The line of a method in print.                                          *)

\* The line of a method: modifiers, type, space, name, parentheses around the arguments, rest.
LineOf(M, R, J, A, T) ==
    M \o R \o <<" ">> \o J \o <<"(">> \o A \o <<")">> \o T
IsLine(s, n, M, a, R, b, J, m, A, l, T, t) ==
    /\ s \in Text /\ n = Len(s) /\ n = a + b + 1 + m + 1 + l + 1 + t
    /\ Stands(s, 0, M, a) /\ Stands(s, a, R, b) /\ s[a + b + 1] = " "
    /\ Stands(s, a + b + 1, J, m) /\ s[a + b + 1 + m + 1] = "("
    /\ Stands(s, a + b + 1 + m + 1, A, l) /\ s[a + b + 1 + m + 1 + l + 1] = ")"
    /\ Stands(s, a + b + 1 + m + 1 + l + 1, T, t)

LEMMA CatHas ==
    ASSUME NEW x, NEW l, HasLen(x, l), NEW y, NEW m, HasLen(y, m), NEW z, IsCat(z, x, y)
    PROVE  HasLen(z, l + m)
  <1>1. CatFacts(z, x, l, y, m)
    BY CatIs
  <1> QED
    BY <1>1 DEF CatFacts, HasLen

LEMMA StandsCat ==
    ASSUME NEW s, NEW k \in Nat, NEW x, NEW c, HasLen(x, c), NEW y, NEW e, HasLen(y, e),
           NEW z, IsCat(z, x, y), Stands(s, k, z, c + e)
    PROVE  Stands(s, k, x, c) /\ Stands(s, k + c, y, e)
  <1>1. c \in Nat /\ e \in Nat /\ x \in Text /\ y \in Text /\ c = Len(x) /\ e = Len(y)
    BY DEF HasLen
  <1>2. c + e \in Nat
    BY <1>1
  <1> QED
    BY <1>1, <1>2, StandsParts

LEMMA OneHas ==
    ASSUME NEW w, NEW c, IsOne(w, c)
    PROVE  HasLen(w, 1)
  BY Char DEF IsOne, HasLen

LEMMA StandsLetter ==
    ASSUME NEW s, NEW k \in Nat, NEW w, NEW c, IsOne(w, c), Stands(s, k, w, 1)
    PROVE  s[k + 1] = c
  BY StandsOne DEF IsOne

LEMMA LineIs ==
    ASSUME NEW M, NEW a, HasLen(M, a), NEW R, NEW b, HasLen(R, b), NEW J, NEW m, HasLen(J, m),
           NEW A, NEW l, HasLen(A, l), NEW T, NEW t, HasLen(T, t), NEW s, s = LineOf(M, R, J, A, T)
    PROVE  \E n : IsLine(s, n, M, a, R, b, J, m, A, l, T, t)
  <1>1. PICK v, w, e : v = <<" ">> /\ w = <<"(">> /\ e = <<")">>
                       /\ IsOne(v, " ") /\ IsOne(w, "(") /\ IsOne(e, ")")
    BY Spaces, Brackets DEF IsOne
  <1>2. HasLen(v, 1) /\ HasLen(w, 1) /\ HasLen(e, 1)
    BY <1>1, OneHas
  <1>3. PICK u1 : IsCat(u1, M, R)
    BY DEF IsCat
  <1>4. PICK u2 : IsCat(u2, u1, v)
    BY DEF IsCat
  <1>5. PICK u3 : IsCat(u3, u2, J)
    BY DEF IsCat
  <1>6. PICK u4 : IsCat(u4, u3, w)
    BY DEF IsCat
  <1>7. PICK u5 : IsCat(u5, u4, A)
    BY DEF IsCat
  <1>8. PICK u6 : IsCat(u6, u5, e)
    BY DEF IsCat
  <1>9. IsCat(s, u6, T)
    BY <1>1, <1>3, <1>4, <1>5, <1>6, <1>7, <1>8, Zenon DEF IsCat, LineOf
  <1>10. a \in Nat /\ b \in Nat /\ m \in Nat /\ l \in Nat /\ t \in Nat
    BY DEF HasLen
  <1>11. HasLen(u1, a + b)
    BY <1>3, CatHas
  <1>12. HasLen(u2, a + b + 1)
    BY <1>2, <1>4, <1>11, CatHas
  <1>13. HasLen(u3, a + b + 1 + m)
    BY <1>5, <1>12, CatHas
  <1>14. HasLen(u4, a + b + 1 + m + 1)
    BY <1>2, <1>6, <1>13, CatHas
  <1>15. HasLen(u5, a + b + 1 + m + 1 + l)
    BY <1>7, <1>14, CatHas
  <1>16. HasLen(u6, a + b + 1 + m + 1 + l + 1)
    BY <1>2, <1>8, <1>15, CatHas
  <1>17. HasLen(s, a + b + 1 + m + 1 + l + 1 + t)
    BY <1>9, <1>16, CatHas
  <1>18. Stands(s, 0, s, a + b + 1 + m + 1 + l + 1 + t)
    BY <1>17 DEF Stands, HasLen
  <1>19. Stands(s, 0, u6, a + b + 1 + m + 1 + l + 1)
         /\ Stands(s, 0 + (a + b + 1 + m + 1 + l + 1), T, t)
    BY <1>9, <1>16, <1>18, StandsCat
  <1>20. Stands(s, 0, u5, a + b + 1 + m + 1 + l)
         /\ Stands(s, 0 + (a + b + 1 + m + 1 + l), e, 1)
    BY <1>2, <1>8, <1>15, <1>19, StandsCat
  <1>21. Stands(s, 0, u4, a + b + 1 + m + 1) /\ Stands(s, 0 + (a + b + 1 + m + 1), A, l)
    BY <1>7, <1>14, <1>20, StandsCat
  <1>22. Stands(s, 0, u3, a + b + 1 + m) /\ Stands(s, 0 + (a + b + 1 + m), w, 1)
    BY <1>2, <1>6, <1>13, <1>21, StandsCat
  <1>23. Stands(s, 0, u2, a + b + 1) /\ Stands(s, 0 + (a + b + 1), J, m)
    BY <1>5, <1>12, <1>22, StandsCat
  <1>24. Stands(s, 0, u1, a + b) /\ Stands(s, 0 + (a + b), v, 1)
    BY <1>2, <1>4, <1>11, <1>23, StandsCat
  <1>25. Stands(s, 0, M, a) /\ Stands(s, 0 + a, R, b)
    BY <1>3, <1>24, StandsCat
  <1>26. /\ 0 + a = a /\ 0 + (a + b) = a + b /\ 0 + (a + b + 1) = a + b + 1
         /\ 0 + (a + b + 1 + m) = a + b + 1 + m
         /\ 0 + (a + b + 1 + m + 1) = a + b + 1 + m + 1
         /\ 0 + (a + b + 1 + m + 1 + l) = a + b + 1 + m + 1 + l
         /\ 0 + (a + b + 1 + m + 1 + l + 1) = a + b + 1 + m + 1 + l + 1
         /\ a + b \in Nat /\ a + b + 1 + m \in Nat /\ a + b + 1 + m + 1 + l \in Nat
    BY <1>10
  <1>27. Stands(s, a + b, v, 1) /\ Stands(s, a + b + 1 + m, w, 1) /\ Stands(s, a + b + 1 + m + 1 + l, e, 1)
    BY <1>20, <1>22, <1>24, <1>26, Zenon
  <1>28. s[a + b + 1] = " " /\ s[a + b + 1 + m + 1] = "(" /\ s[a + b + 1 + m + 1 + l + 1] = ")"
    BY <1>1, <1>26, <1>27, StandsLetter
  <1>29. s \in Text /\ a + b + 1 + m + 1 + l + 1 + t = Len(s)
    BY <1>17, Zenon DEF HasLen
  <1> QED
    BY <1>19, <1>21, <1>23, <1>25, <1>26, <1>28, <1>29, Zenon DEF IsLine

\* What the parser finds in such a line.
LineHas(s, M, a, R, b, J, m, A, l) ==
    /\ Find(s, <<"(">>) = a + b + 1 + m + 1
    /\ Find(s, <<")">>) = a + b + 1 + m + 1 + l + 1
    /\ FindLastOf(s, " ", a + b + 1 + m + 1) = a + b + 1
    /\ FindLastOf(s, " ", a + b) = a
    /\ SubSeq(s, a + 1, a + b) = R
    /\ SubSeq(s, a + b + 1 + 1, a + b + 1 + m) = J
    /\ SubSeq(s, a + b + 1 + m + 1 + 1, a + b + 1 + m + 1 + l) = A

Spaced(M, a) == M = <<>> \/ (a # 0 /\ M[a] = " ")

Clear(M, a, R, J, A) ==
    /\ M \in Without({"("}) /\ R \in Without({"("}) /\ J \in Without({"("})
    /\ M \in Without({")"}) /\ R \in Without({")"}) /\ J \in Without({")"}) /\ A \in Without({")"})
    /\ R \in Without({" "}) /\ J \in Without({" "}) /\ Spaced(M, a)

LEMMA FindFirst ==
    ASSUME NEW s, NEW n \in Nat, s \in Text, n = Len(s), NEW w, NEW c, IsOne(w, c), NEW r \in 1..n, s[r] = c,
           \A k \in 1..(r - 1) : s[k] # c
    PROVE  Find(s, w) = r
  <1>1. Hit(s, w, r)
    BY HitChar
  <1>2. \A k \in 1..(r - 1) : ~ Hit(s, w, k)
    BY HitChar
  <1> QED
    BY <1>1, <1>2, FindAt DEF Find

LEMMA StandsWithout ==
    ASSUME NEW s, NEW k \in Nat, NEW w, NEW m, HasLen(w, m), Stands(s, k, w, m), NEW c, w \in Without({c})
    PROVE  \A h \in (k + 1)..(k + m) : s[h] # c
  <1>1. m \in Nat /\ Lacks(w, m, c)
    BY DEF HasLen, Lacks
  <1> QED
    BY <1>1, StandsLacks

LEMMA LineRead ==
    ASSUME NEW M, NEW a, HasLen(M, a), NEW R, NEW b, HasLen(R, b), NEW J, NEW m, HasLen(J, m),
           NEW A, NEW l, HasLen(A, l), NEW T, NEW t, HasLen(T, t), NEW s, NEW n,
           IsLine(s, n, M, a, R, b, J, m, A, l, T, t), Clear(M, a, R, J, A)
    PROVE  LineHas(s, M, a, R, b, J, m, A, l)
  <1>1. a \in Nat /\ b \in Nat /\ m \in Nat /\ l \in Nat /\ t \in Nat
    BY DEF HasLen
  <1>0. M = <<>> => a = 0
    BY Empty DEF HasLen
  <1>2. PICK p \in Nat : p = a + b + 1
    BY <1>1
  <1>3. PICK q \in Nat : q = p + m + 1
    BY <1>1
  <1>4. PICK r \in Nat : r = q + l + 1
    BY <1>1
  <1>11. PICK x, y, z : x = " " /\ y = "(" /\ z = ")" /\ x # y /\ x # z /\ y # z
    <2>1. " " # "(" /\ " " # ")" /\ "(" # ")"
      BY Zenon
    <2> QED
      BY <2>1, Zenon
  <1>17. x # y /\ x # z /\ y # z
    BY <1>11, Zenon
  <1>5. n \in Nat /\ n = r + t
    <2>1. n = a + b + 1 + m + 1 + l + 1 + t
      BY Zenon DEF IsLine
    <2> QED
      BY <1>1, <1>2, <1>3, <1>4, <2>1
  <1>18. s \in Text /\ n = Len(s) /\ s[p] = x /\ s[q] = y /\ s[r] = z
    BY <1>2, <1>3, <1>4, <1>11, Zenon DEF IsLine
  <1>6. Stands(s, 0, M, a) /\ Stands(s, a, R, b) /\ Stands(s, p, J, m) /\ Stands(s, q, A, l)
    BY <1>2, <1>3, Zenon DEF IsLine
  <1>19. /\ M \in Without({y}) /\ R \in Without({y}) /\ J \in Without({y})
         /\ M \in Without({z}) /\ R \in Without({z}) /\ J \in Without({z}) /\ A \in Without({z})
         /\ R \in Without({x}) /\ J \in Without({x})
    BY <1>11, Zenon DEF Clear
  <1>7. /\ \A h \in (0 + 1)..(0 + a) : s[h] # y
        /\ \A h \in (a + 1)..(a + b) : s[h] # y
        /\ \A h \in (p + 1)..(p + m) : s[h] # y
    BY <1>1, <1>6, <1>19, StandsWithout
  <1>8. /\ \A h \in (0 + 1)..(0 + a) : s[h] # z
        /\ \A h \in (a + 1)..(a + b) : s[h] # z
        /\ \A h \in (p + 1)..(p + m) : s[h] # z
        /\ \A h \in (q + 1)..(q + l) : s[h] # z
    BY <1>1, <1>6, <1>19, StandsWithout
  <1>9. /\ \A h \in (a + 1)..(a + b) : s[h] # x
        /\ \A h \in (p + 1)..(p + m) : s[h] # x
    BY <1>1, <1>6, <1>19, StandsWithout
  <1>10. PICK v, w : v = <<"(">> /\ w = <<")">> /\ IsOne(v, y) /\ IsOne(w, z)
    BY <1>11, Brackets, Zenon DEF IsOne
  <1>12. Find(s, v) = q
    <2>1. \A k \in 1..(q - 1) : s[k] # y
      BY <1>1, <1>2, <1>3, <1>18, <1>7, <1>17
    <2>2. q \in 1..n
      BY <1>1, <1>3, <1>4, <1>5
    <2>3. IsOne(v, y)
      BY <1>10, Zenon
    <2>4. s \in Text /\ n \in Nat /\ n = Len(s) /\ s[q] = y
      BY <1>5, <1>18, Zenon
    <2> QED
      BY <2>1, <2>2, <2>3, <2>4, FindFirst
  <1>13. Find(s, w) = r
    <2>1. \A k \in 1..(r - 1) : s[k] # z
      BY <1>1, <1>2, <1>3, <1>4, <1>18, <1>8, <1>17
    <2>2. r \in 1..n
      BY <1>1, <1>3, <1>4, <1>5
    <2>3. IsOne(w, z)
      BY <1>10, Zenon
    <2>4. s \in Text /\ n \in Nat /\ n = Len(s) /\ s[r] = z
      BY <1>5, <1>18, Zenon
    <2> QED
      BY <2>1, <2>2, <2>3, <2>4, FindFirst
  <1>14. FindLastOf(s, x, q) = p
    <2>1. \A k \in (p + 1)..q : s[k] # x
      BY <1>1, <1>3, <1>18, <1>9, <1>17
    <2>2. p \in 1..q /\ q \in Int
      BY <1>1, <1>2, <1>3
    <2>3. s[p] = x
      BY <1>18, Zenon
    <2> QED
      BY <2>1, <2>2, <2>3, FindLastIs
  <1>15. FindLastOf(s, x, a + b) = a
    <2>1. a + b \in Int
      BY <1>1
    <2>2. CASE M = <<>>
      <3>1. a = 0
        BY <1>0, <2>2, Zenon
      <3>2. \A k \in 1..(a + b) : s[k] # x
        BY <1>1, <1>9, <3>1
      <3> QED
        BY <2>1, <3>1, <3>2, FindLastNone
    <2>3. CASE a # 0 /\ M[a] = x
      <3>0. a # 0
        BY <2>3, Zenon
      <3>1. s[a] = x
        <4>1. a - 1 \in 0..(a - 1) /\ (a - 1) + 1 = a /\ 0 + (a - 1) + 1 = a
          BY <1>1, <3>0
        <4>2. s[0 + (a - 1) + 1] = M[(a - 1) + 1]
          BY <1>6, <4>1, Zenon DEF Stands
        <4> QED
          BY <2>3, <4>1, <4>2, Zenon
      <3>2. a \in 1..(a + b)
        BY <1>1, <3>0
      <3>3. \A k \in (a + 1)..(a + b) : s[k] # x
        BY <1>9, Zenon
      <3> QED
        BY <2>1, <3>1, <3>2, <3>3, FindLastIs
    <2> QED
      BY <1>11, <2>2, <2>3, Zenon DEF Spaced, Clear
  <1>16. SubSeq(s, a + 1, a + b) = R /\ SubSeq(s, p + 1, p + m) = J /\ SubSeq(s, q + 1, q + l) = A
    <2>1. a + b <= Len(s) /\ p + m <= Len(s) /\ q + l <= Len(s)
      BY <1>1, <1>2, <1>3, <1>4, <1>5, <1>18
    <2>2. s \in Text
      BY <1>18, Zenon
    <2> QED
      BY <1>1, <1>6, <2>1, <2>2, SubStands
  <1> QED
    BY <1>2, <1>3, <1>4, <1>10, <1>11, <1>12, <1>13, <1>14, <1>15, <1>16, Zenon DEF LineHas

-----------------------------------------------------------------------------
(* Its full name.                                                          *)

MethodPath(d) == Append(d.class, d.name)

\* The full name of a method, with the points between its identifiers.
LEMMA FullName ==
    ASSUME NEW d \in Decl
    PROVE  /\ Joined(MethodPath(d), <<".">>) \in Text
           /\ \A A : A \subseteq Separator /\ "." \notin A => Joined(MethodPath(d), <<".">>) \in Without(A)
           /\ SplitName(Joined(MethodPath(d), <<".">>)) # Failed
           /\ SplitName(Joined(MethodPath(d), <<".">>)).class = Joined(d.class, <<".">>)
           /\ SplitName(Joined(MethodPath(d), <<".">>)).method = d.name
           /\ Joined(MethodPath(d), <<".">>) # <<>>
  <1>1. PICK n : IsPath(d.class, n)
    BY DeclIs
  <1>2. IsIdentifier(d.name) /\ IdentFacts(d.name)
    BY DeclIs, IdentIs
  <1>3. IsPath(MethodPath(d), n + 1)
    BY <1>1, <1>2, PathAppend DEF MethodPath
  <1>4. PICK w : w = <<".">> /\ IsOne(w, ".") /\ w \in Text
    BY Points, Char DEF IsOne
  <1>5. PICK p, x : p = d.class /\ x = d.name
    OBVIOUS
  <1>6. PICK J : J = Joined(p, w)
    OBVIOUS
  <1>7. /\ p \in Seq(Text) /\ n \in Nat \ {0} /\ n = Len(p)
        /\ \A k \in 0..(n - 1) : IdentFacts(p[k + 1])
    BY <1>1, <1>5, Zenon DEF IsPath
  <1>8. J \in Text /\ J # <<>>
    <2>1. PICK q : /\ Joined(p, w) = FlattenSeq(q) /\ q \in Seq(Text) /\ n = Len(q)
                   /\ \A k \in 0..(n - 1) : q[k + 1] = IF k = 0 THEN p[k + 1] ELSE w \o p[k + 1]
      BY <1>4, <1>7, JoinedIs
    <2>2. q \in Seq(Text) /\ n = Len(q) /\ J = FlattenSeq(q)
      BY <1>6, <2>1, Zenon
    <2>3. q[0 + 1] = p[0 + 1] /\ IdentFacts(p[0 + 1])
      <3>1. 0 \in 0..(n - 1)
        BY <1>7
      <3> QED
        BY <1>7, <2>1, <3>1
    <2>4. Len(q[0 + 1]) # 0 /\ Len(q[0 + 1]) \in Nat
      BY <2>3 DEF IdentFacts
    <2>5. /\ FlattenSeq(q) \in Text
          /\ \A i \in 0..n : Len(Heads(q)[i]) \in 0..Len(FlattenSeq(q))
          /\ Len(Heads(q)[0]) = 0
          /\ \A k \in 0..(n - 1) : Len(Heads(q)[k + 1]) = Len(Heads(q)[k]) + Len(q[k + 1])
      BY <1>7, <2>2, FlattenAt
    <2>6. Len(FlattenSeq(q)) # 0
      <3>1. 0 \in 0..(n - 1) /\ 1 \in 0..n
        BY <1>7
      <3>2. Len(Heads(q)[0 + 1]) = Len(Heads(q)[0]) + Len(q[0 + 1])
        BY <2>5, <3>1
      <3>3. Len(Heads(q)[1]) \in 0..Len(FlattenSeq(q)) /\ Len(FlattenSeq(q)) \in Nat
        BY <2>5, <3>1, TextIs
      <3> QED
        BY <2>4, <2>5, <3>2, <3>3
    <2> QED
      BY <2>2, <2>5, <2>6, Empty, Zenon
  <1>9. PICK u, v, s : IsCat(u, J, w) /\ IsCat(v, w, x) /\ IsCat(s, u, x)
    BY DEF IsCat
  <1>10. x \in Text /\ x # <<>> /\ x \in Without({"."})
    <2>1. x \in Text /\ x \in Without(Mark) /\ x # <<>>
      BY <1>2, <1>5, Zenon DEF IdentFacts
    <2>2. {"."} \subseteq Mark
      BY DEF Mark, Separator
    <2> QED
      BY <2>1, <2>2, WithoutLess
  <1>11. IsCat(s, J, v)
    BY <1>4, <1>8, <1>9, <1>10, AssocIs
  <1>12. Joined(MethodPath(d), w) = s
    <2>1. p # <<>>
      BY <1>7
    <2>2. Joined(Append(p, x), w) = Joined(p, w) \o (w \o x)
      BY <1>4, <1>7, <1>10, <2>1, JoinedAppend
    <2> QED
      BY <1>5, <1>6, <1>9, <1>11, <2>2, Zenon DEF IsCat, MethodPath
  <1>13. SplitName(s) # Failed /\ SplitName(s).class = J /\ SplitName(s).method = x
    <2>1. IsOne(w, ".")
      BY <1>4, Zenon
    <2> QED
      BY <1>8, <1>9, <1>10, <2>1, SplitNameIs
  <1>14. \A A : A \subseteq Separator /\ "." \notin A => Joined(MethodPath(d), <<".">>) \in Without(A)
    <2>1. Separator \subseteq Mark
      BY DEF Mark
    <2> QED
      BY <1>3, <2>1, Points, PathWithout
  <1>15. s \in Text
    <2>1. {} \subseteq Separator /\ "." \notin {}
      OBVIOUS
    <2>2. s \in Without({})
      BY <1>4, <1>12, <1>14, <2>1, Zenon
    <2> QED
      BY <2>2, WithoutIs
  <1>16. s # <<>>
    <2>1. HasLen(J, Len(J)) /\ HasLen(v, Len(v)) /\ Len(J) # 0
      <3>1. v \in Text
        BY <1>4, <1>9, <1>10, Cat DEF IsCat
      <3> QED
        BY <1>8, <3>1, HasLenIs, TextIs
    <2>2. HasLen(s, Len(J) + Len(v))
      BY <1>11, <2>1, CatHas
    <2>3. Len(s) # 0
      BY <2>1, <2>2 DEF HasLen
    <2> QED
      BY <2>3, Empty
  <1> QED
    BY <1>4, <1>5, <1>6, <1>12, <1>13, <1>14, <1>15, <1>16, Zenon

-----------------------------------------------------------------------------
(* parse_java_pretty_name.                                                 *)

LEMMA SepLess ==
    ASSUME NEW t, IsType(t), NEW c, c \in {"(", ")", ",", " "}
    PROVE  PrintedType(t) \in Without({c})
  <1>1. PrintedType(t) \in Without({"(", ")", ",", " "})
    BY TypeWithout
  <1>2. {c} \subseteq {"(", ")", ",", " "}
    BY Zenon
  <1>3. PICK A, s : A = {"(", ")", ",", " "} /\ s = PrintedType(t)
    OBVIOUS
  <1>4. s \in Without(A) /\ {c} \subseteq A
    BY <1>1, <1>2, <1>3, Zenon
  <1>5. s \in Without({c})
    BY <1>4, WithoutLess
  <1> QED
    BY <1>3, <1>5, Zenon

\* What the parser makes of a line, in terms of what it finds in it.
LEMMA LineParsed ==
    ASSUME NEW s, NEW M, NEW a \in Nat, NEW R, NEW b \in Nat, NEW J, NEW m \in Nat \ {0}, NEW A, NEW l \in Nat,
           LineHas(s, M, a, R, b, J, m, A, l), SplitName(J) # Failed, R # <<>>
    PROVE  parse_java_pretty_name(s) =
               [ok |-> "yes", class |-> SplitName(J).class, method |-> SplitName(J).method,
                args |-> PrettyArgs(A), ret |-> conv_java_type_2_sig_type(R)]
  <1>1. PICK p \in Nat : p = a + b + 1
    OBVIOUS
  <1>2. PICK q \in Nat : q = p + m + 1
    OBVIOUS
  <1>3. PICK r \in Nat : r = q + l + 1
    OBVIOUS
  <1>4. /\ Find(s, <<"(">>) = q /\ Find(s, <<")">>) = r /\ FindLastOf(s, " ", q) = p
        /\ FindLastOf(s, " ", a + b) = a
        /\ SubSeq(s, a + 1, a + b) = R /\ SubSeq(s, p + 1, p + m) = J /\ SubSeq(s, q + 1, q + l) = A
    BY <1>1, <1>2, <1>3, Zenon DEF LineHas
  <1>5. p - 1 = a + b /\ q - 1 = p + m /\ r - 1 = q + l
    BY <1>1, <1>2, <1>3
  <1>6. q # 0 /\ r # 0 /\ ~ (r - q < 1) /\ p # 0 /\ ~ (q - p <= 1)
    BY <1>1, <1>2, <1>3
  <1> QED
    BY <1>4, <1>5, <1>6, Zenon DEF parse_java_pretty_name

Plain(M, a) == M \in Without({"("}) /\ M \in Without({")"}) /\ Spaced(M, a)
IsPretty(g, d) ==
    g # Failed /\ g.class = Joined(d.class, <<".">>) /\ g.method = d.name /\ g.args = Sigs(d)

LEMMA PrettyRead ==
    ASSUME NEW d \in Decl, NEW v, IsComma(v), NEW M, NEW a, HasLen(M, a), NEW T, NEW t, HasLen(T, t),
           Plain(M, a), NEW s, s = Printed(d, M, v, T)
    PROVE  IsPretty(parse_java_pretty_name(s), d)
  <1>1. PICK R, J, A : R = PrintedType(d.ret)
                          /\ J = Joined(MethodPath(d), <<".">>) /\ A = Joined(Printeds(d), v)
    OBVIOUS
  <1>2. s = LineOf(M, R, J, A, T)
    BY <1>1, Zenon DEF Printed, LineOf, MethodPath, Printeds
  <1>3. R \in Text /\ R # <<>> /\ \A c \in {"(", ")", ",", " "} : R \in Without({c})
    BY <1>1, DeclIs, TypeWithout, SepLess, Zenon
  <1>4. J \in Text /\ J # <<>> /\ SplitName(J) # Failed
        /\ SplitName(J).class = Joined(d.class, <<".">>) /\ SplitName(J).method = d.name
    BY <1>1, FullName, Zenon
  <1>5. J \in Without({"("}) /\ J \in Without({")"}) /\ J \in Without({" "})
    <2>1. \A c : c \in {"(", ")", " "} => {c} \subseteq Separator /\ "." \notin {c}
      BY Zenon DEF Separator
    <2>2. \A B : B \subseteq Separator /\ "." \notin B => J \in Without(B)
      BY <1>1, FullName, Zenon
    <2> QED
      BY <2>1, <2>2, Zenon
  <1>6. A \in Text /\ A \in Without({")"})
    <2>1. PICK p : p = Printeds(d)
      OBVIOUS
    <2>2. PICK n \in Nat : n = Len(d.args)
      BY DeclIs
    <2>3. p \in Seq(Text) /\ n = Len(p)
      BY <2>1, <2>2, PrintedsAre, Zenon
    <2>4. PICK K, e : K = Without({")"}) /\ e = {"(", ")", ",", " "} /\ {")"} \subseteq e
      BY Zenon
    <2>5. IsKind(K) /\ v \in K
      <3>1. v \in Without({"(", ")"})
        BY CommaIs
      <3>2. v \in Without({")"})
        BY <3>1 DEF Without
      <3> QED
        BY <2>4, <3>2, WithoutKind, Zenon
    <2>6. ASSUME NEW k \in 0..(n - 1) PROVE p[k + 1] \in K
      <3>1. p[k + 1] \in Without(e)
        BY <2>1, <2>2, <2>4, PrintedsAre, Zenon
      <3>2. {")"} \subseteq e
        BY <2>4, Zenon
      <3>3. p[k + 1] \in Without({")"})
        BY <3>1, <3>2, WithoutLess
      <3> QED
        BY <2>4, <3>3, Zenon
    <2>7. v \in Text
      BY CommaIs
    <2>8. Joined(p, v) \in K
      BY <2>3, <2>5, <2>6, <2>7, JoinedKindSep
    <2>9. A \in Without({")"})
      BY <1>1, <2>1, <2>4, <2>8, Zenon
    <2> QED
      BY <2>9, WithoutIs
  <1>7. PICK b \in Nat, m \in Nat, l \in Nat : HasLen(R, b) /\ HasLen(J, m) /\ HasLen(A, l)
    BY <1>3, <1>4, <1>6, TextIs, HasLenIs
  <1>8. Clear(M, a, R, J, A)
    BY <1>3, <1>5, <1>6, Zenon DEF Clear, Plain
  <1>9. PICK n : IsLine(s, n, M, a, R, b, J, m, A, l, T, t)
    BY <1>2, <1>7, LineIs
  <1>10. LineHas(s, M, a, R, b, J, m, A, l)
    BY <1>7, <1>8, <1>9, LineRead
  <1>11. m \in Nat \ {0} /\ a \in Nat
    BY <1>4, <1>7, TextIs DEF HasLen
  <1>12. parse_java_pretty_name(s) =
             [ok |-> "yes", class |-> SplitName(J).class, method |-> SplitName(J).method,
              args |-> PrettyArgs(A), ret |-> conv_java_type_2_sig_type(R)]
    <2>1. SplitName(J) # Failed /\ R # <<>>
      BY <1>3, <1>4, Zenon
    <2> QED
      BY <2>1, <1>10, <1>11, LineParsed
  <1>13. PrettyArgs(A) = Sigs(d)
    BY <1>1, PrettyArgsRead, Zenon
  <1>14. PICK x, y, z, u, g : /\ g = [ok |-> "yes", class |-> x, method |-> y, args |-> z, ret |-> u]
                              /\ x = SplitName(J).class /\ y = SplitName(J).method /\ z = PrettyArgs(A)
                              /\ g = parse_java_pretty_name(s)
    BY <1>12, Zenon
  <1>15. g # Failed /\ g.class = x /\ g.method = y /\ g.args = z
    <2>1. g = [ok |-> "yes", class |-> x, method |-> y, args |-> z, ret |-> u]
      BY <1>14, Zenon
    <2>2. g.ok = "yes"
      BY <2>1
    <2>3. Failed.ok = "no"
      BY DEF Failed
    <2> QED
      BY <2>1, <2>2, <2>3
  <1> QED
    BY <1>1, <1>4, <1>13, <1>14, <1>15, Zenon DEF IsPretty

LEMMA MethodToStringRead ==
    ASSUME NEW d \in Decl
    PROVE  IsPretty(parse_java_pretty_name(MethodToString(d)), d)
  <1>1. PICK M, x, y : M = <<"native", " ">> /\ x = "native" /\ y = " "
    OBVIOUS
  <1>2. x \in Letter /\ y \in Letter /\ M = <<x, y>>
    BY <1>1, Spaces, Literals, Zenon DEF Literal
  <1>3. M \in Text /\ Len(M) = 2 /\ M[2] = y /\ M[1] = x
    BY <1>2 DEF Text
  <1>4. HasLen(M, 2) /\ Spaced(M, 2)
    <2>1. 2 \in Nat /\ 2 # 0
      OBVIOUS
    <2> QED
      BY <1>1, <1>3, <2>1, Zenon DEF HasLen, Spaced
  <1>5. M \in Without({"("}) /\ M \in Without({")"})
    <2>1. PICK z, w : z = "(" /\ w = ")" /\ x # z /\ x # w /\ y # z /\ y # w
      <3>1. " " # "(" /\ " " # ")" /\ "native" # "(" /\ "native" # ")"
        BY Zenon
      <3> QED
        BY <1>1, <3>1, Zenon
    <2>3. x # z /\ x # w /\ y # z /\ y # w
      BY <2>1, Zenon
    <2>2. M \in Without({z}) /\ M \in Without({w})
      <3>1. \A i \in 1..Len(M) : M[i] = x \/ M[i] = y
        BY <1>3
      <3>2. \A i \in 1..Len(M) : M[i] \notin {z} /\ M[i] \notin {w}
        BY <2>3, <3>1
      <3>3. M \in Text
        BY <1>3
      <3> QED
        BY <3>2, <3>3 DEF Without
    <2> QED
      BY <2>1, <2>2, Zenon
  <1>6. PICK T, c1, c2, c3 : T = <<" ", "throws", " ", "e">> /\ T = <<c1, c2, c1, c3>> /\ c1 \in Letter
                             /\ c2 \in Letter /\ c3 \in Letter
    <2>1. " " \in Letter /\ "throws" \in Letter /\ "e" \in Letter
      BY Literals, Zenon DEF Literal
    <2> QED
      BY <2>1, Zenon
  <1>7. HasLen(T, 4)
    <2>1. T = <<c1, c2, c1, c3>> /\ c1 \in Letter /\ c2 \in Letter /\ c3 \in Letter
      BY <1>6, Zenon
    <2> QED
      BY <2>1 DEF HasLen, Text
  <1>8. PICK v : v = <<",">> /\ IsComma(v)
    BY Zenon DEF IsComma
  <1>9. MethodToString(d) = Printed(d, M, v, T)
    BY <1>1, <1>6, <1>8, Zenon DEF MethodToString
  <1> QED
    <2>1. Plain(M, 2) /\ HasLen(M, 2) /\ HasLen(T, 4) /\ IsComma(v)
      BY <1>4, <1>5, <1>7, <1>8, Zenon DEF Plain
    <2> QED
      BY <2>1, <1>9, PrettyRead

LEMMA PrettyMethodRead ==
    ASSUME NEW d \in Decl
    PROVE  IsPretty(parse_java_pretty_name(PrettyMethod(d)), d)
  <1>1. PICK M : M = <<>> /\ HasLen(M, 0) /\ Spaced(M, 0)
    BY Empty DEF HasLen, Spaced
  <1>2. \A A : M \in Without(A)
    BY <1>1, WithoutKind, Zenon DEF IsKind
  <1>3. PICK v : v = <<",", " ">> /\ IsComma(v)
    BY Zenon DEF IsComma
  <1>4. PrettyMethod(d) = Printed(d, M, v, M)
    BY <1>1, <1>3, Zenon DEF PrettyMethod
  <1> QED
    <2>1. Plain(M, 0) /\ HasLen(M, 0) /\ IsComma(v)
      BY <1>1, <1>2, <1>3, Zenon DEF Plain
    <2> QED
      BY <2>1, <1>4, PrettyRead
=============================================================================
