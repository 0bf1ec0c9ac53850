------------------------------ MODULE MCXHook ------------------------------
EXTENDS XHook, TLC

CONSTANTS h1, h2, i1, p1, s1, b1, b2, t1, t2

\* Two hooks and an exception, of one symbol and on the same ELF.
SamePath == (h1 :> {p1}) @@ (h2 :> {p1}) @@ (i1 :> {p1})
OneSymbol == (h1 :> s1) @@ (h2 :> s1) @@ (i1 :> s1)

TwoAddresses == p1 :> {b1, b2}
OneAddress == p1 :> {b1}

\* One thread sets up the hooks while another asks for refreshes.
TwoCallers == (t1 :> {"register", "async"}) @@ (t2 :> {"async"})

\* One thread makes every call, in any order, for an ELF with bad tables.
OneCaller == t1 :> {"register", "sync", "async", "clear", "switch"}

\* The workers are alike, and so are the two addresses and the two hooks.
Symmetry == Permutations(Worker) \cup Permutations(Base) \cup Permutations(Hook)
=============================================================================
