----------------------------- MODULE MCFileHook -----------------------------
EXTENDS FileHook, TLC

CONSTANTS p1, p2, r1, r2, r3

\* One pattern for each kind of filter.  Two cover the first path, so that the
\* filter depends on their order; each path may also be without one.
Patterns == (r1 :> {p1}) @@ (r2 :> {p2}) @@ (r3 :> {p1})
Kinds == (r1 :> "pass") @@ (r2 :> "memory") @@ (r3 :> "none")

Symmetry == Permutations(Thread) \cup Permutations(Client)
=============================================================================
