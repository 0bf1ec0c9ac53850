------------------------------- MODULE RbTree -------------------------------
(***************************************************************************)
(* The red-black trees of libxhook (libxhook/tree.h) as xh_core.c uses     *)
(* them: a refresh takes the entry of each path it meets out of the tree   *)
(* of the last refresh, or makes a new one, and puts it into a tree of its *)
(* own; then it frees what is left of the old tree and keeps the new one.  *)
(* xh_core_clear frees the whole tree.                                     *)
(*                                                                         *)
(* The entry of a path is named by its place in the order of strcmp, and 0 *)
(* is NULL.  Code and its mirror image are one definition with a side d.   *)
(* A step is one operation on the tree or one round of its colour loop.    *)
(***************************************************************************)
EXTENDS Integers, FiniteSets, FiniteSetsExt

CONSTANTS
    MaxPath,      \* number of paths
    MaxRefresh    \* bound: refreshes and clears

Path == 1..MaxPath
Null == 0
Tree == {"known", "fresh"}

VARIABLES
    h,         \* the entries' links and colours, and the roots of the trees
    tpc,       \* "idle", "line", "insert", "insert_color", "remove_color", "drain"
    tree,      \* the tree the operation works on
    elm,       \* elm of the colour loops
    parent,    \* parent of RB_REMOVE_COLOR
    mi,        \* the entry that is moved or freed
    after,     \* where the operation returns to
    mi_tmp,    \* the entry after mi in RB_FOREACH_SAFE
    rounds     \* refreshes and clears so far

tvars == <<h, tpc, tree, elm, parent, mi, after, mi_tmp, rounds>>

Other(d) == IF d = "left" THEN "right" ELSE "left"
Red(s, n) == n # Null /\ s.color[n] = "red"
Paint(s, n, c) == IF n = Null THEN s ELSE [s EXCEPT !.color[n] = c]
\* Mistake: the red one keeps its colour.
BlackRed_black(s, b, r) == Paint(s, b, "black")
\* RB_SET_BLACKRED
BlackRed(s, b, r) == Paint(Paint(s, b, "black"), r, "red")
Adopt(s, n, p) == IF n = Null THEN s ELSE [s EXCEPT !.parent[n] = p]
\* The link to old, in its parent p or in the root, leads to new.
Relink(s, t, p, old, new) ==
    IF p = Null THEN [s EXCEPT !.root[t] = new]
    ELSE IF s.left[p] = old THEN [s EXCEPT !.left[p] = new]
    ELSE [s EXCEPT !.right[p] = new]

\* RB_ROTATE_LEFT for d = "left", RB_ROTATE_RIGHT for d = "right".
Rotate(s, t, n, d) ==
    LET o == Other(d)
        tmp == s[o][n]
        s1 == Adopt([s EXCEPT ![o][n] = s[d][tmp]], s[d][tmp], n)
        s2 == Relink([s1 EXCEPT !.parent[tmp] = s.parent[n]], t, s.parent[n], n, tmp)
    IN  [s2 EXCEPT ![d][tmp] = n, !.parent[n] = tmp]

\* RB_MIN, RB_NEXT
Leftmost(s, n) ==
    LET Down[k \in Path] == IF s.left[k] = Null THEN k ELSE Down[s.left[k]]
    IN  IF n = Null THEN Null ELSE Down[n]
RB_NEXT(s, n) ==
    LET Up[k \in Path] ==
            IF s.parent[k] # Null /\ k = s.right[s.parent[k]] THEN Up[s.parent[k]]
            ELSE s.parent[k]
    IN  IF s.right[n] # Null THEN Leftmost(s, s.right[n]) ELSE Up[n]

\* RB_FIND: the entry of p, or where the search ends.
Search(s, t, p) ==
    LET Down[k \in Path] ==
            LET next == IF p < k THEN s.left[k] ELSE s.right[k]
            IN  IF p = k \/ next = Null THEN k ELSE Down[next]
    IN  IF s.root[t] = Null THEN Null ELSE Down[s.root[t]]
RB_FIND(s, t, p) == IF Search(s, t, p) = p THEN p ELSE Null

\* RB_REMOVE up to the label color: the tree without n, and with which child and
\* parent the colours are then put right, if a black entry is gone.
Unlink(s, t, n) ==
    IF s.left[n] = Null \/ s.right[n] = Null
    THEN LET child == IF s.left[n] = Null THEN s.right[n] ELSE s.left[n]
         IN  [h |-> Relink(Adopt(s, child, s.parent[n]), t, s.parent[n], n, child),
              child |-> child, parent |-> s.parent[n], color |-> s.color[n]]
    ELSE LET next == Leftmost(s, s.right[n])
             child == s.right[next]
             p == s.parent[next]
             s1 == Relink(Adopt(s, child, p), t, p, next, child)
             s2 == [s1 EXCEPT !.left[next] = s1.left[n], !.right[next] = s1.right[n],
                              !.parent[next] = s1.parent[n], !.color[next] = s1.color[n]]
             s3 == Relink(s2, t, s2.parent[n], n, next)
         IN  [h |-> Adopt(Adopt(s3, s3.left[n], next), s3.right[n], next),
              child |-> child, parent |-> IF p = n THEN next ELSE p, color |-> s.color[next]]

Empty == [left |-> [n \in Path |-> Null], right |-> [n \in Path |-> Null],
          parent |-> [n \in Path |-> Null], color |-> [n \in Path |-> "black"],
          root |-> [t \in Tree |-> Null]]

TreeInit ==
    /\ h = Empty
    /\ tpc = "idle" /\ after = "idle" /\ tree = "known"
    /\ elm = Null /\ parent = Null /\ mi = Null /\ mi_tmp = Null
    /\ rounds = 0

\* RB_REMOVE of n from tree t; "next" is where the caller goes on.
RB_REMOVE(t, n, next) ==
    LET u == Unlink(h, t, n)
    IN  /\ h' = u.h
        /\ tree' = t /\ elm' = u.child /\ parent' = u.parent /\ after' = next
        /\ tpc' = IF u.color = "black" THEN "remove_color" ELSE next

Back ==
    /\ tpc' = after
    /\ UNCHANGED <<tree, elm, parent, after>>

\* A round of RB_REMOVE_COLOR.  The child is on the side d, its brother is tmp.
Lighter(s, d) ==
    LET o == Other(d)
        s1 == IF Red(s, s[o][parent])
              THEN Rotate(BlackRed(s, s[o][parent], parent), tree, parent, d) ELSE s
        tmp == s1[o][parent]
        s2 == IF Red(s1, s1[o][tmp]) THEN s1
              ELSE Rotate(Paint(Paint(s1, s1[d][tmp], "black"), tmp, "red"), tree, tmp, o)
        top == s2[o][parent]
        s3 == Paint(Paint(s2, top, s2.color[parent]), parent, "black")
    IN  IF ~Red(s1, s1[d][tmp]) /\ ~Red(s1, s1[o][tmp])
        THEN [up |-> TRUE, h |-> Paint(s1, tmp, "red")]
        ELSE [up |-> FALSE, h |-> Rotate(Paint(s3, s3[o][top], "black"), tree, parent, d)]

RB_REMOVE_COLOR ==
    /\ tpc = "remove_color"
    /\ IF Red(h, elm) \/ elm = h.root[tree]
       THEN h' = Paint(h, elm, "black") /\ Back
       ELSE LET r == Lighter(h, IF h.left[parent] = elm THEN "left" ELSE "right")
            IN  IF r.up
                THEN /\ h' = r.h
                     /\ elm' = parent /\ parent' = h'.parent[parent]
                     /\ UNCHANGED <<tpc, tree, after>>
                ELSE h' = Paint(r.h, r.h.root[tree], "black") /\ Back
    /\ UNCHANGED <<mi, mi_tmp, rounds>>

\* A round of RB_INSERT_COLOR for a red parent p, which is the child d of g.
Darker(s, n, d) ==
    LET o == Other(d)
        p == s.parent[n]
        g == s.parent[p]
        uncle == s[o][g]
        turned == s[o][p] = n
        s1 == IF turned THEN Rotate(s, tree, p, d) ELSE s
    IN  IF Red(s, uncle)
        THEN [elm |-> g, h |-> BlackRed(Paint(s, uncle, "black"), p, g)]
        ELSE [elm |-> IF turned THEN p ELSE n,
              h |-> Rotate(BlackRed(s1, IF turned THEN n ELSE p, g), tree, g, o)]

RB_INSERT_COLOR ==
    /\ tpc = "insert_color"
    /\ IF Red(h, h.parent[elm])
       THEN LET g == h.parent[h.parent[elm]]
                r == Darker(h, elm, IF h.left[g] = h.parent[elm] THEN "left" ELSE "right")
            IN  h' = r.h /\ elm' = r.elm /\ UNCHANGED <<tpc, tree, parent, after>>
       ELSE h' = Paint(h, h.root[tree], "black") /\ Back
    /\ UNCHANGED <<mi, mi_tmp, rounds>>

\* The line of a path p in xh_core_refresh_impl: its entry is taken out of the old
\* tree, or a new one is made.
refresh_start ==
    /\ tpc = "idle" /\ rounds < MaxRefresh
    /\ rounds' = rounds + 1 /\ tpc' = "line"
    /\ UNCHANGED <<h, tree, elm, parent, mi, after, mi_tmp>>
refresh_path(p) ==
    /\ tpc = "line"
    /\ mi' = p
    /\ IF RB_FIND(h, "known", p) # Null THEN RB_REMOVE("known", p, "insert")
       ELSE tpc' = "insert" /\ UNCHANGED <<h, tree, elm, parent, after>>
    /\ UNCHANGED <<mi_tmp, rounds>>

\* RB_INSERT into the new tree; a path that is there already is refused.
RB_INSERT ==
    /\ tpc = "insert"
    /\ LET at == Search(h, "fresh", mi)
           s == [h EXCEPT !.parent[mi] = at, !.left[mi] = Null, !.right[mi] = Null,
                          !.color[mi] = "red"]
       IN  IF at = mi THEN tpc' = "line" /\ UNCHANGED <<h, tree, elm, after>>
           ELSE /\ h' = IF at = Null THEN [s EXCEPT !.root["fresh"] = mi]
                        ELSE IF mi < at THEN [s EXCEPT !.left[at] = mi]
                        ELSE [s EXCEPT !.right[at] = mi]
                /\ tree' = "fresh" /\ elm' = mi /\ after' = "line" /\ tpc' = "insert_color"
    /\ UNCHANGED <<parent, mi, mi_tmp, rounds>>

\* RB_FOREACH_SAFE at the end of a refresh, and in xh_core_clear.
drain_start ==
    /\ \/ tpc = "line" /\ UNCHANGED rounds
       \/ tpc = "idle" /\ rounds < MaxRefresh /\ rounds' = rounds + 1
    /\ mi_tmp' = Leftmost(h, h.root["known"])
    /\ tpc' = "drain"
    /\ UNCHANGED <<h, tree, elm, parent, mi, after>>
drain_next ==
    /\ tpc = "drain" /\ mi_tmp # Null
    /\ mi' = mi_tmp
    /\ mi_tmp' = RB_NEXT(h, mi_tmp)
    /\ RB_REMOVE("known", mi_tmp, "free")
    /\ UNCHANGED rounds
\* free: nothing of the entry is kept.
drain_free ==
    /\ tpc = "free"
    /\ h' = [h EXCEPT !.left[mi] = Null, !.right[mi] = Null, !.parent[mi] = Null,
                      !.color[mi] = "black"]
    /\ tpc' = "drain"
    /\ UNCHANGED <<tree, elm, parent, mi, after, mi_tmp, rounds>>
\* Mistake: the new tree is not kept.
drain_end_lost ==
    /\ tpc = "drain" /\ mi_tmp = Null
    /\ h' = [h EXCEPT !.root["fresh"] = Null]
    /\ tpc' = "idle" /\ mi' = Null /\ elm' = Null /\ parent' = Null
    /\ UNCHANGED <<tree, after, mi_tmp, rounds>>
drain_end ==
    /\ tpc = "drain" /\ mi_tmp = Null
    /\ h' = [h EXCEPT !.root["known"] = h.root["fresh"], !.root["fresh"] = Null]
    /\ tpc' = "idle" /\ mi' = Null /\ elm' = Null /\ parent' = Null
    /\ UNCHANGED <<tree, after, mi_tmp, rounds>>

TreeNext ==
    \/ refresh_start \/ \E p \in Path : refresh_path(p)
    \/ RB_INSERT \/ RB_INSERT_COLOR \/ RB_REMOVE_COLOR
    \/ drain_start \/ drain_next \/ drain_free \/ drain_end

TreeSpec == TreeInit /\ [][TreeNext]_tvars

-----------------------------------------------------------------------------
\* The entries below a link, and the black ones on each way down, -1 if they differ.
Under(s, n) ==
    LET All[k \in Path \cup {Null}] ==
            IF k = Null THEN {} ELSE {k} \cup All[s.left[k]] \cup All[s.right[k]]
    IN  All[n]
BlackHeight(s, n) ==
    LET B[k \in Path \cup {Null}] ==
            IF k = Null THEN 1
            ELSE IF B[s.left[k]] # B[s.right[k]] \/ B[s.left[k]] = -1 THEN -1
            ELSE B[s.left[k]] + (IF s.color[k] = "black" THEN 1 ELSE 0)
    IN  B[n]
Keys(t) == Under(h, h.root[t])

\* Whenever an operation is over, both trees are red-black trees: ordered, with a
\* black root, no red entry under a red one and as many black ones on every way down,
\* and each entry knows its parent.
RedBlack ==
    tpc \notin {"insert_color", "remove_color"} =>
        \A t \in Tree :
            /\ ~Red(h, h.root[t])
            /\ h.root[t] # Null => h.parent[h.root[t]] = Null
            /\ BlackHeight(h, h.root[t]) # -1
            /\ \A k \in Keys(t) :
                  /\ \A j \in Under(h, h.left[k]) : j < k
                  /\ \A j \in Under(h, h.right[k]) : j > k
                  /\ \A c \in {h.left[k], h.right[k]} \ {Null} :
                        h.parent[c] = k /\ ~(Red(h, k) /\ Red(h, c))

\* While a tree is emptied by RB_FOREACH_SAFE, the entry it noted as the next one
\* stays in the tree, the first of it, whatever the removals turn round; when there
\* is none, nothing is left.
DrainSafe ==
    tpc = "drain" =>
        IF mi_tmp = Null THEN Keys("known") = {}
        ELSE mi_tmp \in Keys("known") /\ \A k \in Keys("known") : k >= mi_tmp

\* The trees stay red-black trees and can be emptied while they turn round.
TreesRight == RedBlack /\ DrainSafe

\* An entry on its way from one tree to the other.
Moving == IF tpc = "insert" \/ (tpc = "remove_color" /\ after = "insert") THEN {mi} ELSE {}
Sets == INSTANCE PathSets WITH known <- Keys("known"), fresh <- Keys("fresh") \cup Moving
\* The trees are the two sets of paths that a refresh works with: nothing is lost,
\* kept or found twice by the rotations.
ImplementsPathSets == Sets!Spec
=============================================================================
