-------------------------------- MODULE Dag --------------------------------
(***************************************************************************)
(* The commit graph (internal/dag) and the merge-base search over it       *)
(* (internal/lca), as operators on                                         *)
(*                                                                         *)
(*   g   the ledger: a sequence of commits, commit c being g[c].  A commit *)
(*       is immutable and named by its hash, so one ledger serves every    *)
(*       repository; parents come before children, as a commit's hash      *)
(*       covers the hashes of its parents.  g[c].anc is the ancestry that  *)
(*       hash fixes: c, its parents, their parents, ...                    *)
(*   H   the commits a repository holds (DAG.Has).  Store.Get of any other *)
(*       commit fails, and most walks skip what they cannot load.          *)
(*                                                                         *)
(* Nil, the zero hash, is 0.                                               *)
(***************************************************************************)
EXTENDS Naturals, Sequences, FiniteSets

LOCAL INSTANCE FiniteSetsExt

Nil == 0

Parents(g, c) == {g[c].parents[i] : i \in DOMAIN g[c].parents}

\* The ancestry a new commit with these parents would have, itself included.
AncestryOf(g, c, parents) ==
  {c} \union UNION {g[parents[i]].anc : i \in DOMAIN parents}

\* Mutant: only the first parent of a commit is followed.
ReachFirst(g, H, tip) ==
  LET reached[c \in 1..Len(g)] ==
        {c} \union (IF c \in H /\ g[c].parents # <<>> THEN reached[g[c].parents[1]] ELSE {})
  IN  reached[tip]

\* What a walk from tip visits when it expands only the commits it can load.
\* A parent that is not held is visited all the same, as a leaf.
Reach(g, H, tip) ==
  LET reached[c \in 1..Len(g)] ==
        {c} \union (IF c \in H THEN UNION {reached[p] : p \in Parents(g, c)} ELSE {})
  IN  reached[tip]

\* Distance from tip to the commits of R, over those of R that were expanded.
Distances(g, R, expanded, tip) ==
  LET d[c \in R] ==
        IF c = tip THEN 0
        ELSE 1 + Min({d[k] : k \in {k \in expanded : c \in Parents(g, k)}})
  IN  d

\* Distance from tip, for the commits Reach visits.
Depth(g, H, tip) ==
  LET R == Reach(g, H, tip) IN Distances(g, R, R \intersect H, tip)

\* Mutant of Find: the base nearest to the first tip is taken.
FindNearest(g, H, a, b) ==
  LET A == Reach(g, H, a)
      common == A \intersect Reach(g, H, b)
      lowest == {c \in common : \A o \in common \ {c} : c \notin Reach(g, H, o)}
  IN  IF a = b \/ b = Nil THEN {a} ELSE IF a = Nil THEN {b}
      ELSE {c \in lowest : \A o \in lowest : Depth(g, H, a)[c] <= Depth(g, H, a)[o]}

\* lca.Find: the commits it may return, none being ErrNoCommonAncestor.  There
\* can be several: the candidates come from a map, in the order of its
\* iteration, and only a strictly smaller score replaces the first.
Find(g, H, a, b) ==
  IF a = b \/ b = Nil THEN {a}
  ELSE IF a = Nil THEN {b}
  ELSE LET A == Reach(g, H, a)
           B == Reach(g, H, b)
           common == A \intersect B
           lowest == {c \in common :
                        \A o \in common \ {c} : c \notin Reach(g, H, o)}
           score == [c \in lowest |-> Depth(g, H, a)[c] + Depth(g, H, b)[c]]
       IN  IF b \in A THEN {b}
           ELSE IF a \in B THEN {a}
           ELSE {c \in lowest : \A o \in lowest : score[c] <= score[o]}

\* Mutant: the walk skips what it cannot load, as the others do.
WalkSkips(g, H, tip, limit) ==
  LET R == Reach(g, H, tip) \intersect H
  IN  [ok |-> TRUE, commits |-> {c \in R : Cardinality({k \in R : k > c}) < limit}]

\* Store.WalkTipOrder, which pops the youngest queued commit first and stops
\* at limit commits: those are the limit youngest commits reachable from tip.
\* It loads every queued commit, so a missing one fails the walk; the parents
\* of the last commit it takes are never queued.
Walk(g, H, tip, limit) ==
  LET R == Reach(g, H, tip)
      taken == {c \in R : Cardinality({k \in R : k > c}) < limit}
      queued == taken \union UNION {Parents(g, c) : c \in
                  IF Cardinality(taken) < limit THEN taken \intersect H
                  ELSE (taken \ {Min(taken)}) \intersect H}
  IN  [ok |-> queued \subseteq H, commits |-> taken]
============================================================================
