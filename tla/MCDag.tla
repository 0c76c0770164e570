------------------------------- MODULE MCDag -------------------------------
(***************************************************************************)
(* Every commit graph of at most MaxCommits commits, grown one commit at a *)
(* time with at most two parents, in every state of a store that holds     *)
(* some of its commits only: a fetch that was cut short leaves a commit    *)
(* without its parents (sync.go:436-481).                                  *)
(***************************************************************************)
EXTENDS Dag

CONSTANTS MaxCommits,   \* bound on the graph
          Limit         \* the limit given to Walk

\* WalkTipOrder takes a limit of 0 for no limit (dag.go:154); Walk has one.
ASSUME LimitAssumption == Limit \in Nat \ {0}

VARIABLES g, H

vars == <<g, H>>

TypeOK ==
  /\ H \subseteq 1..Len(g)
  /\ \A c \in 1..Len(g) : Parents(g, c) \subseteq 1..(c-1)

Init == g = <<>> /\ H = {}

\* A root, a child of p, or a merge of p and q; held, or only known by its hash.
Grow(parents, held) ==
  LET c == Len(g) + 1
  IN  /\ c <= MaxCommits
      /\ g' = Append(g, [parents |-> parents, anc |-> AncestryOf(g, c, parents)])
      /\ H' = IF held THEN H \union {c} ELSE H

Next == \E held \in BOOLEAN :
          \/ Grow(<<>>, held)
          \/ \E p \in 1..Len(g) : Grow(<<p>>, held)
          \/ \E p, q \in 1..Len(g) : p < q /\ Grow(<<p, q>>, held)

Spec == Init /\ [][Next]_vars

Complete(c) == g[c].anc \subseteq H

\* Whatever part of the graph a store holds, a merge base Find returns is an
\* ancestor of both tips; and when the ancestry of a tip is held, Find says of the
\* other whether it is part of it, however little of the other's is held: a
\* fast-forward is never taken for a divergence, nor a divergence for one
\* (lca.go:18-43, 95-122, 215-237).
FindIsCommon ==
  \A a, b \in H :
    LET bases == Find(g, H, a, b)
    IN  /\ bases \subseteq g[a].anc \intersect g[b].anc
        /\ Complete(a) => (b \in bases <=> b \in g[a].anc)
        /\ Complete(b) => (a \in bases <=> a \in g[b].anc)

\* With both ancestries held, Find fails only when the histories are disjoint, and
\* returns a base no other common ancestor descends from. Two stores that hold
\* both have the same bases to choose from, whatever else each holds and whichever
\* tip is its own: what they merge over can only differ where histories cross and
\* several lowest common ancestors are at one distance (lca.go:84-92; candidates
\* come in the order of a map).
FindIsLowest ==
  \A a, b \in H : Complete(a) /\ Complete(b) =>
    LET common == g[a].anc \intersect g[b].anc
    IN  /\ Find(g, H, a, b) = {} <=> common = {}
        /\ \A base \in Find(g, H, a, b), c \in common : base \in g[c].anc => c = base
        /\ \A K \in SUBSET (1..Len(g)) :
              g[a].anc \union g[b].anc \subseteq K => Find(g, K, b, a) = Find(g, H, a, b)

\* A walk that is not cut by its limit lists the whole ancestry of the tip or
\* fails; one that is cut lists commits that hang together under the tip, the
\* limit of them exactly.
WalkIsComplete ==
  \A t \in H :
    LET w == Walk(g, H, t, Limit)
    IN  w.ok => /\ w.commits \subseteq H
                /\ \/ w.commits = g[t].anc
                   \/ Cardinality(w.commits) = Limit
                /\ \A c \in w.commits \ {t} : \E k \in w.commits : c \in Parents(g, k)
============================================================================
