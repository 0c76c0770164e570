----------------------------- MODULE DagProofs -----------------------------
(***************************************************************************)
(* Lemmas about the commit graph and its walks, for any ledger and for any *)
(* part of it a store may hold.                                            *)
(***************************************************************************)
EXTENDS Dag, SequenceTheorems, FiniteSetTheorems, WellFoundedInduction, TLAPS

\* A ledger grown one commit at a time, a commit's ancestry being itself and
\* those of its parents.
IsGraph(g) ==
  /\ Len(g) \in Nat /\ g \in Seq({g[c] : c \in 1 .. Len(g)})
  /\ \A c \in 1 .. Len(g) :
       /\ Parents(g, c) \subseteq 1 .. c - 1
       /\ g[c].anc = {c} \union UNION {g[p].anc : p \in Parents(g, c)}
       /\ g[c].anc \subseteq 1 .. c
       /\ \A k \in g[c].anc : g[k].anc \subseteq g[c].anc

-----------------------------------------------------------------------------

\* A set of natural numbers has a least one.
LEMMA LeastCommit == ASSUME NEW T \in SUBSET Nat, T # {} PROVE \E x \in T : \A y \in T : x <= y
<1> DEFINE Below == {ss \in Nat \X Nat : ss[1] < ss[2]}
<1>1. IsWellFoundedOn(Below, Nat) BY NatLessThanWellFounded DEF OpToRel
<1> HIDE DEF Below
<1>2. PICK x \in T : \A y \in T : <<y, x>> \notin Below
  BY <1>1, WFMin, Zenon
<1>3. ASSUME NEW y \in T, y < x PROVE FALSE
  <2>1. <<y, x>> \in Below BY <1>3 DEF Below
  <2> QED BY <2>1, <1>2
<1> QED BY <1>3

LEMMA EmptyGraph == IsGraph(<< >>)
  BY EmptySeq DEF IsGraph

\* Appending a commit whose parents exist, with the ancestry AncestryOf gives it.
LEMMA Appended ==
  ASSUME NEW g, IsGraph(g), NEW e
  PROVE  /\ Len(Append(g, e)) = Len(g) + 1 /\ Append(g, e)[Len(g) + 1] = e
         /\ \A c \in 1 .. Len(g) : Append(g, e)[c] = g[c]
         /\ Append(g, e) \in Seq({Append(g, e)[c] : c \in 1 .. Len(g) + 1})
<1> DEFINE S == {g[c] : c \in 1 .. Len(g)} \union {e}
           h == Append(g, e)
<1>1. g \in Seq(S) /\ e \in S /\ Len(g) \in Nat
  <2>1. g \in Seq({g[c] : c \in 1 .. Len(g)}) /\ Len(g) \in Nat BY DEF IsGraph
  <2>2. g \in [1 .. Len(g) -> {g[c] : c \in 1 .. Len(g)}] BY <2>1, LenProperties
  <2>3. g \in [1 .. Len(g) -> S] BY <2>2
  <2> HIDE DEF S
  <2>4. g \in Seq(S) BY <2>1, <2>3, SeqDef
  <2> QED BY <2>1, <2>4 DEF S
<1> HIDE DEF S
<1>2. h \in Seq(S) /\ Len(h) = Len(g) + 1 /\ h[Len(g) + 1] = e /\ \A c \in 1 .. Len(g) : h[c] = g[c]
  BY <1>1, AppendProperties
<1> HIDE DEF h
<1>3. h \in [1 .. Len(h) -> S] /\ Len(h) \in Nat BY <1>2, LenProperties
<1>4. h \in [1 .. Len(h) -> {h[c] : c \in 1 .. Len(h)}] BY <1>3
<1>5. h \in Seq({h[c] : c \in 1 .. Len(h)}) BY <1>3, <1>4, SeqDef
<1> QED BY <1>2, <1>5 DEF h

LEMMA GraphGrows ==
  ASSUME NEW g, IsGraph(g), NEW e,
         \A i \in DOMAIN e.parents : e.parents[i] \in 1 .. Len(g),
         e.anc = AncestryOf(g, Len(g) + 1, e.parents)
  PROVE  IsGraph(Append(g, e))
<1> DEFINE h == Append(g, e)
           n == Len(g) + 1
<1>1. /\ Len(g) \in Nat /\ Len(h) = n /\ h[n] = e /\ \A c \in 1 .. Len(g) : h[c] = g[c]
      /\ h \in Seq({h[c] : c \in 1 .. n})
  BY Appended DEF IsGraph
<1> HIDE DEF h
<1>2. ASSUME NEW c \in 1 .. n
      PROVE  /\ Parents(h, c) \subseteq 1 .. c - 1
             /\ h[c].anc = {c} \union UNION {h[p].anc : p \in Parents(h, c)}
             /\ h[c].anc \subseteq 1 .. c
             /\ \A k \in h[c].anc : h[k].anc \subseteq h[c].anc
  <2>1. CASE c \in 1 .. Len(g)
    <3>1. Parents(h, c) = Parents(g, c) /\ h[c] = g[c] BY <1>1, <2>1 DEF Parents
    <3>2. /\ Parents(g, c) \subseteq 1 .. c - 1 /\ g[c].anc \subseteq 1 .. c
          /\ g[c].anc = {c} \union UNION {g[p].anc : p \in Parents(g, c)}
          /\ \A k \in g[c].anc : g[k].anc \subseteq g[c].anc
      BY <2>1 DEF IsGraph
    <3>3. \A k \in 1 .. c : h[k] = g[k] BY <1>1, <2>1
    <3>4. \A p \in Parents(g, c) : h[p] = g[p] BY <3>2, <3>3
    <3>5. {h[p].anc : p \in Parents(g, c)} = {g[p].anc : p \in Parents(g, c)} BY <3>4
    <3>6. \A k \in h[c].anc : h[k].anc \subseteq h[c].anc BY <3>1, <3>2, <3>3
    <3>7. h[c].anc = {c} \union UNION {h[p].anc : p \in Parents(h, c)} BY <3>1, <3>2, <3>5
    <3> QED BY <3>1, <3>2, <3>6, <3>7
  <2>2. CASE c = n
    <3> DEFINE P == Parents(h, n)
    <3>1. P = {e.parents[i] : i \in DOMAIN e.parents} BY <1>1 DEF Parents
    <3>2. P \subseteq 1 .. Len(g) BY <3>1
    <3>3. e.anc = {n} \union UNION {g[e.parents[i]].anc : i \in DOMAIN e.parents} BY DEF AncestryOf
    <3>4. UNION {g[e.parents[i]].anc : i \in DOMAIN e.parents} = UNION {g[p].anc : p \in P} BY <3>1
    <3>5. e.anc = {n} \union UNION {g[p].anc : p \in P} BY <3>3, <3>4
    <3> HIDE DEF P
    <3>6. {h[p].anc : p \in P} = {g[p].anc : p \in P} BY <1>1, <3>2
    <3>7. \A p \in P : p \in 1 .. Len(g) /\ g[p].anc \subseteq 1 .. p
                       /\ \A k \in g[p].anc : g[k].anc \subseteq g[p].anc BY <3>2 DEF IsGraph
    <3>8. e.anc \subseteq 1 .. n BY <1>1, <3>5, <3>7
    <3>9. ASSUME NEW k \in e.anc PROVE h[k].anc \subseteq e.anc
      <4>1. CASE k = n BY <1>1, <4>1
      <4>2. ASSUME NEW p \in P, k \in g[p].anc PROVE h[k].anc \subseteq e.anc
        <5>1. k \in 1 .. Len(g) /\ g[k].anc \subseteq g[p].anc BY <1>1, <3>7, <4>2
        <5>2. h[k] = g[k] BY <1>1, <5>1
        <5>3. g[p].anc \subseteq e.anc BY <3>5
        <5> QED BY <5>1, <5>2, <5>3
      <4> QED BY <3>5, <4>1, <4>2
    <3>10. h[n].anc = {n} \union UNION {h[p].anc : p \in P} BY <1>1, <3>5, <3>6
    <3>11. P \subseteq 1 .. n - 1 BY <1>1, <3>2
    <3> QED BY <1>1, <2>2, <3>8, <3>9, <3>10, <3>11 DEF P
  <2> QED BY <1>1, <2>1, <2>2
<1>3. IsGraph(h)
  <2>1. Len(h) \in Nat /\ h \in Seq({h[c] : c \in 1 .. Len(h)}) BY <1>1
  <2>2. \A c \in 1 .. Len(h) :
          /\ Parents(h, c) \subseteq 1 .. c - 1
          /\ h[c].anc = {c} \union UNION {h[p].anc : p \in Parents(h, c)}
          /\ h[c].anc \subseteq 1 .. c
          /\ \A k \in h[c].anc : h[k].anc \subseteq h[c].anc
    BY <1>1, <1>2
  <2> QED BY <2>1, <2>2, Zenon DEF IsGraph
<1> QED BY <1>3 DEF h

-----------------------------------------------------------------------------
(* Walks                                                                   *)

\* The function Reach recurs on exists, whatever the graph: it is the least
\* set that holds c and, with a commit of H, its parents.
LEMMA ReachedExists ==
  ASSUME NEW g, NEW H, \A c \in 1 .. Len(g) : Parents(g, c) \subseteq 1 .. Len(g)
  PROVE  \E f : f = [c \in 1 .. Len(g) |->
                      {c} \union (IF c \in H THEN UNION {f[p] : p \in Parents(g, c)} ELSE {})]
<1> DEFINE C == 1 .. Len(g)
           Closed(S) == \A x \in S : x \in H => Parents(g, x) \subseteq S
           f == [c \in C |-> {k \in C : \A S \in SUBSET C : c \in S /\ Closed(S) => k \in S}]
           e(c) == {c} \union (IF c \in H THEN UNION {f[p] : p \in Parents(g, c)} ELSE {})
<1>1. ASSUME NEW c \in C PROVE f[c] \subseteq C /\ Closed(f[c]) /\ c \in f[c]
  OBVIOUS
<1>2. ASSUME NEW c \in C, NEW k \in f[c], NEW S \in SUBSET C, c \in S, Closed(S) PROVE k \in S
  BY <1>2
<1>3. ASSUME NEW c \in C PROVE f[c] = e(c)
  <2> HIDE DEF f
  <2>1. e(c) \in SUBSET C BY <1>1
  <2>2. Closed(e(c)) BY <1>1
  <2>3. f[c] \subseteq e(c) 
    <3> HIDE DEF Closed, C
    <3> QED BY <1>2, <2>1, <2>2
  <2>4. c \in f[c] BY <1>1
  <2>5. ASSUME c \in H, NEW p \in Parents(g, c), NEW k \in f[p] PROVE k \in f[c]
    <3>1. p \in f[c] /\ p \in C BY <1>1, <2>4, <2>5
    <3> HIDE DEF Closed, C
    <3> QED BY <1>1, <1>2, <3>1
  <2> QED BY <2>3, <2>4, <2>5
<1>4. f = [c \in C |-> e(c)] 
  <2>1. DOMAIN f = C /\ f = [c \in C |-> f[c]] OBVIOUS
  <2> HIDE DEF f, e, C
  <2> QED BY <1>3, <2>1
<1> QED BY <1>4

\* What Reach visits, without its recursion.
Walked(g, H, f) ==
  /\ \A c \in 1 .. Len(g) :
       f[c] = {c} \union (IF c \in H THEN UNION {f[p] : p \in Parents(g, c)} ELSE {})
  /\ \A t : Reach(g, H, t) = f[t]

LEMMA ReachUnfolds ==
  ASSUME NEW g, NEW H, \A c \in 1 .. Len(g) : Parents(g, c) \subseteq 1 .. Len(g)
  PROVE  \E f : Walked(g, H, f)
<1> DEFINE reached[c \in 1 .. Len(g)] ==
             {c} \union (IF c \in H THEN UNION {reached[p] : p \in Parents(g, c)} ELSE {})
<1>1. reached = [c \in 1 .. Len(g) |->
             {c} \union (IF c \in H THEN UNION {reached[p] : p \in Parents(g, c)} ELSE {})]
  BY ReachedExists DEF reached
<1>2. \A t : Reach(g, H, t) = reached[t] BY DEF Reach, reached
<1> HIDE DEF reached
<1> QED BY <1>1, <1>2 DEF Walked

LEMMA GraphParents ==
  ASSUME NEW g, IsGraph(g)
  PROVE  /\ \A c \in 1 .. Len(g) : Parents(g, c) \subseteq 1 .. Len(g)
         /\ \A c \in 1 .. Len(g) : \A p \in Parents(g, c) : p < c /\ g[p].anc \subseteq g[c].anc
<1> SUFFICES ASSUME NEW c \in 1 .. Len(g), NEW p \in Parents(g, c)
             PROVE  p \in 1 .. Len(g) /\ p < c /\ g[p].anc \subseteq g[c].anc
  OBVIOUS
<1>1. Len(g) \in Nat /\ p \in 1 .. c - 1 BY DEF IsGraph
<1>2. g[c].anc = {c} \union UNION {g[k].anc : k \in Parents(g, c)} BY DEF IsGraph
<1>3. g[p].anc \subseteq g[c].anc BY <1>2
<1> QED BY <1>1, <1>3

\* A walk visits its tip.  It stays within the ancestry of its tip, reaches
\* all of it when all it visits is held, and finds every other commit as a
\* parent of one it loaded.  Proved for the tips in their order, so that the
\* walks from the parents of a tip are known.
LEMMA ReachStep ==
  ASSUME NEW g, IsGraph(g), NEW H, NEW f, Walked(g, H, f), NEW u \in 1 .. Len(g),
         \A p \in Parents(g, u) :
           /\ f[p] \subseteq g[p].anc
           /\ f[p] \subseteq H => g[p].anc \subseteq f[p]
           /\ \A c \in f[p] \ {p} : \E k \in f[p] \intersect H : c \in Parents(g, k)
  PROVE  /\ f[u] \subseteq g[u].anc
         /\ f[u] \subseteq H => g[u].anc \subseteq f[u]
         /\ \A c \in f[u] \ {u} : \E k \in f[u] \intersect H : c \in Parents(g, k)
<1>1. f[u] = {u} \union (IF u \in H THEN UNION {f[p] : p \in Parents(g, u)} ELSE {})
  BY DEF Walked
<1>2. g[u].anc = {u} \union UNION {g[p].anc : p \in Parents(g, u)} BY DEF IsGraph
<1>3. ASSUME NEW c \in f[u] PROVE c \in g[u].anc
  <2>1. c = u \/ \E p \in Parents(g, u) : c \in f[p] BY <1>1
  <2>2. \A p \in Parents(g, u) : f[p] \subseteq g[p].anc OBVIOUS
  <2> QED BY <1>2, <2>1, <2>2
<1>4. ASSUME f[u] \subseteq H, NEW c \in g[u].anc PROVE c \in f[u]
  <2>1. u \in H /\ \A p \in Parents(g, u) : f[p] \subseteq f[u] BY <1>1, <1>4
  <2>2. CASE c = u BY <1>1, <2>2
  <2>3. ASSUME NEW p \in Parents(g, u), c \in g[p].anc PROVE c \in f[u]
    <3>1. f[p] \subseteq H BY <1>4, <2>1
    <3>2. c \in f[p] BY <2>3, <3>1
    <3> QED BY <2>1, <3>2
  <2> QED BY <1>2, <2>2, <2>3
<1>5. ASSUME NEW c \in f[u], c # u PROVE \E k \in f[u] \intersect H : c \in Parents(g, k)
  <2>1. u \in H /\ u \in f[u] BY <1>1, <1>5
  <2>2. PICK p \in Parents(g, u) : c \in f[p] BY <1>1, <1>5
  <2>3. CASE c = p BY <2>1, <2>2, <2>3
  <2>4. CASE c # p
    <3>1. PICK k \in f[p] \intersect H : c \in Parents(g, k) BY <2>2, <2>4
    <3>2. k \in f[u] BY <1>1, <2>1, <3>1
    <3> QED BY <3>1, <3>2
  <2> QED BY <2>3, <2>4
<1> QED BY <1>3, <1>4, <1>5

LEMMA ReachAll ==
  ASSUME NEW g, IsGraph(g), NEW H, NEW t \in 1 .. Len(g)
  PROVE  /\ t \in Reach(g, H, t) /\ Reach(g, H, t) \subseteq g[t].anc
         /\ Reach(g, H, t) \subseteq H => g[t].anc \subseteq Reach(g, H, t)
         /\ \A c \in Reach(g, H, t) \ {t} :
              \E k \in Reach(g, H, t) \intersect H : c \in Parents(g, k)
<1>0. \A u \in 1 .. Len(g) : Parents(g, u) \subseteq 1 .. Len(g) BY GraphParents
<1>1. PICK f : Walked(g, H, f) BY <1>0, ReachUnfolds, Zenon
<1> DEFINE Fine(u) ==
             /\ f[u] \subseteq g[u].anc
             /\ f[u] \subseteq H => g[u].anc \subseteq f[u]
             /\ \A c \in f[u] \ {u} : \E k \in f[u] \intersect H : c \in Parents(g, k)
           Bad == {u \in 1 .. Len(g) : ~Fine(u)}
<1>2. Bad = {}
  <2> SUFFICES ASSUME Bad # {} PROVE FALSE OBVIOUS
  <2>1. Bad \in SUBSET Nat BY DEF IsGraph
  <2>2. PICK u \in Bad : \A b \in Bad : u <= b
    <3> HIDE DEF Bad
    <3> QED BY <2>1, LeastCommit
  <2>3. u \in 1 .. Len(g) /\ Len(g) \in Nat /\ ~Fine(u) BY <2>2 DEF IsGraph
  <2>4. ASSUME NEW p \in Parents(g, u) PROVE Fine(p)
    <3>1. p \in 1 .. Len(g) /\ p < u BY <2>3, GraphParents
    <3>2. p \in Bad => u <= p BY <2>2
    <3>3. p \notin Bad
      <4> HIDE DEF Bad
      <4> QED BY <3>1, <3>2, <2>3
    <3> QED BY <3>1, <3>3
  <2>5. Fine(u) BY <1>1, <2>3, <2>4, ReachStep
  <2> QED BY <2>3, <2>5
<1>3. Fine(t) BY <1>2
<1>4. t \in f[t] /\ Reach(g, H, t) = f[t] BY <1>1 DEF Walked
<1> QED BY <1>3, <1>4

\* A walk stays within the ancestry of its tip, and with all of that ancestry
\* held it is that ancestry.
LEMMA ReachWithin ==
  ASSUME NEW g, IsGraph(g), NEW H, NEW t \in 1 .. Len(g)
  PROVE  /\ Reach(g, H, t) \subseteq g[t].anc
         /\ g[t].anc \subseteq H => Reach(g, H, t) = g[t].anc
<1> DEFINE R == Reach(g, H, t)
<1>1. R \subseteq g[t].anc /\ (R \subseteq H => g[t].anc \subseteq R) BY ReachAll
<1> HIDE DEF R
<1>2. g[t].anc \subseteq H => R \subseteq H BY <1>1
<1>3. g[t].anc \subseteq H => R = g[t].anc BY <1>1, <1>2
<1> QED BY <1>1, <1>3 DEF R

\* A walk visits its tip.
LEMMA ReachSteps ==
  ASSUME NEW g, IsGraph(g), NEW H, NEW t \in 1 .. Len(g)
  PROVE  t \in Reach(g, H, t)
  BY ReachAll

\* When all a walk visits is held, so is the whole ancestry.
LEMMA ReachHeld ==
  ASSUME NEW g, IsGraph(g), NEW H, NEW t \in 1 .. Len(g), Reach(g, H, t) \subseteq H
  PROVE  g[t].anc \subseteq H
  BY ReachAll

LEMMA CountUpTo ==
  ASSUME NEW n \in Nat, NEW T \in SUBSET (1 .. n)
  PROVE  IsFiniteSet(T) /\ Cardinality(T) \in Nat /\ Cardinality(T) <= n
<1>1. IsFiniteSet(1 .. n) /\ Cardinality(1 .. n) = n BY FS_Interval
<1> QED BY <1>1, FS_Subset, FS_CardinalityType

\* A walk with fewer commits to visit than its limit lists the whole ancestry
\* of its tip, all of it held, or fails.
LEMMA WalkWhole ==
  ASSUME NEW g, IsGraph(g), NEW H, NEW t \in 1 .. Len(g), NEW limit \in Nat, Len(g) < limit,
         NEW w, w = Walk(g, H, t, limit), w.ok
  PROVE  w.commits \subseteq g[t].anc /\ g[t].anc \subseteq w.commits /\ g[t].anc \subseteq H
<1> DEFINE R == Reach(g, H, t)
           taken == {c \in R : Cardinality({k \in R : k > c}) < limit}
<1>1. R \in SUBSET (1 .. Len(g)) /\ Len(g) \in Nat
  <2>1. Len(g) \in Nat /\ g[t].anc \subseteq 1 .. t
    BY DEF IsGraph
  <2>2. R \subseteq g[t].anc
    BY ReachWithin
  <2> HIDE DEF R
  <2> QED BY <2>1, <2>2
<1>2. \A T \in SUBSET (1 .. Len(g)) : Cardinality(T) \in Nat /\ Cardinality(T) <= Len(g)
  BY <1>1, CountUpTo
<1>3. taken = R
  <2> HIDE DEF R
  <2>1. \A c \in R : {k \in R : k > c} \in SUBSET (1 .. Len(g)) BY <1>1
  <2>2. \A c \in R : Cardinality({k \in R : k > c}) < limit
    <3> SUFFICES ASSUME NEW c \in R PROVE Cardinality({k \in R : k > c}) < limit OBVIOUS
    <3> DEFINE T == {k \in R : k > c}
    <3>1. T \in SUBSET (1 .. Len(g)) BY <2>1
    <3> HIDE DEF T
    <3>2. Cardinality(T) < limit BY <1>1, <1>2, <3>1
    <3> QED BY <3>2 DEF T
  <2> QED BY <2>2
<1> HIDE DEF taken
<1>4. Walk(g, H, t, limit).commits = R
  BY <1>3 DEF Walk, taken
<1>5. R \subseteq H
  <2>1. Walk(g, H, t, limit).ok
    OBVIOUS
  <2> QED BY <1>3, <2>1 DEF Walk, taken
<1> HIDE DEF R
<1>6. g[t].anc \subseteq H BY <1>5, ReachHeld DEF R
<1>7. w.commits = R
  BY <1>4
<1>8. R = g[t].anc
  BY <1>6, ReachWithin DEF R
<1> QED BY <1>6, <1>7, <1>8

-----------------------------------------------------------------------------
(* Merge bases                                                             *)

\* A base is an ancestor of both tips.
LEMMA BasesCommon ==
  ASSUME NEW g, IsGraph(g), NEW H, NEW a \in 1 .. Len(g), NEW b \in 1 .. Len(g),
         NEW c \in Find(g, H, a, b)
  PROVE  c \in g[a].anc \intersect g[b].anc
<1>1. Reach(g, H, a) \subseteq g[a].anc /\ Reach(g, H, b) \subseteq g[b].anc BY ReachWithin
<1>2. a \in g[a].anc /\ b \in g[b].anc /\ a # Nil /\ b # Nil BY DEF IsGraph, Nil
<1>3. \/ c = a /\ a = b
      \/ c = b /\ b \in Reach(g, H, a)
      \/ c = a /\ a \in Reach(g, H, b)
      \/ c \in Reach(g, H, a) \intersect Reach(g, H, b)
  BY <1>2, Zenon DEF Find
<1> QED BY <1>1, <1>2, <1>3
============================================================================
