---------------------------- MODULE GraphProofs ----------------------------
(***************************************************************************)
(* The properties of MCDag, for every commit graph, however large, and for *)
(* any part of it a store may hold.                                        *)
(***************************************************************************)
EXTENDS MCDag, DagProofs

LOCAL INSTANCE FiniteSetsExt

LEMMA LeastIn == ASSUME NEW T \in SUBSET Nat, T # {} PROVE Min(T) \in T /\ \A y \in T : Min(T) <= y
<1>1. \E x \in T : \A y \in T : x <= y BY LeastCommit
<1> QED BY <1>1, Zenon DEF Min

\* A set of commits that is not empty has a youngest one.
LEMMA GreatestIn ==
  ASSUME NEW n \in Nat, NEW T \in SUBSET (1 .. n), T # {}
  PROVE  \E x \in T : \A y \in T : y <= x
<1> DEFINE Dist == {n - x : x \in T}
<1>1. Dist \in SUBSET Nat /\ Dist # {}
  <2>1. \A x \in T : n - x \in Nat
    <3> SUFFICES ASSUME NEW x \in T PROVE n - x \in Nat OBVIOUS
    <3>1. x \in 1 .. n OBVIOUS
    <3> QED BY <3>1
  <2> QED BY <2>1
<1>2. PICK d \in Dist : \A e \in Dist : d <= e
  <2> HIDE DEF Dist
  <2> QED BY <1>1, LeastCommit
<1>3. PICK x \in T : d = n - x OBVIOUS
<1>4. \A y \in T : n - y \in Dist OBVIOUS
<1>5. ASSUME NEW y \in T PROVE y <= x
  <2>1. n - x <= n - y /\ x \in 1 .. n /\ y \in 1 .. n BY <1>2, <1>3, <1>4
  <2> QED BY <2>1
<1> QED BY <1>5

-----------------------------------------------------------------------------
(* Walks                                                                   *)

\* A walk finds every commit but its tip as a parent of one it loaded.
LEMMA ReachHangs ==
  ASSUME NEW G, IsGraph(G), NEW S, NEW t \in 1 .. Len(G),
         NEW c \in Reach(G, S, t), c # t
  PROVE  \E k \in Reach(G, S, t) \intersect S : c \in Parents(G, k)
  BY ReachAll

LEMMA ReachBounds ==
  ASSUME NEW G, IsGraph(G), NEW S, NEW t \in 1 .. Len(G)
  PROVE  Reach(G, S, t) \subseteq 1 .. Len(G)
<1>1. G[t].anc \subseteq 1 .. t /\ Len(G) \in Nat BY DEF IsGraph
<1> QED BY <1>1, ReachWithin

\* The youngest commits of R, limit of them at most: all of R or limit exactly.
LEMMA YoungestCount ==
  ASSUME NEW n \in Nat, NEW R \in SUBSET (1 .. n), NEW limit \in Nat \ {0},
         NEW taken, taken = {c \in R : Cardinality({k \in R : k > c}) < limit}
  PROVE  taken = R \/ Cardinality(taken) = limit
<1> DEFINE Above(c) == {k \in R : k > c}
<1>1. \A T \in SUBSET (1 .. n) : IsFiniteSet(T) /\ Cardinality(T) \in Nat BY CountUpTo
<1>2. taken \in SUBSET (1 .. n) OBVIOUS
<1>3. \A c : Above(c) \in SUBSET (1 .. n) OBVIOUS
<1> SUFFICES ASSUME taken # R PROVE Cardinality(taken) = limit OBVIOUS
<1>4. PICK m \in R \ taken : \A y \in R \ taken : y <= m
  <2>1. R \ taken \in SUBSET (1 .. n) /\ R \ taken # {} OBVIOUS
  <2> HIDE DEF Above
  <2> QED BY <2>1, GreatestIn
<1>5. Above(m) \subseteq taken
  <2> SUFFICES ASSUME NEW k \in R, k > m PROVE k \in taken OBVIOUS
  <2>1. k \in 1 .. n /\ m \in 1 .. n BY <1>4
  <2>2. k \in R \ taken => k <= m BY <1>4
  <2> QED BY <2>1, <2>2
<1>6. Cardinality(Above(m)) >= limit
  <2>1. m \in R /\ m \notin taken BY <1>4
  <2>2. ~(Cardinality(Above(m)) < limit) BY <2>1
  <2>3. Cardinality(Above(m)) \in Nat BY <1>1, <1>3
  <2> QED BY <2>2, <2>3
<1>7. Cardinality(Above(m)) <= Cardinality(taken)
  BY <1>1, <1>2, <1>5, FS_Subset
<1>8. Cardinality(taken) <= limit
  <2>1. CASE taken = {}
    <3>1. Cardinality(taken) = 0 BY <2>1, FS_EmptySet
    <3> QED BY <3>1
  <2>2. CASE taken # {}
    <3>1. taken \in SUBSET Nat
      <4> HIDE DEF Above
      <4>1. 1 .. n \subseteq Nat OBVIOUS
      <4> QED BY <1>2, <4>1
    <3>2. PICK c \in taken : \A y \in taken : c <= y BY <2>2, <3>1, LeastCommit
    <3>3. taken \subseteq Above(c) \union {c}
      <4> SUFFICES ASSUME NEW y \in taken, y # c PROVE y \in R /\ y > c OBVIOUS
      <4>1. y \in 1 .. n /\ c \in 1 .. n /\ c <= y /\ y \in R BY <3>2
      <4> QED BY <4>1
    <3>4. IsFiniteSet(Above(c)) /\ Cardinality(Above(c)) \in Nat BY <1>1, <1>3
    <3>5. Cardinality(Above(c)) < limit BY <3>2
    <3>6. c \notin Above(c) /\ c \in 1 .. n BY <1>2, <3>2
    <3> HIDE DEF Above
    <3>7. /\ IsFiniteSet(Above(c) \union {c})
          /\ Cardinality(Above(c) \union {c}) = Cardinality(Above(c)) + 1
      BY <3>4, <3>6, FS_AddElement
    <3>8. Cardinality(taken) <= Cardinality(Above(c) \union {c})
      BY <3>3, <3>7, FS_Subset
    <3>9. Cardinality(taken) \in Nat BY <1>1, <1>2
    <3> QED BY <3>4, <3>5, <3>7, <3>8, <3>9
  <2> QED BY <2>1, <2>2
<1>9. Cardinality(taken) \in Nat /\ Cardinality(Above(m)) \in Nat BY <1>1, <1>2, <1>3
<1> HIDE DEF Above
<1> QED BY <1>6, <1>7, <1>8, <1>9

-----------------------------------------------------------------------------
(* Distances                                                               *)

\* The commits of a walk it found c as a parent of.
Kids(G, S, t, c) == {k \in Reach(G, S, t) \intersect S : c \in Parents(G, k)}

\* One step of Depth's recursion, on distances d.
FromKids(G, S, t, d, c) ==
  IF c = t THEN 0 ELSE 1 + Min({d[k] : k \in Kids(G, S, t, c)})

LEMMA KidsAreYounger ==
  ASSUME NEW G, IsGraph(G), NEW S, NEW t \in 1 .. Len(G), NEW c \in Reach(G, S, t)
  PROVE  /\ \A k \in Kids(G, S, t, c) : k \in Reach(G, S, t) /\ k > c
         /\ c # t => Kids(G, S, t, c) # {}
<1>1. Reach(G, S, t) \subseteq 1 .. Len(G) /\ Len(G) \in Nat BY ReachBounds DEF IsGraph
<1>2. ASSUME NEW k \in Kids(G, S, t, c) PROVE k \in Reach(G, S, t) /\ k > c
  <2>1. k \in Reach(G, S, t) /\ c \in Parents(G, k) BY DEF Kids
  <2>2. k \in 1 .. Len(G) /\ c \in 1 .. Len(G) BY <1>1, <2>1
  <2>3. c < k BY <2>1, <2>2, GraphParents
  <2> QED BY <2>1, <2>2, <2>3
<1>3. c # t => Kids(G, S, t, c) # {} BY ReachHangs DEF Kids
<1> QED BY <1>2, <1>3

LEMMA FromKidsIsNat ==
  ASSUME NEW G, IsGraph(G), NEW S, NEW t \in 1 .. Len(G), NEW c \in Reach(G, S, t),
         NEW d, \A k \in Kids(G, S, t, c) : d[k] \in Nat
  PROVE  FromKids(G, S, t, d, c) \in Nat
<1> DEFINE D == {d[k] : k \in Kids(G, S, t, c)}
<1>1. CASE c = t BY <1>1 DEF FromKids
<1>2. CASE c # t
  <2>1. D \in SUBSET Nat OBVIOUS
  <2>2. D # {} BY <1>2, KidsAreYounger
  <2>3. FromKids(G, S, t, d, c) = 1 + Min(D) BY <1>2 DEF FromKids
  <2> HIDE DEF D
  <2>4. Min(D) \in Nat BY <2>1, <2>2, LeastIn
  <2> QED BY <2>3, <2>4
<1> QED BY <1>1, <1>2

\* The function Depth recurs on exists: distances are settled from the youngest
\* commit of the walk down.
LEMMA DistancesExist ==
  ASSUME NEW G, IsGraph(G), NEW S, NEW t \in 1 .. Len(G)
  PROVE  \E d : d = [c \in Reach(G, S, t) |-> FromKids(G, S, t, d, c)]
<1> DEFINE n == Len(G)
           R == Reach(G, S, t)
           From(m) == {c \in R : m <= c}
           Settled(d, m) == \A c \in From(m) : d[c] = FromKids(G, S, t, d, c) /\ d[c] \in Nat
           Good == {m \in 1 .. n + 1 : \E d : d = [c \in From(m) |-> d[c]] /\ Settled(d, m)}
<1>1. R \subseteq 1 .. n /\ n \in Nat BY ReachBounds DEF IsGraph
<1>2. \A c \in R : \A k \in Kids(G, S, t, c) : k \in R /\ k > c BY KidsAreYounger
<1> HIDE DEF n, R
<1>3. n + 1 \in Good
  <2>1. From(n + 1) = {}
    <3> SUFFICES ASSUME NEW c \in R, n + 1 <= c PROVE FALSE OBVIOUS
    <3>1. c \in 1 .. n BY <1>1
    <3> QED BY <1>1, <3>1
  <2>2. n + 1 \in 1 .. n + 1 BY <1>1
  <2> DEFINE nowhere == [c \in {} |-> 0]
  <2>3. nowhere = [c \in From(n + 1) |-> nowhere[c]] /\ Settled(nowhere, n + 1)
    BY <2>1
  <2> QED BY <2>2, <2>3
<1>4. PICK m \in Good : \A k \in Good : m <= k
  <2>1. Good \in SUBSET Nat BY <1>1
  <2> HIDE DEF Good
  <2> QED BY <1>3, <2>1, LeastCommit
<1>5. m \in 1 .. n + 1 /\ \E d : d = [c \in From(m) |-> d[c]] /\ Settled(d, m) BY <1>4
<1>6. PICK d : d = [c \in From(m) |-> d[c]] /\ Settled(d, m) BY <1>5
<1>7. CASE m = 1
  <2>1. From(m) = R BY <1>1, <1>7
  <2>2. \A c \in R : d[c] = FromKids(G, S, t, d, c) BY <1>6, <2>1
  <2>3. d = [c \in R |-> d[c]] BY <1>6, <2>1
  <2>4. [c \in R |-> d[c]] = [c \in R |-> FromKids(G, S, t, d, c)]
    <3> HIDE DEF From, Settled, Good
    <3> QED BY <2>2
  <2> QED BY <2>3, <2>4 DEF R
<1>8. CASE m # 1
  <2> DEFINE l == m - 1
             d2 == [c \in From(l) |-> IF c \in From(m) THEN d[c] ELSE FromKids(G, S, t, d, c)]
  <2>1. l \in 1 .. n + 1 /\ l < m /\ m \in Nat BY <1>1, <1>5, <1>8
  <2>2. \A c \in From(l) : c \in R /\ c \in 1 .. n /\ (c \in From(m) \/ c = l)
    <3> SUFFICES ASSUME NEW c \in From(l) PROVE c \in R /\ c \in 1 .. n /\ (c \in From(m) \/ c = l)
      OBVIOUS
    <3>1. c \in R /\ c \in 1 .. n /\ l <= c BY <1>1
    <3> QED BY <1>1, <2>1, <3>1
  <2>3. From(m) \subseteq From(l) BY <1>1, <2>1
  <2>4. \A c \in From(m) : d2[c] = d[c] BY <2>3
  <2>5. ASSUME NEW c \in From(l), NEW k \in Kids(G, S, t, c)
        PROVE  k \in From(m) /\ d2[k] = d[k]
    <3>1. k \in R /\ k > c /\ c \in 1 .. n /\ l <= c BY <1>2, <2>2, <2>5
    <3>2. k \in 1 .. n BY <1>1, <3>1
    <3>3. k \in From(m) BY <2>1, <3>1, <3>2
    <3> QED BY <2>4, <3>3
  <2>6. ASSUME NEW c \in From(l)
        PROVE  d2[c] = FromKids(G, S, t, d2, c) /\ d2[c] \in Nat
    <3>1. \A k \in Kids(G, S, t, c) : d2[k] = d[k] /\ d[k] \in Nat
      BY <1>6, <2>5
    <3>2. FromKids(G, S, t, d2, c) = FromKids(G, S, t, d, c)
      <4> HIDE DEF d2, From, Settled, Good
      <4>1. {d2[k] : k \in Kids(G, S, t, c)} = {d[k] : k \in Kids(G, S, t, c)} BY <3>1
      <4> QED BY <4>1 DEF FromKids
    <3>3. FromKids(G, S, t, d, c) \in Nat
      <4>1. c \in Reach(G, S, t) BY <2>2 DEF R
      <4> HIDE DEF d2, From, Settled, Good
      <4> QED BY <3>1, <4>1, FromKidsIsNat
    <3>4. d2[c] = FromKids(G, S, t, d, c)
      <4>1. CASE c \in From(m) BY <1>6, <2>4, <4>1
      <4>2. CASE c \notin From(m) BY <4>2
      <4> QED BY <4>1, <4>2
    <3> HIDE DEF d2
    <3> QED BY <3>2, <3>3, <3>4
  <2>7. d2 = [c \in From(l) |-> d2[c]] OBVIOUS
  <2>8. l \in Good
    <3> HIDE DEF d2, From, l
    <3> QED BY <2>1, <2>6, <2>7
  <2>9. m <= l BY <1>4, <2>8
  <2> HIDE DEF d2, From
  <2> QED BY <2>1, <2>9
<1> QED BY <1>7, <1>8

\* Every commit of a walk is at some distance from its tip.
LEMMA DepthIsNat ==
  ASSUME NEW G, IsGraph(G), NEW S, NEW t \in 1 .. Len(G), NEW c \in Reach(G, S, t)
  PROVE  Depth(G, S, t)[c] \in Nat
<1> DEFINE R == Reach(G, S, t)
           d[k \in R] ==
             IF k = t THEN 0
             ELSE 1 + Min({d[j] : j \in {j \in R \intersect S : k \in Parents(G, j)}})
<1>1. \E e : e = [k \in R |->
             IF k = t THEN 0
             ELSE 1 + Min({e[j] : j \in {j \in R \intersect S : k \in Parents(G, j)}})]
  <2>1. PICK e : e = [k \in R |-> FromKids(G, S, t, e, k)] BY DistancesExist
  <2>2. [k \in R |-> FromKids(G, S, t, e, k)] =
        [k \in R |->
             IF k = t THEN 0
             ELSE 1 + Min({e[j] : j \in {j \in R \intersect S : k \in Parents(G, j)}})]
    BY DEF FromKids, Kids
  <2> HIDE DEF R
  <2>3. e = [k \in R |->
             IF k = t THEN 0
             ELSE 1 + Min({e[j] : j \in {j \in R \intersect S : k \in Parents(G, j)}})]
    BY <2>1, <2>2 DEF R
  <2> QED BY <2>3, Zenon
<1>2. d = [k \in R |->
             IF k = t THEN 0
             ELSE 1 + Min({d[j] : j \in {j \in R \intersect S : k \in Parents(G, j)}})]
  BY <1>1 DEF d
<1>3. Depth(G, S, t) = d BY DEF Depth, Distances, d
<1>4. \A k \in R : d[k] = FromKids(G, S, t, d, k)
  <2> HIDE DEF d
  <2> QED BY <1>2 DEF FromKids, Kids
<1> HIDE DEF d
<1> DEFINE Bad == {k \in R : d[k] \notin Nat}
<1>5. R \subseteq 1 .. Len(G) /\ Len(G) \in Nat BY ReachBounds DEF IsGraph
<1>6. Bad = {}
  <2> SUFFICES ASSUME Bad # {} PROVE FALSE OBVIOUS
  <2>1. Bad \in SUBSET (1 .. Len(G)) BY <1>5
  <2>2. PICK k \in Bad : \A j \in Bad : j <= k
    <3> HIDE DEF Bad
    <3> QED BY <1>5, <2>1, GreatestIn
  <2>3. k \in R /\ d[k] \notin Nat BY <2>2
  <2>4. ASSUME NEW j \in Kids(G, S, t, k) PROVE d[j] \in Nat
    <3>1. j \in R /\ j > k BY <2>3, KidsAreYounger
    <3>2. j \in 1 .. Len(G) /\ k \in 1 .. Len(G) BY <1>5, <2>3, <3>1
    <3>3. j \in Bad => j <= k BY <2>2
    <3>4. j \notin Bad
      <4> HIDE DEF Bad
      <4> QED BY <3>1, <3>2, <3>3
    <3> QED BY <3>1, <3>4
  <2>5. FromKids(G, S, t, d, k) \in Nat BY <2>3, <2>4, FromKidsIsNat
  <2> QED BY <1>4, <2>3, <2>5
<1> QED BY <1>3, <1>6

-----------------------------------------------------------------------------
(* What Walk and Find return                                               *)

\* A walk that succeeds holds what it lists; it lists the whole ancestry of
\* its tip or as many commits as its limit allows, each but the tip a parent
\* of another.
LEMMA WalkTrusted ==
  ASSUME NEW G, IsGraph(G), NEW S, NEW t \in 1 .. Len(G), NEW limit \in Nat \ {0},
         Walk(G, S, t, limit).ok
  PROVE  LET w == Walk(G, S, t, limit)
         IN  /\ w.commits \subseteq S
             /\ w.commits = G[t].anc \/ Cardinality(w.commits) = limit
             /\ \A c \in w.commits \ {t} : \E k \in w.commits : c \in Parents(G, k)
<1> DEFINE R == Reach(G, S, t)
           taken == {c \in R : Cardinality({k \in R : k > c}) < limit}
<1>1. R \in SUBSET (1 .. Len(G)) /\ Len(G) \in Nat BY ReachBounds DEF IsGraph
<1>2. \A c \in R \ {t} : \E k \in R : c \in Parents(G, k) BY ReachHangs
<1>3. R \subseteq S => G[t].anc \subseteq S BY ReachHeld
<1>4. G[t].anc \subseteq S => R = G[t].anc BY ReachWithin
<1>5. Walk(G, S, t, limit).commits = taken BY DEF Walk
<1>6. Walk(G, S, t, limit).ok => taken \subseteq S BY DEF Walk
<1> HIDE DEF R
<1>7. taken = R \/ Cardinality(taken) = limit
  <2> HIDE DEF taken
  <2> QED BY <1>1, YoungestCount DEF taken
<1> DEFINE w == Walk(G, S, t, limit)
<1>8. w.commits = taken /\ taken \subseteq S BY <1>5, <1>6
<1>9. ASSUME NEW c \in taken \ {t} PROVE \E k \in taken : c \in Parents(G, k)
  <2>1. PICK k \in R : c \in Parents(G, k) BY <1>2, <1>9
  <2>2. c \in 1 .. Len(G) /\ k \in 1 .. Len(G) /\ c < k
    <3>1. c \in 1 .. Len(G) /\ k \in 1 .. Len(G) BY <1>1, <2>1
    <3> QED BY <2>1, <3>1, GraphParents
  <2> DEFINE Above(x) == {j \in R : j > x}
  <2>3. Above(k) \subseteq Above(c) /\ Above(c) \in SUBSET (1 .. Len(G))
    <3>1. Above(c) \in SUBSET (1 .. Len(G)) BY <1>1
    <3>2. ASSUME NEW j \in R, j > k PROVE j > c
      <4>1. j \in 1 .. Len(G) BY <1>1
      <4> QED BY <2>2, <3>2, <4>1
    <3> QED BY <3>1, <3>2
  <2>4. /\ Above(k) \in SUBSET (1 .. Len(G)) BY <2>3
  <2>5. Cardinality(Above(k)) <= Cardinality(Above(c))
    <3> HIDE DEF Above
    <3> QED BY <1>1, <2>3, CountUpTo, FS_Subset
  <2>6. Cardinality(Above(k)) \in Nat /\ Cardinality(Above(c)) \in Nat
    <3> HIDE DEF Above
    <3> QED BY <1>1, <2>3, <2>4, CountUpTo
  <2>7. Cardinality(Above(c)) < limit OBVIOUS
  <2>8. Cardinality(Above(k)) < limit BY <2>5, <2>6, <2>7
  <2> QED BY <2>1, <2>8
<1> HIDE DEF taken
<1> QED BY <1>3, <1>4, <1>7, <1>8, <1>9

\* With both ancestries held Find fails on disjoint histories only, and a base
\* it returns has no common ancestor below it.
LEMMA BasesLowest ==
  ASSUME NEW G, IsGraph(G), NEW S, NEW a \in 1 .. Len(G), NEW b \in 1 .. Len(G),
         G[a].anc \subseteq S, G[b].anc \subseteq S
  PROVE  LET common == G[a].anc \intersect G[b].anc
         IN  /\ Find(G, S, a, b) = {} <=> common = {}
             /\ \A base \in Find(G, S, a, b), c \in common : base \in G[c].anc => c = base
<1> DEFINE common == G[a].anc \intersect G[b].anc
<1>1. Len(G) \in Nat /\ a # Nil /\ b # Nil BY DEF IsGraph, Nil
<1>2. \A c \in 1 .. Len(G) : /\ c \in G[c].anc /\ G[c].anc \subseteq 1 .. c
                             /\ \A k \in G[c].anc : G[k].anc \subseteq G[c].anc
  BY DEF IsGraph
<1>3. common \in SUBSET (1 .. Len(G))
  <2>1. G[a].anc \subseteq 1 .. a /\ a \in 1 .. Len(G) BY <1>2
  <2> QED BY <1>1, <2>1
<1>4. ASSUME NEW c \in 1 .. Len(G), NEW k \in 1 .. Len(G), c \in G[k].anc, k \in G[c].anc PROVE c = k
  <2>1. c \in 1 .. k /\ k \in 1 .. c BY <1>2, <1>4
  <2> QED BY <2>1
<1>5. Reach(G, S, a) = G[a].anc /\ Reach(G, S, b) = G[b].anc BY ReachWithin
<1>6. ASSUME NEW o \in common PROVE Reach(G, S, o) = G[o].anc
  <2>1. G[o].anc \subseteq G[a].anc BY <1>2
  <2>2. o \in 1 .. Len(G) BY <1>3
  <2> QED BY <2>1, <2>2, ReachWithin
<1> DEFINE lowest == {c \in common : \A o \in common \ {c} : c \notin Reach(G, S, o)}
           score == [c \in lowest |-> Depth(G, S, a)[c] + Depth(G, S, b)[c]]
           best == {c \in lowest : \A o \in lowest : score[c] <= score[o]}
<1>7. CASE a = b \/ b \in G[a].anc
  <2>1. Find(G, S, a, b) = {b} BY <1>1, <1>5, <1>7, Zenon DEF Find
  <2>2. b \in common BY <1>2, <1>7
  <2>3. ASSUME NEW c \in common, b \in G[c].anc PROVE c = b
    <3>1. c \in G[b].anc /\ c \in 1 .. Len(G) BY <1>3
    <3> QED BY <1>4, <2>3, <3>1
  <2> QED BY <2>1, <2>2, <2>3
<1>8. CASE a # b /\ b \notin G[a].anc /\ a \in G[b].anc
  <2>1. Find(G, S, a, b) = {a} BY <1>1, <1>5, <1>8, Zenon DEF Find
  <2>2. a \in common BY <1>2, <1>8
  <2>3. ASSUME NEW c \in common, a \in G[c].anc PROVE c = a
    <3>1. c \in G[a].anc /\ c \in 1 .. Len(G) BY <1>3
    <3> QED BY <1>4, <2>3, <3>1
  <2> QED BY <2>1, <2>2, <2>3
<1>9. CASE a # b /\ b \notin G[a].anc /\ a \notin G[b].anc
  <2>1. Find(G, S, a, b) = best BY <1>1, <1>5, <1>9 DEF Find
  <2>2. best = {} => common = {}
    <3> SUFFICES ASSUME common # {} PROVE best # {} OBVIOUS
    <3>1. PICK y \in common : \A o \in common : o <= y
      <4> HIDE DEF best, score, lowest
      <4> QED BY <1>1, <1>3, GreatestIn
    <3>2. y \in lowest
      <4> SUFFICES ASSUME NEW o \in common, o # y, y \in Reach(G, S, o) PROVE FALSE OBVIOUS
      <4>1. y \in G[o].anc /\ o \in 1 .. Len(G) /\ y \in 1 .. Len(G) BY <1>3, <1>6
      <4>2. y \in 1 .. o BY <1>2, <4>1
      <4>3. o <= y BY <3>1
      <4> QED BY <4>1, <4>2, <4>3
    <3>3. \A c \in lowest : score[c] \in Nat
      <4> SUFFICES ASSUME NEW c \in lowest PROVE score[c] \in Nat OBVIOUS
      <4>1. c \in Reach(G, S, a) /\ c \in Reach(G, S, b) BY <1>5
      <4>2. Depth(G, S, a)[c] \in Nat /\ Depth(G, S, b)[c] \in Nat BY <4>1, DepthIsNat
      <4>3. score[c] = Depth(G, S, a)[c] + Depth(G, S, b)[c] OBVIOUS
      <4> HIDE DEF score
      <4> QED BY <4>2, <4>3
    <3> DEFINE scores == {score[c] : c \in lowest}
    <3> HIDE DEF score, lowest
    <3>4. scores \in SUBSET Nat /\ scores # {} BY <3>2, <3>3
    <3>5. PICK s \in scores : \A r \in scores : s <= r
      <4> HIDE DEF scores
      <4> QED BY <3>4, LeastCommit
    <3>6. PICK c \in lowest : s = score[c] BY <3>5
    <3>7. \A o \in lowest : score[o] \in scores BY DEF scores
    <3> QED BY <3>5, <3>6, <3>7
  <2>3. common = {} => best = {} OBVIOUS
  <2>4. ASSUME NEW base \in best, NEW c \in common, base \in G[c].anc PROVE c = base
    <3>1. base \in lowest OBVIOUS
    <3>2. Reach(G, S, c) = G[c].anc BY <1>6
    <3> HIDE DEF best
    <3> QED BY <2>4, <3>1, <3>2
  <2> HIDE DEF best
  <2> QED BY <2>1, <2>2, <2>3, <2>4
<1> QED BY <1>7, <1>8, <1>9

\* The ancestries of two commits are each other's ancestors only for one commit.
LEMMA Acyclic ==
  ASSUME NEW G, IsGraph(G), NEW a \in 1 .. Len(G), NEW b \in 1 .. Len(G),
         a \in G[b].anc, b \in G[a].anc
  PROVE  a = b
<1>1. Len(G) \in Nat /\ a \in 1 .. b /\ b \in 1 .. a BY DEF IsGraph
<1> QED BY <1>1

\* Find answers with a tip exactly when it is an ancestor of the other, as far
\* as the other's ancestry is held.
LEMMA BasesExact ==
  ASSUME NEW G, IsGraph(G), NEW S, NEW a \in 1 .. Len(G), NEW b \in 1 .. Len(G)
  PROVE  /\ G[a].anc \subseteq S => (b \in Find(G, S, a, b) <=> b \in G[a].anc)
         /\ G[b].anc \subseteq S => (a \in Find(G, S, a, b) <=> a \in G[b].anc)
<1>1. a # Nil /\ b # Nil /\ a \in G[a].anc /\ b \in G[b].anc BY DEF IsGraph, Nil
<1>2. \A c \in Find(G, S, a, b) : c \in G[a].anc /\ c \in G[b].anc BY BasesCommon
<1>3. ASSUME G[a].anc \subseteq S, b \in G[a].anc PROVE b \in Find(G, S, a, b)
  <2>1. b \in Reach(G, S, a) BY <1>3, ReachWithin
  <2> QED BY <1>1, <2>1, Zenon DEF Find
<1>4. ASSUME G[b].anc \subseteq S, a \in G[b].anc PROVE a \in Find(G, S, a, b)
  <2>1. a \in Reach(G, S, b) BY <1>4, ReachWithin
  <2>2. b \in Reach(G, S, a) => a = b BY <1>4, Acyclic, ReachWithin
  <2> QED BY <1>1, <2>1, <2>2, Zenon DEF Find
<1> QED BY <1>2, <1>3, <1>4

\* The distances of a walk whose ancestry is held do not depend on what else is.
LEMMA SameDepths ==
  ASSUME NEW G, IsGraph(G), NEW S, NEW K, NEW t \in 1 .. Len(G),
         G[t].anc \subseteq S, G[t].anc \subseteq K
  PROVE  Depth(G, S, t) = Depth(G, K, t)
<1> DEFINE A == G[t].anc
<1>1. Reach(G, S, t) = A /\ Reach(G, K, t) = A BY ReachWithin
<1>2. A \intersect S = A /\ A \intersect K = A OBVIOUS
<1> HIDE DEF A
<1>3. Depth(G, S, t) = Distances(G, A, A, t) BY <1>1, <1>2 DEF Depth
<1>4. Depth(G, K, t) = Distances(G, A, A, t) BY <1>1, <1>2 DEF Depth
<1> QED BY <1>3, <1>4

\* Two stores with both ancestries choose among the same bases.
LEMMA BasesSame ==
  ASSUME NEW G, IsGraph(G), NEW S, NEW K, NEW a \in 1 .. Len(G), NEW b \in 1 .. Len(G),
         G[a].anc \subseteq S, G[b].anc \subseteq S, G[a].anc \subseteq K, G[b].anc \subseteq K
  PROVE  Find(G, K, b, a) = Find(G, S, a, b)
<1> DEFINE A == G[a].anc
           B == G[b].anc
           common == A \intersect B
           lowest == {c \in common : \A o \in common \ {c} : c \notin G[o].anc}
           sum(c) == Depth(G, S, a)[c] + Depth(G, S, b)[c]
           best == {c \in lowest : \A o \in lowest : sum(c) <= sum(o)}
<1>1. a # Nil /\ b # Nil /\ a \in A /\ b \in B BY DEF IsGraph, Nil
<1>2. /\ Reach(G, S, a) = A /\ Reach(G, S, b) = B
      /\ Reach(G, K, a) = A /\ Reach(G, K, b) = B
  BY ReachWithin
<1>3. ASSUME NEW o \in common PROVE Reach(G, S, o) = G[o].anc /\ Reach(G, K, o) = G[o].anc
  <2>1. G[o].anc \subseteq A /\ o \in 1 .. Len(G)
    <3>1. G[a].anc \subseteq 1 .. a /\ a \in 1 .. Len(G) /\ Len(G) \in Nat BY DEF IsGraph
    <3>2. G[o].anc \subseteq G[a].anc BY DEF IsGraph
    <3> QED BY <3>1, <3>2
  <2> QED BY <2>1, ReachWithin
<1>4. \A c \in common : /\ Depth(G, S, a)[c] \in Nat /\ Depth(G, S, b)[c] \in Nat
  BY <1>2, DepthIsNat
<1>5. Depth(G, K, a) = Depth(G, S, a) /\ Depth(G, K, b) = Depth(G, S, b) BY SameDepths
<1>6. /\ {c \in common : \A o \in common \ {c} : c \notin Reach(G, S, o)} = lowest
      /\ {c \in B \intersect A : \A o \in (B \intersect A) \ {c} : c \notin Reach(G, K, o)} = lowest
  BY <1>3
<1>7. \A c \in common : Depth(G, S, b)[c] + Depth(G, S, a)[c] = sum(c) BY <1>4
<1> HIDE DEF A, B
<1>8. lowest \subseteq common OBVIOUS
<1>9. Find(G, S, a, b) = IF a = b THEN {a} ELSE IF b \in A THEN {b} ELSE IF a \in B THEN {a} ELSE best
  <2> DEFINE score == [c \in lowest |-> sum(c)]
  <2> HIDE DEF lowest, sum
  <2>1. {c \in lowest : \A o \in lowest : score[c] <= score[o]} = best
    <3>1. \A c \in lowest : score[c] = sum(c) OBVIOUS
    <3> HIDE DEF score
    <3> QED BY <3>1
  <2>2. Find(G, S, a, b) = IF a = b THEN {a} ELSE IF b \in A THEN {b} ELSE IF a \in B THEN {a}
                           ELSE {c \in lowest : \A o \in lowest : score[c] <= score[o]}
    BY <1>1, <1>2, <1>6 DEF Find, sum
  <2> HIDE DEF best, score
  <2> QED BY <2>1, <2>2
<1>10. Find(G, K, b, a) = IF a = b THEN {a} ELSE IF a \in B THEN {a} ELSE IF b \in A THEN {b} ELSE best
  <2> DEFINE turned(c) == Depth(G, S, b)[c] + Depth(G, S, a)[c]
             score == [c \in lowest |-> turned(c)]
  <2>0. \A c \in lowest : turned(c) = sum(c) BY <1>7, <1>8
  <2> HIDE DEF lowest, turned, sum
  <2>1. {c \in lowest : \A o \in lowest : score[c] <= score[o]} = best
    <3>1. \A c \in lowest : score[c] = sum(c) BY <2>0
    <3> HIDE DEF score
    <3> QED BY <3>1
  <2>2. Find(G, K, b, a) = IF a = b THEN {a} ELSE IF a \in B THEN {a} ELSE IF b \in A THEN {b}
                           ELSE {c \in lowest : \A o \in lowest : score[c] <= score[o]}
    BY <1>1, <1>2, <1>5, <1>6 DEF Find, turned
  <2> HIDE DEF best, score
  <2> QED BY <2>1, <2>2
<1>11. a \in B /\ b \in A => a = b BY Acyclic DEF A, B
<1> HIDE DEF best
<1> QED BY <1>9, <1>10, <1>11

-----------------------------------------------------------------------------
(* MCDag                                                                   *)

\* The ledger is a graph; the store holds commits of it.
GraphInv == IsGraph(g) /\ H \subseteq 1 .. Len(g)

\* However it grows, the ledger stays a graph: a commit names parents that
\* exist, and its hash fixes its ancestry (dag.go:18-52).
THEOREM Graphs == Spec => []GraphInv
<1>0. GraphInv' <=> IsGraph(g') /\ H' \subseteq 1 .. Len(g') BY DEF GraphInv, IsGraph, Parents
<1>1. Init => GraphInv
  BY EmptyGraph, EmptySeq DEF Init, GraphInv
<1>2. ASSUME GraphInv, NEW held \in BOOLEAN, NEW parents \in Seq(1 .. Len(g)), Grow(parents, held)
      PROVE  GraphInv'
  <2> DEFINE c == Len(g) + 1
             e == [parents |-> parents, anc |-> AncestryOf(g, c, parents)]
  <2>1. g' = Append(g, e) /\ H' \subseteq H \union {c} BY <1>2 DEF Grow
  <2>2. IsGraph(g) /\ H \subseteq 1 .. Len(g) /\ Len(g) \in Nat BY <1>2 DEF GraphInv, IsGraph
  <2>3. \A i \in DOMAIN e.parents : e.parents[i] \in 1 .. Len(g) 
    <3>1. parents \in [1 .. Len(parents) -> 1 .. Len(g)] BY LenProperties
    <3> QED BY <3>1
  <2>4. e.anc = AncestryOf(g, Len(g) + 1, e.parents) OBVIOUS
  <2> HIDE DEF e
  <2>5. IsGraph(Append(g, e)) BY <2>2, <2>3, <2>4, GraphGrows
  <2>6. Len(Append(g, e)) = Len(g) + 1 BY <2>2, Appended
  <2>7. H' \subseteq 1 .. Len(g) + 1 BY <2>1, <2>2
  <2>8. IsGraph(g') /\ H' \subseteq 1 .. Len(g')
    <3> HIDE DEF IsGraph
    <3> QED BY <2>1, <2>5, <2>6, <2>7
  <2> QED BY <1>0, <2>8
<1>3. GraphInv /\ [Next]_vars => GraphInv'
  <2> SUFFICES ASSUME GraphInv, [Next]_vars PROVE GraphInv' OBVIOUS
  <2>1. CASE UNCHANGED vars
    <3>1. g' = g /\ H' = H BY <2>1 DEF vars
    <3> QED BY <1>0, <3>1 DEF GraphInv
  <2>2. ASSUME NEW held \in BOOLEAN, Grow(<<>>, held) PROVE GraphInv'
    <3>1. <<>> \in Seq(1 .. Len(g)) BY EmptySeq
    <3> QED BY <1>2, <2>2, <3>1
  <2>3. ASSUME NEW held \in BOOLEAN, NEW p \in 1 .. Len(g), Grow(<<p>>, held) PROVE GraphInv'
    <3>1. <<p>> \in Seq(1 .. Len(g)) OBVIOUS
    <3> QED BY <1>2, <2>3, <3>1
  <2>4. ASSUME NEW held \in BOOLEAN, NEW p \in 1 .. Len(g), NEW q \in 1 .. Len(g), Grow(<<p, q>>, held)
        PROVE  GraphInv'
    <3>1. <<p, q>> \in Seq(1 .. Len(g)) OBVIOUS
    <3> QED BY <1>2, <2>4, <3>1
  <2> QED BY <2>1, <2>2, <2>3, <2>4 DEF Next
<1> QED BY <1>1, <1>3, PTL DEF Spec

\* MCDag.FindIsCommon, for every graph: whatever part of it a store holds, what
\* lca.Find's walks reach keeps its base within both ancestries, and a tip that
\* is an ancestor of the other is told from one that is not wherever the
\* other's ancestry is whole (lca.go:18-43, 95-122, 215-237).
THEOREM BasesAreCommon == Spec => []FindIsCommon
<1>1. ASSUME GraphInv PROVE FindIsCommon
  <2> SUFFICES ASSUME NEW a \in H, NEW b \in H
               PROVE  /\ Find(g, H, a, b) \subseteq g[a].anc \intersect g[b].anc
                      /\ Complete(a) => (b \in Find(g, H, a, b) <=> b \in g[a].anc)
                      /\ Complete(b) => (a \in Find(g, H, a, b) <=> a \in g[b].anc)
    BY Zenon DEF FindIsCommon
  <2>1. a \in 1 .. Len(g) /\ b \in 1 .. Len(g) /\ IsGraph(g) BY <1>1 DEF GraphInv
  <2>2. Find(g, H, a, b) \subseteq g[a].anc \intersect g[b].anc BY <2>1, BasesCommon
  <2> QED BY <2>1, <2>2, BasesExact DEF Complete
<1> QED BY <1>1, Graphs, PTL

\* MCDag.FindIsLowest, for every graph: with both histories held lca.Find fails
\* only when they are disjoint, no other common ancestor descends from the base
\* it returns, and two stores find the same bases, from whichever end they look
\* (lca.go:18-93).
THEOREM BasesAreLowest == Spec => []FindIsLowest
<1>1. ASSUME GraphInv PROVE FindIsLowest
  <2> SUFFICES ASSUME NEW a \in H, NEW b \in H, Complete(a) /\ Complete(b)
               PROVE  LET common == g[a].anc \intersect g[b].anc
                      IN  /\ Find(g, H, a, b) = {} <=> common = {}
                          /\ \A base \in Find(g, H, a, b), c \in common :
                                base \in g[c].anc => c = base
                          /\ \A K \in SUBSET (1 .. Len(g)) :
                                g[a].anc \union g[b].anc \subseteq K
                                  => Find(g, K, b, a) = Find(g, H, a, b)
    BY Zenon DEF FindIsLowest
  <2> DEFINE common == g[a].anc \intersect g[b].anc
  <2>1. a \in 1 .. Len(g) /\ b \in 1 .. Len(g) /\ IsGraph(g) BY <1>1 DEF GraphInv
  <2>2. g[a].anc \subseteq H /\ g[b].anc \subseteq H BY DEF Complete
  <2>3. /\ Find(g, H, a, b) = {} <=> common = {}
        /\ \A base \in Find(g, H, a, b), c \in common : base \in g[c].anc => c = base
    BY <2>1, <2>2, BasesLowest
  <2>4. ASSUME NEW K \in SUBSET (1 .. Len(g)), g[a].anc \union g[b].anc \subseteq K
        PROVE  Find(g, K, b, a) = Find(g, H, a, b)
    <3>1. g[a].anc \subseteq K /\ g[b].anc \subseteq K BY <2>4
    <3> QED BY <2>1, <2>2, <3>1, BasesSame
  <2> QED BY <2>3, <2>4
<1> QED BY <1>1, Graphs, PTL

\* MCDag.WalkIsComplete, for every graph and every limit: WalkTipOrder fails
\* rather than leave a commit out (dag.go:119-168).
THEOREM WalksAreComplete == Spec => []WalkIsComplete
<1>1. ASSUME GraphInv PROVE WalkIsComplete
  <2> SUFFICES ASSUME NEW t \in H, Walk(g, H, t, Limit).ok
               PROVE  LET w == Walk(g, H, t, Limit)
                      IN  /\ w.commits \subseteq H
                          /\ w.commits = g[t].anc \/ Cardinality(w.commits) = Limit
                          /\ \A c \in w.commits \ {t} : \E k \in w.commits : c \in Parents(g, k)
    BY DEF WalkIsComplete
  <2>1. t \in 1 .. Len(g) /\ IsGraph(g) BY <1>1 DEF GraphInv
  <2> QED BY <2>1, LimitAssumption, WalkTrusted
<1> QED BY <1>1, Graphs, PTL
============================================================================
