--------------------------- MODULE SessionsProofs ---------------------------
(***************************************************************************)
(* The session that the lower PeerID dialed stands, for any number of      *)
(* connections at once and however lookups and changes of the two maps     *)
(* interleave.                                                             *)
(***************************************************************************)
EXTENDS Sessions, TLAPS

\* As long as nothing outside ends a session, and Low dials by discovery only.
Undisturbed == disruptions = 0 /\ Low \notin statics

LowDialed(c) == opener[c] = Low /\ Alive(c)

Ending == {"none", "unlist"}

\* Both goroutines of a session of Low run, and neither has closed it or is
\* about to.
LowRuns ==
  \A c \in Conns : LowDialed(c) =>
    \A n \in Nodes : pc[<<c, n>>] \notin Ending /\ open[<<c, n>>]

\* There is one of them at most, and none was dialed by address.
LowAlone ==
  /\ \A c, d \in Conns : LowDialed(c) /\ LowDialed(d) => c = d
  /\ \A c \in Conns : opener[c] = Low => ~static[c]

\* What a goroutine set out to retire is a session of High.
OnlyHighRetired == \A x \in Sides : found[x] # None => opener[found[x]] = High

\* A goroutine that is to retire a session has found one.
FoundFirst == \A x \in Sides : pc[x] = "retire" => found[x] # None

IInv ==
  /\ TypeOK
  /\ FoundFirst
  /\ Undisturbed => cut = {} /\ LowRuns /\ LowAlone /\ OnlyHighRetired

-----------------------------------------------------------------------------

USE DEF Nodes, Sides, Ending

LEMMA Ids == /\ Low # High /\ Low \in Nat /\ High \in Nat
             /\ Other(Low) = High /\ Other(High) = Low
             /\ None \notin Conns
  BY SessionsAssumption DEF Other, None

LEMMA InitIInv == Init => IInv
<1> SUFFICES ASSUME Init PROVE IInv
  OBVIOUS
<1>1. \A c \in Conns : ~Alive(c)
  BY DEF Init, Alive
<1>2. TypeOK
  BY SessionsAssumption DEF Init, TypeOK
<1>3. LowRuns /\ LowAlone /\ OnlyHighRetired /\ FoundFirst
  BY <1>1 DEF Init, LowRuns, LowAlone, LowDialed, OnlyHighRetired, FoundFirst
<1> QED
  BY <1>2, <1>3 DEF IInv, Init

-----------------------------------------------------------------------------

LEMMA DialStep ==
  ASSUME IInv, NEW n \in Nodes, NEW s \in BOOLEAN, Dial(n, s)
  PROVE  IInv'
<1>1. PICK c \in Conns :
        /\ Free(c)
        /\ opener' = [opener EXCEPT ![c] = n]
        /\ static' = [static EXCEPT ![c] = s]
        /\ pc' = [x \in Sides |-> IF x[1] = c THEN "load" ELSE pc[x]]
        /\ open' = [x \in Sides |-> IF x[1] = c THEN TRUE ELSE open[x]]
        /\ cut' = cut \ {c}
  BY DEF Dial
<1>2. UNCHANGED <<statics, found, peers, disruptions>>
  BY DEF Dial
<1>3. \A m \in Nodes : pc[<<c, m>>] = "none"
  BY <1>1 DEF Free, Alive
<1>4. TypeOK'
  <2>1. \A m \in Nodes : peers[m] # None => peers[m] # c
    BY <1>3 DEF IInv, TypeOK
  <2>2. \A m \in Nodes : peers'[m] = None \/ pc'[<<peers'[m], m>>] \in {"serve", "unlist"}
    BY <1>1, <1>2, <2>1 DEF IInv, TypeOK
  <2> QED
    BY <1>1, <1>2, <2>2 DEF IInv, TypeOK
<1>5. FoundFirst'
  BY <1>1, <1>2 DEF IInv, FoundFirst, TypeOK
<1>6. ASSUME Undisturbed' PROVE (cut = {} /\ LowRuns /\ LowAlone /\ OnlyHighRetired)'
  <2>1. cut = {} /\ LowRuns /\ LowAlone /\ OnlyHighRetired
    BY <1>2, <1>6 DEF IInv, Undisturbed
  <2>2. \A d \in Conns : d # c => (Alive(d)' <=> Alive(d)) /\ opener'[d] = opener[d]
    BY <1>1 DEF Alive, IInv, TypeOK
  <2>3. opener'[c] = n
    BY <1>1 DEF IInv, TypeOK
  <2>4. n = Low => s = FALSE
    BY <1>2, <1>6 DEF Dial, Undisturbed
  <2>5. ASSUME n = Low, NEW d \in Conns, LowDialed(d) PROVE FALSE
    <3>1. pc[<<d, Low>>] # "none"
      BY <2>1, <2>5 DEF LowRuns
    <3>2. opener[d] = Low /\ static[d] = FALSE
      BY <2>1, <2>5 DEF LowDialed, LowAlone, IInv, TypeOK
    <3> QED
      BY <2>4, <2>5, <3>1, <3>2 DEF Dial, Dialing
  <2>6. LowRuns'
    <3> SUFFICES ASSUME NEW d \in Conns, LowDialed(d)', NEW m \in Nodes
                 PROVE  pc'[<<d, m>>] \notin Ending /\ open'[<<d, m>>]
      BY DEF LowRuns
    <3>1. CASE d = c
      BY <1>1, <3>1
    <3>2. CASE d # c
      BY <1>1, <2>1, <2>2, <3>2 DEF LowRuns, LowDialed
    <3> QED
      BY <3>1, <3>2
  <2>7. LowAlone'
    <3>1. \A d \in Conns : LowDialed(d)' => d = c \/ LowDialed(d)
      BY <2>2 DEF LowDialed
    <3>2. LowDialed(c)' => n = Low
      BY <2>3 DEF LowDialed
    <3>3. \A d, e \in Conns : LowDialed(d)' /\ LowDialed(e)' => d = e
      BY <2>1, <2>5, <3>1, <3>2 DEF LowAlone
    <3>4. \A d \in Conns : opener'[d] = Low => ~static'[d]
      BY <1>1, <2>1, <2>2, <2>3, <2>4 DEF LowAlone, IInv, TypeOK
    <3> QED
      BY <3>3, <3>4 DEF LowAlone
  <2>8. OnlyHighRetired'
    BY <1>1, <1>2, <2>1, <2>2 DEF OnlyHighRetired, Free, IInv, TypeOK
  <2> QED
    BY <1>1, <2>1, <2>6, <2>7, <2>8
<1> QED
  BY <1>4, <1>5, <1>6 DEF IInv

LEMMA LowRunsBySide ==
  LowRuns => \A y \in Sides : LowDialed(y[1]) => pc[y] \notin Ending /\ open[y]
<1> SUFFICES ASSUME LowRuns, NEW y \in Sides, LowDialed(y[1])
             PROVE  pc[y] \notin Ending /\ open[y]
  OBVIOUS
<1>1. y[1] \in Conns /\ y[2] \in Nodes /\ y = <<y[1], y[2]>>
  OBVIOUS
<1> QED
  BY <1>1 DEF LowRuns

\* A step of goroutines that runs no session of Low down leaves these sessions
\* as they are.
LEMMA LowKept ==
  ASSUME IInv, Undisturbed,
         UNCHANGED <<opener, static, cut>>,
         \A x \in Sides : LowDialed(x[1]) => pc'[x] \notin Ending /\ open'[x],
         \A d \in Conns : Alive(d)' => Alive(d)
  PROVE  (cut = {} /\ LowRuns /\ LowAlone)'
<1>1. cut = {} /\ LowRuns /\ LowAlone
  BY DEF IInv
<1>2. \A d \in Conns : LowDialed(d)' => LowDialed(d)
  BY DEF LowDialed
<1>3. \A d \in Conns, m \in Nodes : <<d, m>> \in Sides /\ <<d, m>>[1] = d
  OBVIOUS
<1>4. LowRuns'
  BY <1>2, <1>3 DEF LowRuns
<1> QED
  BY <1>1, <1>2, <1>4 DEF LowAlone

LEMMA LoadStep ==
  ASSUME IInv, NEW c \in Conns, NEW n \in Nodes, Load(c, n)
  PROVE  IInv'
<1> DEFINE x == <<c, n>>
<1>1. /\ pc[x] = "load" /\ UNCHANGED <<statics, opener, static, cut, peers, disruptions>>
      /\ x \in Sides /\ x[1] = c /\ x[2] = n
  BY DEF Load
<1>2. peers[n] # c
  BY <1>1, Ids DEF IInv, TypeOK
<1>3. PICK where \in {"store", "retire", "none"} : pc' = [pc EXCEPT ![x] = where]
  BY DEF Load, Goto
<1>4. open' = open \/ (where = "none" /\ open' = [open EXCEPT ![x] = FALSE])
  BY <1>1, <1>3 DEF Load, Goto, Shut, IInv, TypeOK
<1>5. \/ found' = found /\ where # "retire"
      \/ /\ peers[n] # None /\ ShouldReplace(peers[n], opener[c])
         /\ where = "retire" /\ found' = [found EXCEPT ![x] = peers[n]]
  BY <1>1, <1>3 DEF Load, Goto, IInv, TypeOK
<1>6. TypeOK'
  <2>1. \A m \in Nodes : peers'[m] = None \/ pc'[<<peers'[m], m>>] \in {"serve", "unlist"}
    BY <1>1, <1>3 DEF IInv, TypeOK
  <2> QED
    BY <1>1, <1>3, <1>4, <1>5, <2>1 DEF IInv, TypeOK
<1>7. FoundFirst'
  BY <1>1, <1>3, <1>5 DEF IInv, FoundFirst, TypeOK
<1>8. ASSUME Undisturbed' PROVE (cut = {} /\ LowRuns /\ LowAlone /\ OnlyHighRetired)'
  <2>1. Undisturbed /\ cut = {} /\ LowRuns /\ LowAlone /\ OnlyHighRetired
    BY <1>1, <1>8 DEF IInv, Undisturbed
  <2>2. ASSUME where = "none" PROVE opener[c] # Low
    <3>1. peers[n] # None /\ ~(opener[c] < opener[peers[n]])
      BY <1>1, <1>3, <2>2 DEF Load, Goto, ShouldReplace, IInv, TypeOK
    <3>2. peers[n] \in Conns /\ pc[<<peers[n], n>>] \in {"serve", "unlist"}
      BY <3>1 DEF IInv, TypeOK
    <3>3. opener[c] = Low => LowDialed(c) /\ LowDialed(peers[n])
      BY <1>1, <3>1, <3>2, SessionsAssumption DEF LowDialed, Alive, IInv, TypeOK
    <3> QED
      BY <1>2, <2>1, <3>2, <3>3 DEF LowAlone
  <2>3. ASSUME NEW y \in Sides, LowDialed(y[1]) PROVE pc'[y] \notin Ending /\ open'[y]
    <3>1. pc[y] \notin Ending /\ open[y]
      BY <2>1, <2>3, LowRunsBySide
    <3>2. y = x => where # "none"
      BY <1>1, <2>2, <2>3 DEF LowDialed
    <3> HIDE DEF x
    <3> QED
      BY <1>1, <1>3, <1>4, <3>1, <3>2 DEF IInv, TypeOK
  <2>4. \A d \in Conns : Alive(d)' => Alive(d)
    BY <1>1, <1>3 DEF Alive, IInv, TypeOK
  <2>5. (cut = {} /\ LowRuns /\ LowAlone)'
    BY <1>1, <2>1, <2>3, <2>4, LowKept
  <2>6. OnlyHighRetired'
    <3>1. ASSUME peers[n] # None, ShouldReplace(peers[n], opener[c])
          PROVE  opener[peers[n]] = High
      <4>1. opener[peers[n]] \in {Low, High} /\ opener[c] \in {Low, High}
        BY <3>1 DEF IInv, TypeOK
      <4> QED
        BY <3>1, <4>1, SessionsAssumption DEF ShouldReplace
    <3> QED
      BY <1>1, <1>5, <2>1, <3>1 DEF OnlyHighRetired, IInv, TypeOK
  <2> QED
    BY <2>5, <2>6
<1> QED
  BY <1>6, <1>7, <1>8 DEF IInv

LEMMA RetireStep ==
  ASSUME IInv, NEW c \in Conns, NEW n \in Nodes, Retire(c, n)
  PROVE  IInv'
<1> DEFINE x == <<c, n>>
<1>1. /\ pc[x] = "retire" /\ x \in Sides
      /\ pc' = [pc EXCEPT ![x] = "store"]
      /\ open' = [open EXCEPT ![<<found[x], n>>] = FALSE]
      /\ peers' = [peers EXCEPT ![n] = None]
      /\ found' = [found EXCEPT ![x] = None]
      /\ UNCHANGED <<statics, opener, static, cut, disruptions>>
  BY DEF Retire, Goto, Shut, Delete
<1>2. found[x] \in Conns
  BY <1>1 DEF IInv, FoundFirst, TypeOK
<1> HIDE DEF x
<1>3. TypeOK'
  <2>1. \A m \in Nodes : peers'[m] = None \/ pc'[<<peers'[m], m>>] \in {"serve", "unlist"}
    BY <1>1 DEF IInv, TypeOK
  <2> QED
    BY <1>1, <2>1 DEF IInv, TypeOK
<1>4. FoundFirst'
  BY <1>1 DEF IInv, FoundFirst, TypeOK
<1>5. ASSUME Undisturbed' PROVE (cut = {} /\ LowRuns /\ LowAlone /\ OnlyHighRetired)'
  <2>1. Undisturbed /\ cut = {} /\ LowRuns /\ LowAlone /\ OnlyHighRetired
    BY <1>1, <1>5 DEF IInv, Undisturbed
  <2>2. opener[found[x]] = High
    BY <1>1, <1>2, <2>1, Ids DEF OnlyHighRetired
  <2>3. ASSUME NEW y \in Sides, LowDialed(y[1]) PROVE pc'[y] \notin Ending /\ open'[y]
    <3>1. pc[y] \notin Ending /\ open[y]
      BY <2>1, <2>3, LowRunsBySide
    <3>2. y # <<found[x], n>>
      BY <2>2, <2>3, Ids DEF LowDialed
    <3> QED
      BY <1>1, <3>1, <3>2 DEF IInv, TypeOK
  <2>4. \A d \in Conns : Alive(d)' => Alive(d)
    BY <1>1 DEF Alive, IInv, TypeOK
  <2>5. (cut = {} /\ LowRuns /\ LowAlone)'
    BY <1>1, <2>1, <2>3, <2>4, LowKept
  <2>6. OnlyHighRetired'
    BY <1>1, <2>1 DEF OnlyHighRetired, IInv, TypeOK
  <2> QED
    BY <2>5, <2>6
<1> QED
  BY <1>3, <1>4, <1>5 DEF IInv

LEMMA ListStep ==
  ASSUME IInv, NEW c \in Conns, NEW n \in Nodes, List(c, n)
  PROVE  IInv'
<1> DEFINE x == <<c, n>>
<1>1. /\ pc[x] = "store" /\ x \in Sides
      /\ pc' = [pc EXCEPT ![x] = "serve"]
      /\ peers' = [peers EXCEPT ![n] = c]
      /\ UNCHANGED <<statics, opener, static, open, cut, found, disruptions>>
  BY DEF List, Goto
<1>2. TypeOK'
  <2>1. \A m \in Nodes : peers'[m] = None \/ pc'[<<peers'[m], m>>] \in {"serve", "unlist"}
    BY <1>1 DEF IInv, TypeOK
  <2> QED
    BY <1>1, <2>1 DEF IInv, TypeOK
<1> HIDE DEF x
<1>3. FoundFirst'
  BY <1>1 DEF IInv, FoundFirst, TypeOK
<1>4. ASSUME Undisturbed' PROVE (cut = {} /\ LowRuns /\ LowAlone /\ OnlyHighRetired)'
  <2>1. Undisturbed /\ cut = {} /\ LowRuns /\ LowAlone /\ OnlyHighRetired
    BY <1>1, <1>4 DEF IInv, Undisturbed
  <2>2. ASSUME NEW y \in Sides, LowDialed(y[1]) PROVE pc'[y] \notin Ending /\ open'[y]
    <3>1. pc[y] \notin Ending /\ open[y]
      BY <2>1, <2>2, LowRunsBySide
    <3> QED
      BY <1>1, <3>1 DEF IInv, TypeOK
  <2>3. \A d \in Conns : Alive(d)' => Alive(d)
    BY <1>1 DEF Alive, IInv, TypeOK
  <2>4. (cut = {} /\ LowRuns /\ LowAlone)'
    BY <1>1, <2>1, <2>2, <2>3, LowKept
  <2> QED
    BY <1>1, <2>1, <2>4 DEF OnlyHighRetired
<1> QED
  BY <1>2, <1>3, <1>4 DEF IInv

\* A goroutine that is to end, because its session is dead or for a reason of
\* its own.
LEMMA DropTypes ==
  ASSUME IInv, NEW c \in Conns, NEW n \in Nodes,
         pc[<<c, n>>] = "serve", DropPeer(c, n),
         UNCHANGED <<statics, opener, static, cut, found, peers>>,
         disruptions' \in 0..MaxDisruptions
  PROVE  TypeOK' /\ FoundFirst'
<1>1. PICK where \in Ending :
        /\ pc' = [pc EXCEPT ![<<c, n>>] = where]
        /\ where = "none" => peers[n] # c
        /\ open' = open \/ open' = [open EXCEPT ![<<c, n>>] = FALSE]
  BY DEF DropPeer, Exit, Goto, Shut
<1>2. \A m \in Nodes : peers'[m] = None \/ pc'[<<peers'[m], m>>] \in {"serve", "unlist"}
  BY <1>1 DEF IInv, TypeOK
<1>3. TypeOK'
  BY <1>1, <1>2 DEF IInv, TypeOK
<1>4. FoundFirst'
  BY <1>1 DEF IInv, FoundFirst, TypeOK
<1> QED
  BY <1>3, <1>4

\* Steps of a goroutine that ends leave what is said of the sessions of Low.
LEMMA LowKeptByExit ==
  ASSUME IInv, NEW c \in Conns, NEW n \in Nodes, NEW where \in Ending,
         Undisturbed, opener[c] # Low, pc[<<c, n>>] # "none",
         pc' = [pc EXCEPT ![<<c, n>>] = where],
         open' = open \/ open' = [open EXCEPT ![<<c, n>>] = FALSE],
         UNCHANGED <<opener, static, cut, found>>
  PROVE  (cut = {} /\ LowRuns /\ LowAlone /\ OnlyHighRetired)'
<1> DEFINE x == <<c, n>>
<1>1. cut = {} /\ LowRuns /\ LowAlone /\ OnlyHighRetired
  BY DEF IInv
<1>2. x \in Sides /\ x[1] = c /\ pc[x] # "none" /\ pc' = [pc EXCEPT ![x] = where]
      /\ (open' = open \/ open' = [open EXCEPT ![x] = FALSE])
  OBVIOUS
<1>3. ASSUME NEW y \in Sides, LowDialed(y[1]) PROVE pc'[y] \notin Ending /\ open'[y]
  <2>1. pc[y] \notin Ending /\ open[y]
    BY <1>1, <1>3, LowRunsBySide
  <2>2. y # x
    BY <1>2, <1>3 DEF LowDialed
  <2> HIDE DEF x
  <2> QED
    BY <1>2, <2>1, <2>2 DEF IInv, TypeOK
<1>4. \A d \in Conns : Alive(d)' => Alive(d)
  BY <1>2 DEF Alive, IInv, TypeOK
<1>5. (cut = {} /\ LowRuns /\ LowAlone)'
  BY <1>3, <1>4, LowKept
<1> QED
  BY <1>1, <1>5 DEF OnlyHighRetired

LEMMA LeaveStep ==
  ASSUME IInv, NEW c \in Conns, NEW n \in Nodes, Leave(c, n)
  PROVE  IInv'
<1>1. TypeOK' /\ FoundFirst'
  BY DropTypes DEF Leave, IInv, TypeOK
<1>2. ASSUME Undisturbed' PROVE (cut = {} /\ LowRuns /\ LowAlone /\ OnlyHighRetired)'
  <2>1. Undisturbed /\ cut = {} /\ LowRuns
    BY <1>2 DEF Leave, IInv, Undisturbed
  <2>2. ASSUME opener[c] = Low PROVE FALSE
    <3>1. LowDialed(c)
      BY <2>2 DEF Leave, LowDialed, Alive
    <3>2. open[<<c, n>>] /\ open[<<c, Other(n)>>]
      BY <2>1, <3>1 DEF LowRuns, Other
    <3> QED
      BY <2>1, <3>2 DEF Leave, Dead
  <2>3. PICK where \in Ending :
          /\ pc' = [pc EXCEPT ![<<c, n>>] = where]
          /\ open' = open \/ open' = [open EXCEPT ![<<c, n>>] = FALSE]
    BY DEF Leave, DropPeer, Exit, Goto, Shut
  <2>4. pc[<<c, n>>] # "none" /\ UNCHANGED <<opener, static, cut, found>>
    BY DEF Leave
  <2> QED
    BY <2>1, <2>2, <2>3, <2>4, LowKeptByExit
<1> QED
  BY <1>1, <1>2 DEF IInv

LEMMA UnlistStep ==
  ASSUME IInv, NEW c \in Conns, NEW n \in Nodes, Unlist(c, n)
  PROVE  IInv'
<1>1. /\ pc[<<c, n>>] = "unlist"
      /\ pc' = [pc EXCEPT ![<<c, n>>] = "none"]
      /\ open' = [open EXCEPT ![<<c, n>>] = FALSE]
      /\ peers' = [peers EXCEPT ![n] = None]
      /\ UNCHANGED <<statics, opener, static, cut, found, disruptions>>
  BY DEF Unlist, Delete, Exit, Goto, Shut
<1>2. TypeOK'
  <2>1. \A m \in Nodes : peers'[m] = None \/ pc'[<<peers'[m], m>>] \in {"serve", "unlist"}
    BY <1>1 DEF IInv, TypeOK
  <2> QED
    BY <1>1, <2>1 DEF IInv, TypeOK
<1>3. FoundFirst'
  BY <1>1 DEF IInv, FoundFirst, TypeOK
<1>4. ASSUME Undisturbed' PROVE (cut = {} /\ LowRuns /\ LowAlone /\ OnlyHighRetired)'
  <2>1. Undisturbed /\ LowRuns
    BY <1>1, <1>4 DEF IInv, Undisturbed
  <2>2. opener[c] # Low
    BY <1>1, <2>1 DEF LowRuns, LowDialed, Alive
  <2> QED
    BY <1>1, <2>1, <2>2, LowKeptByExit
<1> QED
  BY <1>2, <1>3, <1>4 DEF IInv

\* What ends a session from outside counts, and nothing is promised from then on.
LEMMA Counted == ASSUME IInv, Disrupt
                 PROVE  disruptions' \in 0..MaxDisruptions /\ ~Undisturbed'
<1>1. disruptions \in Nat /\ disruptions < MaxDisruptions /\ disruptions' = disruptions + 1
  BY SessionsAssumption DEF Disrupt, IInv, TypeOK
<1> QED
  BY <1>1, SessionsAssumption DEF Undisturbed

LEMMA HangUpStep ==
  ASSUME IInv, NEW c \in Conns, NEW n \in Nodes, HangUp(c, n)
  PROVE  IInv'
<1>1. disruptions' \in 0..MaxDisruptions /\ ~Undisturbed'
  BY Counted DEF HangUp
<1>2. TypeOK' /\ FoundFirst'
  BY <1>1, DropTypes DEF HangUp
<1> QED
  BY <1>1, <1>2 DEF IInv

LEMMA CutStep ==
  ASSUME IInv, NEW c \in Conns, Cut(c)
  PROVE  IInv'
<1>1. disruptions' \in 0..MaxDisruptions /\ ~Undisturbed'
  BY Counted DEF Cut
<1>2. TypeOK' /\ FoundFirst'
  BY <1>1 DEF Cut, IInv, TypeOK, FoundFirst
<1> QED
  BY <1>1, <1>2 DEF IInv

LEMMA RestartStep ==
  ASSUME IInv, NEW n \in Nodes, Restart(n)
  PROVE  IInv'
<1>1. disruptions' \in 0..MaxDisruptions /\ ~Undisturbed'
  BY Counted DEF Restart
<1>2. \A m \in Nodes : peers'[m] = None \/ pc'[<<peers'[m], m>>] \in {"serve", "unlist"}
  BY DEF Restart, IInv, TypeOK
<1>3. TypeOK' /\ FoundFirst'
  BY <1>1, <1>2 DEF Restart, IInv, TypeOK, FoundFirst
<1> QED
  BY <1>1, <1>3 DEF IInv

-----------------------------------------------------------------------------

LEMMA NextIInv == IInv /\ [Next]_vars => IInv'
<1> SUFFICES ASSUME IInv, [Next]_vars PROVE IInv'
  OBVIOUS
<1>1. ASSUME NEW n \in Nodes, NEW s \in BOOLEAN, Dial(n, s) PROVE IInv'
  BY <1>1, DialStep
<1>2. ASSUME NEW c \in Conns, NEW n \in Nodes, Step(c, n) PROVE IInv'
  BY <1>2, LoadStep, RetireStep, ListStep, LeaveStep, UnlistStep DEF Step
<1>3. ASSUME NEW c \in Conns, NEW n \in Nodes, HangUp(c, n) PROVE IInv'
  BY <1>3, HangUpStep
<1>4. ASSUME NEW c \in Conns, Cut(c) PROVE IInv'
  BY <1>4, CutStep
<1>5. ASSUME NEW n \in Nodes, Restart(n) PROVE IInv'
  BY <1>5, RestartStep
<1>6. CASE UNCHANGED vars
  BY <1>6 DEF vars, IInv, TypeOK, FoundFirst, Undisturbed, LowRuns, LowAlone,
              LowDialed, Alive, OnlyHighRetired
<1> QED
  BY <1>1, <1>2, <1>3, <1>4, <1>5, <1>6 DEF Next

\* However the goroutines of the two daemons interleave, and however many
\* sessions they run at once, the one that Low dialed is never closed by
\* either side (daemon.go:351-358, 607-618, 817-824).
THEOREM LowSessionStands == Spec => []LowStands
<1>1. IInv => LowStands
  BY DEF IInv, Undisturbed, LowRuns, LowDialed, LowStands
<1> QED
  BY InitIInv, NextIInv, <1>1, PTL DEF Spec

\* The variables keep their types, and whatever session a daemon lists, a
\* goroutine serves and will unlist.
THEOREM SessionsTypes == Spec => []TypeOK
<1>1. IInv => TypeOK
  BY DEF IInv
<1> QED
  BY InitIInv, NextIInv, <1>1, PTL DEF Spec
=============================================================================
