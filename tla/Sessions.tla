------------------------------ MODULE Sessions ------------------------------
(***************************************************************************)
(* Two daemons and the sessions between them (internal/daemon): who dials, *)
(* which of several sessions is kept, and what becomes of the others.      *)
(*                                                                         *)
(* Each daemon runs one goroutine per session, serveDialer on the side     *)
(* that dialed and handleInbound on the other, and lists the session it    *)
(* takes for the peer's in its peers map.  The map is shared: a goroutine  *)
(* consults it and changes it in separate steps.                           *)
(*                                                                         *)
(* A daemon is its PeerID, a number.  A connection is a slot, used again   *)
(* once both of its goroutines are gone.                                   *)
(***************************************************************************)
EXTENDS Naturals, FiniteSets

CONSTANTS
  Low, High,       \* the two PeerIDs
  Conns,           \* slots for connections (bound: those that exist at once)
  Configs,         \* sets of daemons that may be given the other's address (--peer)
  MaxDisruptions   \* bound on what ends a session from outside

None == 0

ASSUME SessionsAssumption ==
  /\ {Low, High, MaxDisruptions} \subseteq Nat /\ Low < High
  /\ Conns \subseteq Nat \ {None}
  /\ Configs \subseteq SUBSET {Low, High}

Nodes == {Low, High}
Sides == Conns \X Nodes
Other(n) == IF n = Low THEN High ELSE Low

VARIABLES
  statics,     \* the daemons that were given the other's address
  opener,      \* who dialed each connection
  static,      \* was it dialed as a static peer?
  pc,          \* what the goroutine of each side is about to do
  open,        \* has the side not closed its session?
  cut,         \* connections the network lost
  found,       \* the listed session each goroutine is to retire
  peers,       \* the peers map: the session each daemon lists for the other
  disruptions

vars == <<statics, opener, static, pc, open, cut, found, peers, disruptions>>

\* A listed session is one whose goroutine runs, and will unlist it.
TypeOK ==
  /\ statics \in Configs
  /\ opener \in [Conns -> Nodes] /\ static \in [Conns -> BOOLEAN]
  /\ pc \in [Sides -> {"none", "load", "retire", "store", "serve", "unlist"}]
  /\ open \in [Sides -> BOOLEAN]
  /\ cut \subseteq Conns
  /\ found \in [Sides -> Conns \union {None}]
  /\ peers \in [Nodes -> Conns \union {None}]
  /\ \A n \in Nodes : peers[n] = None \/ pc[<<peers[n], n>>] \in {"serve", "unlist"}
  /\ disruptions \in 0..MaxDisruptions

Init ==
  /\ statics \in Configs
  /\ opener = [c \in Conns |-> Low] /\ static = [c \in Conns |-> FALSE]
  /\ pc = [x \in Sides |-> "none"]
  /\ open = [x \in Sides |-> FALSE]
  /\ cut = {}
  /\ found = [x \in Sides |-> None]
  /\ peers = [n \in Nodes |-> None]
  /\ disruptions = 0

Alive(c) == \E n \in Nodes : pc[<<c, n>>] # "none"

\* Mutant: no keepalive, and nothing to tell a lost connection from an idle one.
DeadNoKeepalive(c, n) == ~open[<<c, n>>] \/ ~open[<<c, Other(n)>>]

\* What a side notices of its session: closed here, closed there, or silent
\* for longer than a ping may take.
Dead(c, n) == ~open[<<c, n>>] \/ ~open[<<c, Other(n)>>] \/ c \in cut

-----------------------------------------------------------------------------
(* Dialing                                                                 *)

\* dialMu holds an entry per peer, and one per static address, for as long as
\* the goroutine of the session lives.
Dialing(n, s) ==
  \E c \in Conns : opener[c] = n /\ static[c] = s /\ pc[<<c, n>>] # "none"

\* A known peer is dialed when no session is listed for it, a static one when
\* no listed session goes to its address: one the peer dialed comes from
\* another port.
Connected(n, s) == \E c \in Conns : peers[n] = c /\ (s => opener[c] = n)

Free(c) == ~Alive(c) /\ \A x \in Sides : found[x] # c

\* dialKnownPeers: a round by the clock, by a new commit, by a lost session.
Dial(n, s) ==
  /\ s => n \in statics
  /\ ~Connected(n, s) /\ ~Dialing(n, s)
  /\ \E c \in Conns :
       /\ Free(c) /\ \A d \in Conns : Free(d) => c <= d
       /\ opener' = [opener EXCEPT ![c] = n]
       /\ static' = [static EXCEPT ![c] = s]
       /\ pc' = [x \in Sides |-> IF x[1] = c THEN "load" ELSE pc[x]]
       /\ open' = [x \in Sides |-> IF x[1] = c THEN TRUE ELSE open[x]]
       /\ cut' = cut \ {c}
  /\ UNCHANGED <<statics, found, peers, disruptions>>

-----------------------------------------------------------------------------
(* serveDialer and handleInbound                                           *)

Goto(c, n, where) == pc' = [pc EXCEPT ![<<c, n>>] = where]
Shut(c, n) == open' = [open EXCEPT ![<<c, n>>] = FALSE]

\* Mutant: the newest session wins.
ShouldReplaceAlways(existing, initiator) == TRUE

\* shouldReplace
ShouldReplace(existing, initiator) == initiator < opener[existing]

\* Look the peer up, and give way or not to the session listed for it.
Load(c, n) ==
  LET existing == peers[n]
  IN  /\ pc[<<c, n>>] = "load"
      /\ \/ /\ existing = None
            /\ Goto(c, n, "store")
            /\ UNCHANGED <<open, found>>
         \/ /\ existing # None /\ ShouldReplace(existing, opener[c])
            /\ Goto(c, n, "retire")
            /\ found' = [found EXCEPT ![<<c, n>>] = existing]
            /\ UNCHANGED open
         \/ /\ existing # None /\ ~ShouldReplace(existing, opener[c])
            /\ Goto(c, n, "none")
            /\ Shut(c, n)
            /\ UNCHANGED found
      /\ UNCHANGED <<statics, opener, static, cut, peers, disruptions>>

Delete(n) == peers' = [peers EXCEPT ![n] = None]

\* Close the session that was found, and delete whatever is listed by now.
Retire(c, n) ==
  /\ pc[<<c, n>>] = "retire"
  /\ Shut(found[<<c, n>>], n)
  /\ Delete(n)
  /\ found' = [found EXCEPT ![<<c, n>>] = None]
  /\ Goto(c, n, "store")
  /\ UNCHANGED <<statics, opener, static, cut, disruptions>>

\* List the session and serve it: the sync, then keepalive on one side and the
\* serve loop on the other.
List(c, n) ==
  /\ pc[<<c, n>>] = "store"
  /\ peers' = [peers EXCEPT ![n] = c]
  /\ Goto(c, n, "serve")
  /\ UNCHANGED <<statics, opener, static, open, cut, found, disruptions>>

Exit(c, n) == Goto(c, n, "none") /\ Shut(c, n)

\* dropPeer, its two halves: look the peer up, and delete whatever is listed
\* for it if the session was.  The side that dialed closes the session after
\* that, the other one before.
DropPeer(c, n) ==
  \/ /\ peers[n] = c
     /\ Goto(c, n, "unlist")
     /\ IF opener[c] = n THEN UNCHANGED open ELSE Shut(c, n)
  \/ peers[n] # c /\ Exit(c, n)

\* The session is dead: a closed connection ends the read loop, a lost one
\* the ping or the transport's own timeout.
Leave(c, n) ==
  /\ pc[<<c, n>>] = "serve" /\ Dead(c, n)
  /\ DropPeer(c, n)
  /\ UNCHANGED <<statics, opener, static, cut, found, peers, disruptions>>

Unlist(c, n) ==
  /\ pc[<<c, n>>] = "unlist"
  /\ Delete(n)
  /\ Exit(c, n)
  /\ UNCHANGED <<statics, opener, static, cut, found, disruptions>>

-----------------------------------------------------------------------------
(* What ends a session from outside                                        *)

\* (Bound: only where no daemon was given an address.)
Disrupt ==
  /\ disruptions < MaxDisruptions /\ statics = {}
  /\ disruptions' = disruptions + 1

\* The sync fails, or either side hangs up to dial again for newer history.
HangUp(c, n) ==
  /\ pc[<<c, n>>] = "serve" /\ ~Dead(c, n)
  /\ Disrupt
  /\ DropPeer(c, n)
  /\ UNCHANGED <<statics, opener, static, cut, found, peers>>

Cut(c) ==
  /\ Alive(c) /\ c \notin cut
  /\ Disrupt
  /\ cut' = cut \union {c}
  /\ UNCHANGED <<statics, opener, static, pc, open, found, peers>>

\* A daemon dies and starts again with an empty map.
Restart(n) ==
  /\ Disrupt
  /\ pc' = [x \in Sides |-> IF x[2] = n THEN "none" ELSE pc[x]]
  /\ open' = [x \in Sides |-> IF x[2] = n THEN FALSE ELSE open[x]]
  /\ found' = [x \in Sides |-> IF x[2] = n THEN None ELSE found[x]]
  /\ peers' = [peers EXCEPT ![n] = None]
  /\ UNCHANGED <<statics, opener, static, cut>>

-----------------------------------------------------------------------------

Step(c, n) ==
  Load(c, n) \/ Retire(c, n) \/ List(c, n) \/ Leave(c, n) \/ Unlist(c, n)

Next ==
  \/ \E n \in Nodes, s \in BOOLEAN : Dial(n, s)
  \/ \E c \in Conns, n \in Nodes : Step(c, n) \/ HangUp(c, n)
  \/ \E c \in Conns : Cut(c)
  \/ \E n \in Nodes : Restart(n)

\* Goroutines run, and every daemon goes on making dial rounds.
Fairness ==
  /\ \A c \in Conns, n \in Nodes : WF_vars(Step(c, n))
  /\ \A n \in Nodes : WF_vars(Dial(n, FALSE))

Spec == Init /\ [][Next]_vars /\ Fairness

-----------------------------------------------------------------------------
(* Properties                                                              *)

Usable(c) == c \notin cut /\ \A n \in Nodes : open[<<c, n>>]

Live(c) == Usable(c) /\ \A n \in Nodes : pc[<<c, n>>] = "serve"

\* Of sessions dialed at once, the one the lower PeerID dialed stands on both
\* sides, whatever the order in which the two look their maps up and change
\* them (daemon.go:351-358; docs/PROTOCOL.md:101).  A lower daemon that was also
\* given the address may dial twice, and two sessions of one dialer are a tie.
LowStands ==
  disruptions = 0 /\ Low \notin statics =>
    \A c \in Conns : opener[c] = Low /\ Alive(c) => \A n \in Nodes : open[<<c, n>>]

\* Two daemons that found each other always come to share a session again,
\* whatever died and however stale the maps (daemon.go:345-349, 722-788).
Reconnects == statics = {} => []<>(\E c \in Conns : Live(c))

\* No daemon is left with a dead session in its map, where it would keep the
\* peer from being dialed (daemon.go:345-349).
DeadUnlisted == \A n \in Nodes : []<>(peers[n] = None \/ Usable(peers[n]))

\* "A replaced session must never evict its successor" (daemon.go:343-344).
SuccessorStays ==
  [][\A c \in Conns, n \in Nodes : Unlist(c, n) => peers[n] \in {c, None}]_vars

\* "Simultaneous cross-dials converge on ONE connection" (daemon.go:354).
Converges == <>[](Cardinality({c \in Conns : Live(c)}) = 1)
=============================================================================
