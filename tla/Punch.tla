------------------------------- MODULE Punch -------------------------------
(***************************************************************************)
(* Hole punching (internal/punch) and the handshake over what it opens     *)
(* (internal/transport). The dialer sprays connections at the acceptor's   *)
(* ports and keeps the first that opens (PunchDial); the acceptor answers  *)
(* the handshake on whatever lands and keeps the first on which it         *)
(* succeeds (PunchAccept). A pair is a port of the one and a port of the   *)
(* other: what one end does to a pair's connection the other finds out by  *)
(* reading from it.                                                        *)
(***************************************************************************)
EXTENDS Integers, FiniteSets

CONSTANTS Pairs,       \* pairs of ports, one of each end
          MaxRounds    \* bound: rounds of the spray

None == "none"

ASSUME PairsAssumption == None \notin Pairs

VARIABLES dial,        \* the dialing goroutine of each pair, and its socket
          land,        \* the acceptor's goroutine of each pair
          shut,        \* the pairs whose socket the acceptor closed
          said,        \* handshake messages on each pair: 0 to 3
          hole,        \* the pairs the acceptor's hole-openers are dialing
          dialer, acceptor

punchVars == <<dial, land, shut, said, hole, dialer, acceptor>>

PunchInit(busy) ==
  /\ dial = [p \in Pairs |-> "none"]
  /\ land = [p \in Pairs |-> "none"]
  /\ shut = {} /\ said = [p \in Pairs |-> 0]
  /\ hole = IF busy THEN Pairs ELSE {}
  /\ dialer = [at |-> IF busy THEN "spray" ELSE "failed", won |-> None, keep |-> None,
               round |-> 1]
  /\ acceptor = [at |-> IF busy THEN "open" ELSE "failed", keep |-> None, winner |-> None]

Dial(p, at) == dial' = [dial EXCEPT ![p] = at]
Land(p, at) == land' = [land EXCEPT ![p] = at]
Say(p, n)   == said' = [said EXCEPT ![p] = n]

Closing == acceptor.at # "open"     \* the channel done is closed
OpenEnd == {"up", "won", "reported"}

-----------------------------------------------------------------------------
(* The dialer: a goroutine for each pair, and the loop.                     *)

Spray(p) ==
  /\ dialer.at = "spray" /\ dialer.won = None /\ dial[p] = "none"
  /\ Dial(p, "dialing")
  /\ UNCHANGED <<land, shut, said, hole, dialer, acceptor>>

\* It lands on a port where the acceptor listens, or meets the acceptor's own
\* dial from there, or neither in its time.
DialOnce(p) ==
  /\ dial[p] = "dialing"
  /\ \/ Dial(p, "up") /\ acceptor.at = "open" /\ Land(p, "offer") /\ UNCHANGED hole
     \/ Dial(p, "up") /\ p \in hole /\ Land(p, "probe") /\ hole' = hole \ {p}
     \/ Dial(p, "over") /\ UNCHANGED <<land, hole>>
  /\ UNCHANGED <<shut, said, dialer, acceptor>>

\* Mutant: the flag is read by one step and set by another.
WinLate(p) ==
  /\ \/ dial[p] = "up" /\ Dial(p, IF dialer.won # None THEN "over" ELSE "won") /\ UNCHANGED dialer
     \/ dial[p] = "won" /\ Dial(p, "reported") /\ dialer' = [dialer EXCEPT !.won = p]
  /\ UNCHANGED <<land, shut, said, hole, acceptor>>

\* Compare and swap, then the result is sent; who lost closes.
Win(p) ==
  /\ \/ /\ dial[p] = "up" /\ dialer.won = None
        /\ Dial(p, "won") /\ dialer' = [dialer EXCEPT !.won = p]
     \/ dial[p] = "up" /\ dialer.won # None /\ Dial(p, "over") /\ UNCHANGED dialer
     \/ dial[p] = "won" /\ Dial(p, "reported") /\ UNCHANGED dialer
  /\ UNCHANGED <<land, shut, said, hole, acceptor>>

TakeWinner(p) ==
  /\ dialer.at = "spray" /\ dial[p] = "reported"
  /\ dialer' = [dialer EXCEPT !.at = "join", !.keep = p]
  /\ UNCHANGED <<dial, land, shut, said, hole, acceptor>>

\* The timer of a round, even when the winner is about to report or has: the
\* next round, or the end of the spray. A pair that failed is dialed again.
Round ==
  /\ dialer.at = "spray"
  /\ \/ /\ dialer.won = None /\ dialer.round < MaxRounds
        /\ dialer' = [dialer EXCEPT !.round = @ + 1]
        /\ dial' = [p \in Pairs |-> IF dial[p] = "over" /\ land[p] = "none" THEN "none"
                                    ELSE dial[p]]
     \/ /\ dialer.won # None \/ dialer.round = MaxRounds
        /\ dialer' = [dialer EXCEPT !.at = "quit"]
        /\ UNCHANGED dial
  /\ UNCHANGED <<land, shut, said, hole, acceptor>>

\* wg.Wait: every goroutine has ended.
Join ==
  /\ dialer.at \in {"join", "quit"}
  /\ \A p \in Pairs : dial[p] \notin {"dialing", "up", "won"}
  /\ dialer' = [dialer EXCEPT !.at = IF @ = "join" THEN "hello" ELSE "failed"]
  /\ UNCHANGED <<dial, land, shut, said, hole, acceptor>>

\* The initiator's handshake: it speaks first and last.
InitiatorHandshake ==
  LET p == dialer.keep
  IN  /\ \/ /\ dialer.at = "hello" /\ Say(p, 1)
            /\ dialer' = [dialer EXCEPT !.at = "wait"]
         \/ /\ dialer.at = "wait" /\ said[p] = 2 /\ Say(p, 3)
            /\ dialer' = [dialer EXCEPT !.at = "up"]
         \/ /\ dialer.at = "wait"    \* closed, or its ten seconds are over
            /\ dialer' = [dialer EXCEPT !.at = "failed"] /\ UNCHANGED said
      /\ UNCHANGED <<dial, land, shut, hole, acceptor>>

-----------------------------------------------------------------------------
(* The acceptor.                                                            *)

\* A hole-opener whose dial met nobody's, or landed where the dialer throws
\* away what it accepts.
HoleCloses(p) ==
  /\ p \in hole /\ hole' = hole \ {p}
  /\ UNCHANGED <<dial, land, shut, said, dialer, acceptor>>

\* Half a second is given to the first byte on a dial that was met.
Probe(p) ==
  /\ land[p] = "probe"
  /\ IF said[p] > 0 THEN Land(p, "offer") /\ UNCHANGED shut
                    ELSE Land(p, "over") /\ shut' = shut \union {p}
  /\ UNCHANGED <<dial, said, hole, dialer, acceptor>>

\* A landed connection goes to the loop, or is closed; the select takes
\* either when both can be done.
Offer(p) ==
  /\ land[p] = "offer"
  /\ \/ Land(p, "queued") /\ UNCHANGED shut
     \/ Closing /\ Land(p, "over") /\ shut' = shut \union {p}
  /\ UNCHANGED <<dial, said, hole, dialer, acceptor>>

Accept(p) ==
  /\ acceptor.at = "open" /\ land[p] = "queued" /\ Land(p, "listen")
  /\ UNCHANGED <<dial, shut, said, hole, dialer, acceptor>>

\* Mutant: a connection is good as soon as something is said on it.
ValidateEarly(p) ==
  /\ land[p] = "listen" /\ p \notin shut /\ said[p] = 1
  /\ Say(p, 2) /\ Land(p, "valid") /\ acceptor' = [acceptor EXCEPT !.winner = p]
  /\ UNCHANGED <<dial, shut, hole, dialer>>

\* The validator is the responder's handshake. The daemon keeps the last
\* connection on which it succeeded (winner).
Validate(p) ==
  /\ p \notin shut
  /\ \/ land[p] = "listen" /\ said[p] = 1 /\ Say(p, 2) /\ Land(p, "answered")
        /\ UNCHANGED acceptor
     \/ land[p] = "answered" /\ said[p] = 3 /\ Land(p, "valid")
        /\ acceptor' = [acceptor EXCEPT !.winner = p] /\ UNCHANGED said
  /\ UNCHANGED <<dial, shut, hole, dialer>>

\* The dialer closed it, or the acceptor did, or nothing was said for ten
\* seconds.
Reject(p) ==
  /\ \/ land[p] = "listen" /\ said[p] = 0
     \/ land[p] = "answered" /\ said[p] = 2
     \/ land[p] \in {"listen", "answered"} /\ p \in shut
  /\ Land(p, "over") /\ shut' = shut \union {p}
  /\ UNCHANGED <<dial, said, hole, dialer, acceptor>>

\* What was validated goes to the loop, or is closed when done is.
Deliver(p) ==
  /\ land[p] = "valid"
  /\ \/ Land(p, "delivered") /\ UNCHANGED shut
     \/ Closing /\ Land(p, "over") /\ shut' = shut \union {p}
  /\ UNCHANGED <<dial, said, hole, dialer, acceptor>>

\* closeLive: every connection the loop has taken, but one.
CloseLive(keep) ==
  shut' = shut \union ({p \in Pairs : land[p] \in {"listen", "answered", "valid", "delivered"}}
                       \ {keep})

TakeValid(p) ==
  /\ acceptor.at = "open" /\ land[p] = "delivered"
  /\ acceptor' = [acceptor EXCEPT !.at = "wait", !.keep = p]
  /\ Land(p, "kept") /\ CloseLive(p)
  /\ UNCHANGED <<dial, said, hole, dialer>>

\* The window is over, even when a connection was just validated.
Window ==
  /\ acceptor.at = "open"
  /\ acceptor' = [acceptor EXCEPT !.at = "quit"]
  /\ CloseLive(None)
  /\ UNCHANGED <<dial, land, said, hole, dialer>>

\* teardown closes what is queued then; what is queued later stays.
Drain(p) ==
  /\ acceptor.at \in {"wait", "quit"} /\ land[p] = "queued"
  /\ Land(p, "over") /\ shut' = shut \union {p}
  /\ UNCHANGED <<dial, said, hole, dialer, acceptor>>

WaitDone ==
  /\ acceptor.at \in {"wait", "quit"}
  /\ \A p \in Pairs : land[p] \notin {"listen", "answered", "valid"}
  /\ acceptor' = [acceptor EXCEPT !.at = IF @ = "wait" THEN "up" ELSE "failed"]
  /\ shut' = shut \union {p \in Pairs : land[p] = "delivered"}
  /\ UNCHANGED <<dial, land, said, hole, dialer>>

-----------------------------------------------------------------------------

PunchNext ==
  \/ \E p \in Pairs :
       \/ Spray(p) \/ DialOnce(p) \/ Win(p) \/ TakeWinner(p)
       \/ HoleCloses(p) \/ Probe(p) \/ Offer(p) \/ Accept(p) \/ Validate(p) \/ Reject(p)
       \/ Deliver(p) \/ TakeValid(p) \/ Drain(p)
  \/ Round \/ Join \/ InitiatorHandshake \/ Window \/ WaitDone

PunchSpec == PunchInit(TRUE) /\ [][PunchNext]_punchVars

\* The acceptor serves a session only on the connection the dialer committed
\* to and runs its own on, however many landed.
Meeting ==
  INSTANCE Rendezvous WITH
    mine  <- IF dialer.at = "up" THEN dialer.keep ELSE None,
    yours <- IF acceptor.at = "up" THEN acceptor.winner ELSE None

Meets == Meeting!Spec

\* When PunchDial hands a connection over, none of the others it opened is
\* still open at its end.
OneLeft ==
  dialer.at \in {"hello", "wait", "up"} =>
    {p \in Pairs : dial[p] \in OpenEnd} = {dialer.keep}

\* "spray-dial ... until one connects or the window closes" (punch.go): who
\* gives up has opened none.
OneConnects ==
  dialer.at = "failed" /\ dialer.keep = None =>
    \A p \in Pairs : dial[p] \notin OpenEnd
=============================================================================
