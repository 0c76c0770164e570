----------------------------- MODULE Rendezvous -----------------------------
(***************************************************************************)
(* What a punch promises: of many connections between two ends, the one    *)
(* end commits to one, and the other serves that one or none.              *)
(***************************************************************************)
CONSTANTS Pairs, None

VARIABLES mine,    \* the connection the dialer runs its session on
          yours    \* the one the acceptor serves

meeting == <<mine, yours>>

Init == mine = None /\ yours = None

Commit == mine = None /\ mine' \in Pairs /\ UNCHANGED yours

Serve == yours = None /\ mine # None /\ yours' = mine /\ UNCHANGED mine

Next == Commit \/ Serve

Spec == Init /\ [][Next]_meeting
=============================================================================
