----------------------------- MODULE MCServices -----------------------------
(***************************************************************************)
(* Services under TLC: two sends and two uploads for one name in inbox/.   *)
(***************************************************************************)
EXTENDS Services

CONSTANTS s1, s2, u1, u2

MCSender == [s \in Sends |-> "peer"]
MCWanted == [s \in Sends |-> "f"]
MCParts  == [u \in Uploads |-> IF u = u1 THEN <<"f">> ELSE <<"bad">>]
=============================================================================
