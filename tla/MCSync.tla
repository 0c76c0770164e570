------------------------------- MODULE MCSync -------------------------------
(***************************************************************************)
(* The sync engine under TLC: two repositories.                            *)
(***************************************************************************)
EXTENDS Sync

CONSTANTS n1, n2

BothWays == {<<n1, n2>>, <<n2, n1>>}
OneWay == {<<n1, n2>>}
=============================================================================
