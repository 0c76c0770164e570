------------------------------- MODULE MCMux -------------------------------
(***************************************************************************)
(* The multiplexer under TLC.  In half of the behaviours the applications  *)
(* are polite, as the sync engine is: requests and answers on the control  *)
(* stream 1, which the dialer opens, objects on the one-way stream 2, which *)
(* the responder opens, and no resets.                                     *)
(***************************************************************************)
EXTENDS Mux, TLC

CONSTANTS A, B      \* the dialer and the responder

\* The numbers keep the odd/even split of the two ends' ids.
TwoStreams == (A :> {1} @@ B :> {2})
=============================================================================
