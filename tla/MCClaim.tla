------------------------------ MODULE MCClaim ------------------------------
(* Two hits, two overlapping drains, one reload.  The amounts are scaled   *)
(* down: a payment of 20, dust of 2, and transactions of 4 to 6 units; the *)
(* inputs lie around each boundary.                                        *)
EXTENDS Claim
=============================================================================
