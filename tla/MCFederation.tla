---------------------------- MODULE MCFederation ----------------------------
(* Two daemons, two chat messages and as many acknowledgements as a run    *)
(* without restarts can need.                                              *)
EXTENDS Federation, TLC

MCSymmetry == Permutations(Daemon)
=============================================================================
