------------------------------- MODULE MCPage --------------------------------
(* Two calls of the start handler, two GPU devices, a range of one key.     *)
EXTENDS SearchPage, TLC

MCSymmetry == Permutations(Device) \cup Permutations(Loop)
=============================================================================
