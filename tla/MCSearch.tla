------------------------------ MODULE MCSearch -------------------------------
(* The coordinator with small workgroups, strides and key ranges.          *)
EXTENDS SearchCoordinator, TLC

MCSymmetry == Permutations(Device)
=============================================================================
