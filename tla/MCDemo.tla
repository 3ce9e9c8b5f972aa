------------------------------- MODULE MCDemo -------------------------------
(* Two pages with few events and snapshots.                                *)
EXTENDS DemoPage, TLC

MCSymmetry == Permutations(Page) \cup Permutations(Event)
=============================================================================
