---------------------------- MODULE MCBroadcast -----------------------------
(* One click and two resets, the first of which the second may make          *)
(* pointless, with two rounds.  The job of the click has two events.         *)
EXTENDS Broadcast

MCEvents == [j \in Job |-> IF j[1] \in Click THEN 2 ELSE 1]
=============================================================================
