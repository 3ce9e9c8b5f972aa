------------------------------- MODULE MCDag --------------------------------
(* Dag on every ancestry of a small set of events.                         *)
EXTENDS Dag

\* Ids fall along every path, so that sorting by id alone is wrong: each
\* ancestry is there up to the names of its events.
MCGraph ==
    {g \in [Event -> SUBSET Event] : \A e \in Event : \A p \in g[e] : e < p}
=============================================================================
