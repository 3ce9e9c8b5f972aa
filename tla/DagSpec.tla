------------------------------ MODULE DagSpec -------------------------------
(***************************************************************************)
(* What a Dag promises its users: its contents are a function of the set   *)
(* of events it has received, so two replicas that received the same       *)
(* events agree, whatever the order and however the parents were missing.  *)
(***************************************************************************)
EXTENDS EventGraph

CONSTANT Graph      \* the ancestries considered

VARIABLES
    parents,        \* the tags of every event, fixed when it is signed
    author,         \* the key that signs every event
    received,       \* events handed to insert
    inserted,       \* events in the graph
    seen            \* for every event, the participants that acknowledged it

vars == <<parents, author, received, inserted, seen>>

Init ==
    /\ parents \in Graph
    /\ author \in [Event -> Author]
    /\ received = {}
    /\ inserted = {}
    /\ seen = [e \in Event |-> {}]

Receive(e) ==
    /\ received' = received \cup {e}
    /\ inserted' = Settled(parents, received')
    /\ seen' = [x \in Event |->
                  IF x \in inserted'
                  THEN Acknowledgers(parents, author, inserted', x)
                  ELSE {}]
    /\ UNCHANGED <<parents, author>>

Next == \E e \in Event : Receive(e)

Spec == Init /\ [][Next]_vars
=============================================================================
