----------------------------- MODULE EventGraph -----------------------------
(***************************************************************************)
(* The ancestry that the "e" tags of Nostr events define, and what the     *)
(* functions of src/dag.rs compute from it.  An ancestry is a function     *)
(* from event ids to sets of event ids: g[e] is parents_of(e), the ids     *)
(* that the tags of e name.  An id is the hash of an event that already    *)
(* contains its tags, so no event can be among its own ancestors.          *)
(***************************************************************************)
EXTENDS Integers, FiniteSets

CONSTANTS
    Event,          \* event ids, ordered as their hashes are
    Participant,    \* public keys of the federation
    Author          \* public keys that sign events

\* Ids are 256-bit hashes.
ASSUME EventAssumption == Event \subseteq Nat /\ IsFiniteSet(Event)
ASSUME AuthorAssumption == Participant \subseteq Author
ASSUME ParticipantAssumption == IsFiniteSet(Participant)

\* Every non-empty set of events has a member none of whose parents is in it.
Acyclic(g) ==
    \A S \in SUBSET Event : S # {} => \E e \in S : g[e] \cap S = {}

Ancestries == {g \in [Event -> SUBSET Event] : Acyclic(g)}

\* S contains the parents of its members.
ParentClosed(g, S) == \A e \in S : g[e] \subseteq S

\* The events reachable from e along tags, e included.
Ancestors(g, e) ==
    {a \in Event : \A S \in SUBSET Event :
                        e \in S /\ ParentClosed(g, S) => a \in S}

\* What can be in the graph once the events of R have arrived: the largest
\* parent-closed subset of R.
Settled(g, R) == UNION {S \in SUBSET R : ParentClosed(g, S)}

\* The participants that wrote an event of E that descends from e, or is e.
Acknowledgers(g, author, E, e) ==
    {p \in Participant : \E d \in E : author[d] = p /\ e \in Ancestors(g, d)}

-----------------------------------------------------------------------------

\* Mutant: the quorum is rounded down.
QuorumThresholdFloor(n) ==
    LET required == (4 * n) \div 5
    IN  IF required = 0 THEN 0 ELSE required - 1

\* Dag::quorum_threshold: ceil(4n/5) - 1, saturating at zero.
QuorumThreshold(n) ==
    LET required == (4 * n + 4) \div 5
    IN  IF required = 0 THEN 0 ELSE required - 1

\* Dag::is_canonical of an event that the participants of S have seen.
IsQuorum(S) == Cardinality(S) > QuorumThreshold(Cardinality(Participant))
=============================================================================
