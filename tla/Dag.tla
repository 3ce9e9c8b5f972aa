-------------------------------- MODULE Dag ---------------------------------
(***************************************************************************)
(* The replica of src/dag.rs: Dag::insert and the loops it runs.           *)
(*                                                                         *)
(* insert holds &mut self, so calls do not overlap; a step of the module   *)
(* is the straight-line part of insert or one iteration of one of its two  *)
(* loops, mark_seen_by_ancestors and process_unblocked.  The Vecs the      *)
(* loops pop from are sets here, so any order of popping is allowed: the   *)
(* code fills to_process from a HashSet, whose order is arbitrary.         *)
(*                                                                         *)
(* A HashMap whose values are sets is a total function, {} where the map   *)
(* has no entry; depth_cache is a total function with NoDepth.             *)
(***************************************************************************)
EXTENDS EventGraph

CONSTANT Graph      \* the ancestries considered

ASSUME GraphAssumption == Graph \subseteq Ancestries

NoDepth == -1
NoEvent == -1

VARIABLES
    parents,        \* the tags of every event, fixed when it is signed
    author,         \* the key that signs every event
    events,         \* ids in the graph
    pending,        \* ids buffered until their parents arrive
    waitingFor,     \* waitingFor[p]: buffered ids that lack parent p
    children,       \* children[p]: ids in the graph that name p as a parent
    seenBy,         \* seenBy[e]: participants that acknowledged e
    depth,          \* depth_cache
    worklist,       \* to_process of process_unblocked
    stack,          \* stack of mark_seen_by_ancestors
    current         \* the id mark_seen_by_ancestors was called with

rigid == <<parents, author>>
graph == <<events, pending, waitingFor, children, depth>>
vars == <<rigid, graph, seenBy, worklist, stack, current>>

\* No call is in progress.
Idle == worklist = {} /\ stack = {}

Missing(e) == parents[e] \ events

\* Mutant: the quorum is one of the participants that have acknowledged anything.
IsCanonicalOfActive(e) ==
    /\ e \in events
    /\ Cardinality(seenBy[e]) > QuorumThreshold(Cardinality(UNION {seenBy[x] : x \in events}))

IsCanonical(e) == e \in events /\ IsQuorum(seenBy[e])

CanonicalEvents == {e \in events : IsCanonical(e)}

\* The events an acknowledgement names.
Tips == {e \in events : children[e] = {}}

\* The order canonical_order sorts by.
Before(a, b) == depth[a] < depth[b] \/ (depth[a] = depth[b] /\ a < b)

\* Mutant: the shallowest parent instead of the deepest.
ComputeDepthShallow(e) ==
    LET cached == {depth[p] : p \in parents[e]} \ {NoDepth}
    IN  IF cached = {} THEN 0
        ELSE 1 + (CHOOSE d \in cached : \A x \in cached : d <= x)

\* compute_depth: one more than the deepest parent, zero for a root.
ComputeDepth(e) ==
    LET cached == {depth[p] : p \in parents[e]} \ {NoDepth}
    IN  IF cached = {} THEN 0
        ELSE 1 + (CHOOSE d \in cached : \A x \in cached : x <= d)

-----------------------------------------------------------------------------

Init ==
    /\ parents \in Graph
    /\ author \in [Event -> Author]
    /\ events = {}
    /\ pending = {}
    /\ waitingFor = [e \in Event |-> {}]
    /\ children = [e \in Event |-> {}]
    /\ seenBy = [e \in Event |-> {}]
    /\ depth = [e \in Event |-> NoDepth]
    /\ worklist = {}
    /\ stack = {}
    /\ current = NoEvent

\* insert_ready up to its last loop, and the ids process_unblocked takes out
\* of waiting_for because e is now in the graph.
InsertReady(e) ==
    /\ children' = [p \in Event |->
                      IF p \in parents[e] THEN children[p] \cup {e} ELSE children[p]]
    /\ depth' = [depth EXCEPT ![e] = ComputeDepth(e)]
    /\ events' = events \cup {e}
    /\ stack' = IF author[e] \in Participant THEN {e} ELSE {}
    /\ current' = e
    /\ worklist' = (worklist \ {e}) \cup waitingFor[e]
    /\ waitingFor' = [waitingFor EXCEPT ![e] = {}]
    /\ UNCHANGED <<rigid, seenBy>>

\* insert of an id that is already in the graph or buffered.
InsertDuplicate(e) ==
    /\ Idle
    /\ e \in events \cup pending
    /\ UNCHANGED vars

\* insert of an event with all its parents in the graph.
InsertComplete(e) ==
    /\ Idle
    /\ e \notin events \cup pending
    /\ Missing(e) = {}
    /\ InsertReady(e)
    /\ UNCHANGED pending

\* Mutant: a buffered event is already recorded as a child of its parents.
InsertBufferedLinked(e) ==
    /\ Idle
    /\ e \notin events \cup pending
    /\ Missing(e) # {}
    /\ waitingFor' = [p \in Event |->
                        IF p \in Missing(e) THEN waitingFor[p] \cup {e} ELSE waitingFor[p]]
    /\ children' = [p \in Event |->
                      IF p \in parents[e] THEN children[p] \cup {e} ELSE children[p]]
    /\ pending' = pending \cup {e}
    /\ UNCHANGED <<rigid, events, seenBy, depth, worklist, stack, current>>

\* insert of an event that lacks a parent: it waits for each one it lacks.
InsertBuffered(e) ==
    /\ Idle
    /\ e \notin events \cup pending
    /\ Missing(e) # {}
    /\ waitingFor' = [p \in Event |->
                        IF p \in Missing(e) THEN waitingFor[p] \cup {e} ELSE waitingFor[p]]
    /\ pending' = pending \cup {e}
    /\ UNCHANGED <<rigid, events, children, seenBy, depth, worklist, stack, current>>

\* Mutant: only the parents of the new event are marked, not their ancestors.
MarkSeenShallow(x) ==
    /\ x \in stack
    /\ stack' = (stack \ {x}) \cup (IF x = current THEN parents[x] ELSE {})
    /\ seenBy' = [seenBy EXCEPT ![x] = @ \cup {author[current]}]
    /\ UNCHANGED <<rigid, graph, worklist, current>>

\* One pop of mark_seen_by_ancestors: it stops where the mark already is.
MarkSeen(x) ==
    /\ x \in stack
    /\ IF author[current] \in seenBy[x]
       THEN stack' = stack \ {x} /\ UNCHANGED seenBy
       ELSE /\ stack' = (stack \ {x}) \cup (IF x \in events THEN parents[x] ELSE {})
            /\ seenBy' = [seenBy EXCEPT ![x] = @ \cup {author[current]}]
    /\ UNCHANGED <<rigid, graph, worklist, current>>

\* Mutant: a candidate that is not complete yet is put back.
SkipCandidateAgain(c) ==
    /\ stack = {}
    /\ c \in worklist
    /\ c \notin pending \/ Missing(c) # {}
    /\ worklist' = IF c \in pending THEN worklist ELSE worklist \ {c}
    /\ UNCHANGED <<rigid, graph, seenBy, stack, current>>

\* A pop of process_unblocked that finds nothing to do.
SkipCandidate(c) ==
    /\ stack = {}
    /\ c \in worklist
    /\ c \notin pending \/ Missing(c) # {}
    /\ worklist' = worklist \ {c}
    /\ UNCHANGED <<rigid, graph, seenBy, stack, current>>

\* Mutant: one arrived parent is taken for all of them.
UnblockUnchecked(c) ==
    /\ stack = {}
    /\ c \in worklist
    /\ c \in pending
    /\ pending' = pending \ {c}
    /\ InsertReady(c)

\* Mutant: the events that waited for the unblocked one are forgotten.
UnblockOneLevel(c) ==
    /\ stack = {}
    /\ c \in worklist
    /\ c \in pending
    /\ Missing(c) = {}
    /\ pending' = pending \ {c}
    /\ children' = [p \in Event |->
                      IF p \in parents[c] THEN children[p] \cup {c} ELSE children[p]]
    /\ depth' = [depth EXCEPT ![c] = ComputeDepth(c)]
    /\ events' = events \cup {c}
    /\ stack' = IF author[c] \in Participant THEN {c} ELSE {}
    /\ current' = c
    /\ worklist' = worklist \ {c}
    /\ waitingFor' = [waitingFor EXCEPT ![c] = {}]
    /\ UNCHANGED <<rigid, seenBy>>

\* A pop of process_unblocked that finds a buffered event complete.
Unblock(c) ==
    /\ stack = {}
    /\ c \in worklist
    /\ c \in pending
    /\ Missing(c) = {}
    /\ pending' = pending \ {c}
    /\ InsertReady(c)

Call(e) == InsertDuplicate(e) \/ InsertComplete(e) \/ InsertBuffered(e)

Iterate(e) == MarkSeen(e) \/ SkipCandidate(e) \/ Unblock(e)

Next == \E e \in Event : Call(e) \/ Iterate(e)

Spec == Init /\ [][Next]_vars

\* A call that started runs to its end; nothing makes callers insert.
FairSpec == Spec /\ WF_vars(\E e \in Event : Iterate(e))

-----------------------------------------------------------------------------

TypeOK ==
    /\ parents \in Graph
    /\ author \in [Event -> Author]
    /\ events \subseteq Event
    /\ pending \subseteq Event
    /\ waitingFor \in [Event -> SUBSET Event]
    /\ children \in [Event -> SUBSET Event]
    /\ seenBy \in [Event -> SUBSET Participant]
    /\ depth \in [Event -> Nat \cup {NoDepth}]
    /\ worklist \subseteq Event
    /\ stack \subseteq Event
    /\ current \in Event \cup {NoEvent}
    /\ stack # {} => current \in Event /\ author[current] \in Participant

\* An event is in the graph only after all its parents, and no event is both
\* in the graph and buffered.
AncestryComplete ==
    /\ ParentClosed(parents, events)
    /\ events \cap pending = {}

\* waiting_for records exactly which buffered events lack which parents, so
\* missing_parents never names an id that is in the graph and never forgets
\* one a buffered event needs.
WaitersExact ==
    \A p \in Event :
        waitingFor[p] = {c \in pending : p \in Missing(c)}

\* No wake-up is lost: when insert returns, every event still buffered lacks a
\* parent.
NoLostWakeup == Idle => \A c \in pending : Missing(c) # {}

\* When insert returns, seen_by holds exactly the participants that wrote a
\* descendant, although mark_seen_by_ancestors stops at the first mark.
SeenByExact ==
    Idle => \A e \in events :
                seenBy[e] = Acknowledgers(parents, author, events, e)

\* An acknowledgement names the tips, which are read from children and not from the
\* tags: whatever is buffered, they descend from everything in the graph, and none
\* is named although another covers it.
TipsCoverGraph ==
    /\ \A e \in events : \E t \in Tips : e \in Ancestors(parents, t)
    /\ \A t \in Tips : \A e \in events : t \in Ancestors(parents, e) => e = t

\* canonical_order puts parents before children, and a canonical event has
\* only canonical ancestors, so the order can be applied from its start.
CanonicalOrderTopological ==
    Idle => \A e \in CanonicalEvents : \A p \in parents[e] :
                p \in CanonicalEvents /\ Before(p, e)

\* "The canonical order only grows - once canonical, always canonical": a
\* canonical event stays canonical, and two of them never swap places.
CanonicalOrderGrows ==
    [][/\ CanonicalEvents \subseteq CanonicalEvents'
       /\ \A a, b \in CanonicalEvents : Before(a, b) = Before(a, b)']_vars

\* A call of insert returns.
InsertReturns == []<>Idle

\* The Dag is a function of the events it was given.  While a call runs the
\* view shows what the call will leave behind.
Received == events \cup pending

InsertedView == IF Idle THEN events ELSE Settled(parents, Received)

SeenView ==
    [e \in Event |->
        IF Idle THEN seenBy[e]
        ELSE IF e \in Settled(parents, Received)
             THEN Acknowledgers(parents, author, Settled(parents, Received), e)
             ELSE {}]

Abstract == INSTANCE DagSpec WITH
    received <- Received,
    inserted <- InsertedView,
    seen <- SeenView

\* Replicas converge: every step of insert is a step of DagSpec or stutters.
ImplementsDagSpec == Abstract!Spec
=============================================================================
