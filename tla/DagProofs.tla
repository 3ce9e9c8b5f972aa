----------------------------- MODULE DagProofs ------------------------------
(***************************************************************************)
(* What holds of Dag for every set of events, participants and ancestries. *)
(***************************************************************************)
EXTENDS Dag, FiniteSetTheorems, TLAPS

\* A non-empty finite set of integers has a greatest element.
LEMMA MaxExists ==
    ASSUME NEW S \in SUBSET Int, IsFiniteSet(S), S # {}
    PROVE  \E m \in S : \A x \in S : x <= m
<1> DEFINE HasMax(T) == \E m \in T : \A x \in T : x <= m
           Bad == {T \in SUBSET S : T # {} /\ ~HasMax(T)}
<1> SUFFICES ASSUME ~HasMax(S) PROVE FALSE
  OBVIOUS
<1>1. Bad \subseteq FiniteSubsetsOf(S) /\ Bad # {}
  BY FS_FiniteSubsetsOfFinite
<1>2. IsWellFoundedOn(StrictSubsetOrdering(S), FiniteSubsetsOf(S))
  BY FS_StrictSubsetOrderingWellFounded
<1> HIDE DEF Bad
<1>3. PICK T \in Bad : \A U \in Bad : <<U, T>> \notin StrictSubsetOrdering(S)
  BY <1>1, <1>2, WFMin
<1> USE DEF Bad
<1>4. PICK t \in T : TRUE
  OBVIOUS
<1> DEFINE U == T \ {t}
<1>5. U # {}
  <2> SUFFICES ASSUME U = {} PROVE HasMax(T)
    OBVIOUS
  <2> T = {t}
    OBVIOUS
  <2> QED OBVIOUS
<1>6. HasMax(U)
  <2> U \subseteq T /\ U # T /\ U \in SUBSET S /\ T \in SUBSET S
    BY <1>4
  <2> <<U, T>> \in StrictSubsetOrdering(S)
    BY DEF StrictSubsetOrdering
  <2> QED BY <1>3, <1>5
<1>7. PICK m \in U : \A x \in U : x <= m
  BY <1>6
<1>8. CASE t <= m
  <2> \A x \in T : x <= m
    BY <1>7, <1>8
  <2> QED BY <1>7
<1>9. CASE ~(t <= m)
  <2> \A x \in T : x <= t
    BY <1>7, <1>9, <1>4
  <2> QED BY <1>4
<1> QED BY <1>8, <1>9

\* Every buffered event lacks a parent or is still to be looked at by
\* process_unblocked: NoLostWakeup strengthened to the middle of a call.
BlockedOrQueued ==
    \A c \in pending : Missing(c) # {} \/ c \in worklist

BufferInv ==
    /\ AncestryComplete
    /\ WaitersExact
    /\ BlockedOrQueued

-----------------------------------------------------------------------------

\* The tags of an event name a finite set of events.
LEMMA GraphFacts ==
    ASSUME TypeOK
    PROVE  /\ parents \in [Event -> SUBSET Event]
           /\ Acyclic(parents)
           /\ \A e \in Event : IsFiniteSet(parents[e])
BY GraphAssumption, EventAssumption, FS_Subset DEF TypeOK, Ancestries

\* compute_depth returns a natural number that exceeds the depth of every parent.
LEMMA DepthAboveParents ==
    ASSUME TypeOK, NEW e \in Event
    PROVE  /\ ComputeDepth(e) \in Nat
           /\ \A p \in parents[e] : depth[p] # NoDepth => depth[p] < ComputeDepth(e)
<1> DEFINE all == {depth[p] : p \in parents[e]}
           cached == all \ {NoDepth}
<1>1. cached \in SUBSET Nat
  BY GraphFacts DEF TypeOK
<1>2. IsFiniteSet(cached)
  <2>1. IsFiniteSet(all)
    <3> DEFINE f == [p \in parents[e] |-> depth[p]]
    <3>1. all = {f[p] : p \in parents[e]}
      OBVIOUS
    <3> HIDE DEF f, all
    <3>2. f \in Surjection(parents[e], all)
      BY <3>1 DEF f, Surjection, Range
    <3> QED BY <3>2, GraphFacts, FS_Surjection DEF ExistsSurjection
  <2> QED BY <2>1, FS_Subset
<1>3. CASE cached = {}
  BY <1>3 DEF ComputeDepth
<1>4. CASE cached # {}
  <2> DEFINE m == CHOOSE d \in cached : \A x \in cached : x <= d
  <2>1. m \in cached /\ \A x \in cached : x <= m
    <3> HIDE DEF cached
    <3> \E d \in cached : \A x \in cached : x <= d
      BY <1>1, <1>2, <1>4, MaxExists
    <3> QED OBVIOUS
  <2>2. ComputeDepth(e) = 1 + m
    BY <1>4 DEF ComputeDepth
  <2> HIDE DEF m
  <2>3. m \in Nat
    BY <1>1, <2>1
  <2>4. \A p \in parents[e] : depth[p] # NoDepth => depth[p] \in cached
    OBVIOUS
  <2>5. \A p \in parents[e] : depth[p] # NoDepth => depth[p] \in Nat /\ depth[p] <= m
    BY <1>1, <2>1, <2>4
  <2> QED BY <2>2, <2>3, <2>5
<1> QED BY <1>3, <1>4

-----------------------------------------------------------------------------

\* Init establishes the types and the buffering invariant.
LEMMA InitBuffer == Init => TypeOK /\ BufferInv
<1> SUFFICES ASSUME Init PROVE TypeOK /\ BufferInv
  OBVIOUS
<1>1. TypeOK
  BY DEF Init, TypeOK, NoDepth
<1>2. BufferInv
  BY DEF Init, BufferInv, AncestryComplete, WaitersExact, BlockedOrQueued,
         ParentClosed, Missing
<1> QED BY <1>1, <1>2

\* insert_ready keeps the types.
LEMMA InsertReadyType ==
    ASSUME TypeOK, NEW e \in Event, InsertReady(e), pending' \subseteq Event
    PROVE  TypeOK'
<1>1. /\ parents' = parents /\ author' = author /\ seenBy' = seenBy
  BY DEF InsertReady, rigid
<1>2. depth' \in [Event -> Nat \cup {NoDepth}]
  BY DepthAboveParents DEF InsertReady, TypeOK
<1>3. /\ events' \subseteq Event
      /\ children' \in [Event -> SUBSET Event]
      /\ waitingFor' \in [Event -> SUBSET Event]
      /\ worklist' \subseteq Event
  BY DEF InsertReady, TypeOK
<1>4. /\ stack' \subseteq Event
      /\ current' \in Event \cup {NoEvent}
      /\ stack' # {} => current' \in Event /\ author'[current'] \in Participant
  BY <1>1 DEF InsertReady, TypeOK
<1> QED BY <1>1, <1>2, <1>3, <1>4 DEF TypeOK

\* Every step keeps the types.
LEMMA NextType == TypeOK /\ [Next]_vars => TypeOK'
<1> SUFFICES ASSUME TypeOK, [Next]_vars PROVE TypeOK'
  OBVIOUS
<1>1. ASSUME NEW e \in Event, InsertDuplicate(e) PROVE TypeOK'
  BY <1>1 DEF InsertDuplicate, TypeOK, vars, rigid, graph
<1>2. ASSUME NEW e \in Event, InsertComplete(e) PROVE TypeOK'
  <2> pending' \subseteq Event
    BY <1>2 DEF InsertComplete, TypeOK
  <2> QED BY <1>2, InsertReadyType DEF InsertComplete
<1>3. ASSUME NEW e \in Event, InsertBuffered(e) PROVE TypeOK'
  BY <1>3 DEF InsertBuffered, TypeOK, rigid
<1>4. ASSUME NEW e \in Event, MarkSeen(e) PROVE TypeOK'
  <2>1. parents[e] \subseteq Event /\ author[current] \in Participant
    BY <1>4, GraphFacts DEF MarkSeen, TypeOK
  <2>2. stack' \subseteq stack \cup parents[e]
    BY <1>4 DEF MarkSeen
  <2>3. seenBy' \in [Event -> SUBSET Participant]
    BY <1>4, <2>1 DEF MarkSeen, TypeOK
  <2>4. stack # {}
    BY <1>4 DEF MarkSeen
  <2> QED BY <1>4, <2>1, <2>2, <2>3, <2>4 DEF MarkSeen, TypeOK, rigid, graph
<1>5. ASSUME NEW e \in Event, SkipCandidate(e) PROVE TypeOK'
  BY <1>5 DEF SkipCandidate, TypeOK, rigid, graph
<1>6. ASSUME NEW e \in Event, Unblock(e) PROVE TypeOK'
  <2> pending' \subseteq Event
    BY <1>6 DEF Unblock, TypeOK
  <2> QED BY <1>6, InsertReadyType DEF Unblock
<1>7. CASE UNCHANGED vars
  BY <1>7 DEF TypeOK, vars, rigid, graph
<1> QED BY <1>1, <1>2, <1>3, <1>4, <1>5, <1>6, <1>7 DEF Next, Call, Iterate

\* insert_ready of an event that lacks no parent keeps the buffering
\* invariant, when the event leaves the buffer.
LEMMA InsertReadyBuffer ==
    ASSUME TypeOK, BufferInv, NEW e \in Event, InsertReady(e),
           e \notin events, Missing(e) = {}, pending' = pending \ {e}
    PROVE  BufferInv'
<1> USE DEF TypeOK
<1>1. /\ parents' = parents
      /\ events' = events \cup {e}
  BY DEF InsertReady, rigid
<1>2. parents \in [Event -> SUBSET Event]
  BY GraphFacts
<1>3. AncestryComplete'
  BY <1>1, <1>2 DEF BufferInv, AncestryComplete, ParentClosed, Missing
<1>4. WaitersExact'
  <2>1. \A p \in Event : waitingFor'[p] = IF p = e THEN {} ELSE waitingFor[p]
    BY DEF InsertReady
  <2>2. \A p \in Event : waitingFor[p] = {c \in pending : p \in parents[c] \ events}
    BY DEF BufferInv, WaitersExact, Missing
  <2>3. \A p \in Event : e \notin waitingFor[p]
    BY <2>2 DEF Missing
  <2>4. \A p \in Event : waitingFor'[p] = {c \in pending' : p \in parents'[c] \ events'}
    BY <1>1, <2>1, <2>2, <2>3
  <2> QED BY <2>4 DEF WaitersExact, Missing
<1>5. BlockedOrQueued'
  <2> SUFFICES ASSUME NEW c \in pending', c \notin worklist'
               PROVE  Missing(c)' # {}
    BY DEF BlockedOrQueued
  <2>1. c \in pending /\ c # e /\ c \notin waitingFor[e] /\ c \notin worklist
    BY DEF InsertReady
  <2>2. Missing(c) # {}
    BY <2>1 DEF BufferInv, BlockedOrQueued
  <2>3. e \notin Missing(c)
    BY <2>1 DEF BufferInv, WaitersExact
  <2> QED BY <1>1, <2>2, <2>3 DEF Missing
<1> QED BY <1>3, <1>4, <1>5 DEF BufferInv

\* Every step keeps the buffering invariant.
LEMMA NextBuffer == TypeOK /\ BufferInv /\ [Next]_vars => BufferInv'
<1> SUFFICES ASSUME TypeOK, BufferInv, [Next]_vars PROVE BufferInv'
  OBVIOUS
<1> USE DEF BufferInv
<1>1. ASSUME UNCHANGED <<parents, events, pending, waitingFor>>,
             \A c \in pending : c \in worklist /\ c \notin worklist' => Missing(c) # {}
      PROVE  BufferInv'
  BY <1>1 DEF AncestryComplete, WaitersExact, BlockedOrQueued, ParentClosed, Missing
<1>2. ASSUME NEW e \in Event, InsertDuplicate(e) PROVE BufferInv'
  BY <1>1, <1>2 DEF InsertDuplicate, vars, rigid, graph
<1>3. ASSUME NEW e \in Event, InsertComplete(e) PROVE BufferInv'
  BY <1>3, InsertReadyBuffer DEF InsertComplete
<1>4. ASSUME NEW e \in Event, InsertBuffered(e) PROVE BufferInv'
  <2>1. /\ parents' = parents /\ events' = events /\ worklist' = worklist
        /\ pending' = pending \cup {e}
        /\ e \notin events /\ e \notin pending /\ Missing(e) # {}
    BY <1>4 DEF InsertBuffered, rigid
  <2>2. AncestryComplete'
    BY <2>1 DEF AncestryComplete, ParentClosed
  <2>3. WaitersExact'
    BY <1>4, <2>1 DEF InsertBuffered, WaitersExact, Missing, TypeOK
  <2>4. BlockedOrQueued'
    BY <2>1 DEF BlockedOrQueued, Missing
  <2> QED BY <2>2, <2>3, <2>4
<1>5. ASSUME NEW e \in Event, MarkSeen(e) PROVE BufferInv'
  BY <1>1, <1>5 DEF MarkSeen, rigid, graph
<1>6. ASSUME NEW e \in Event, SkipCandidate(e) PROVE BufferInv'
  BY <1>1, <1>6 DEF SkipCandidate, rigid, graph
<1>7. ASSUME NEW e \in Event, Unblock(e) PROVE BufferInv'
  <2> e \notin events
    BY <1>7 DEF Unblock, AncestryComplete
  <2> QED BY <1>7, InsertReadyBuffer DEF Unblock
<1>8. CASE UNCHANGED vars
  BY <1>1, <1>8 DEF vars, rigid, graph
<1> QED BY <1>2, <1>3, <1>4, <1>5, <1>6, <1>7, <1>8 DEF Next, Call, Iterate

\* The types of dag.rs hold of every replica.
THEOREM TypeCorrect == Spec => []TypeOK
<1>1. Init => TypeOK
  BY InitBuffer
<1>2. TypeOK /\ [Next]_vars => TypeOK'
  BY NextType
<1> QED BY <1>1, <1>2, PTL DEF Spec

\* The graph is parent-closed and disjoint from the buffer, and waiting_for is
\* exact, in every state of every replica.
THEOREM BufferCorrect == Spec => [](AncestryComplete /\ WaitersExact)
<1>1. Init => TypeOK /\ BufferInv
  BY InitBuffer
<1>2. TypeOK /\ BufferInv /\ [Next]_vars => TypeOK' /\ BufferInv'
  BY NextType, NextBuffer
<1>3. BufferInv => AncestryComplete /\ WaitersExact
  BY DEF BufferInv
<1> QED BY <1>1, <1>2, <1>3, PTL DEF Spec

\* When insert returns, no buffered event has all its parents.
THEOREM WakeupCorrect == Spec => []NoLostWakeup
<1>1. Init => TypeOK /\ BufferInv
  BY InitBuffer
<1>2. TypeOK /\ BufferInv /\ [Next]_vars => TypeOK' /\ BufferInv'
  BY NextType, NextBuffer
<1>3. BufferInv => NoLostWakeup
  BY DEF BufferInv, BlockedOrQueued, NoLostWakeup, Idle
<1> QED BY <1>1, <1>2, <1>3, PTL DEF Spec

-----------------------------------------------------------------------------

\* Ancestors(parents, d) holds d and the parents of its members, and is
\* inside every set that does.
LEMMA AncestorFacts ==
    ASSUME TypeOK, NEW d \in Event
    PROVE  /\ d \in Ancestors(parents, d)
           /\ \A x \in Ancestors(parents, d) :
                  parents[x] \subseteq Ancestors(parents, d)
           /\ \A S \in SUBSET Event :
                  d \in S /\ ParentClosed(parents, S)
                      => Ancestors(parents, d) \subseteq S
<1>1. d \in Ancestors(parents, d)
  BY DEF Ancestors
<1>2. ASSUME NEW x \in Ancestors(parents, d), NEW q \in parents[x]
      PROVE  q \in Ancestors(parents, d)
  <2>1. q \in Event
    BY <1>2, GraphFacts DEF Ancestors
  <2>2. ASSUME NEW S \in SUBSET Event, d \in S, ParentClosed(parents, S)
        PROVE  q \in S
    BY <1>2, <2>2 DEF Ancestors, ParentClosed
  <2> QED BY <2>1, <2>2 DEF Ancestors
<1> QED BY <1>1, <1>2 DEF Ancestors

\* SeenByExact strengthened to the middle of mark_seen_by_ancestors: the mark
\* of the current event is still due at the parents on the stack.
StackInv ==
    \A x \in stack : x \in events /\ current \in events
                        /\ x \in Ancestors(parents, current)

SeenClosed ==
    /\ \A e \in events : \A a \in seenBy[e] : \A q \in parents[e] :
            a \in seenBy[q] \/ (a = author[current] /\ q \in stack)
    /\ \A e \in events : author[e] \in Participant =>
            author[e] \in seenBy[e] \/ (e = current /\ e \in stack)

SeenSound ==
    /\ \A e \in Event \ events : seenBy[e] = {}
    /\ \A e \in events : \A a \in seenBy[e] :
            \E d \in events : author[d] = a /\ e \in Ancestors(parents, d)

SeenInv == StackInv /\ SeenClosed /\ SeenSound

\* insert_ready begins a marking when none is under way.
LEMMA InsertReadySeen ==
    ASSUME TypeOK, BufferInv, SeenInv, NEW e \in Event, InsertReady(e),
           e \notin events, Missing(e) = {}, stack = {}
    PROVE  SeenInv'
<1>1. /\ parents' = parents /\ author' = author /\ seenBy' = seenBy
      /\ events' = events \cup {e} /\ current' = e
      /\ stack' \subseteq {e}
      /\ author[e] \in Participant => stack' = {e}
  BY DEF InsertReady, rigid
<1>2. StackInv'
  BY <1>1, AncestorFacts DEF StackInv, Ancestors
<1>3. SeenClosed'
  BY <1>1 DEF SeenInv, SeenClosed, SeenSound
<1>4. SeenSound'
  BY <1>1 DEF SeenInv, SeenSound, Ancestors
<1> QED BY <1>2, <1>3, <1>4 DEF SeenInv

\* One pop of mark_seen_by_ancestors keeps what the marking still owes.
LEMMA MarkSeenStep ==
    ASSUME TypeOK, BufferInv, SeenInv, NEW x \in Event, MarkSeen(x)
    PROVE  SeenInv'
<1> DEFINE m == author[current]
<1>1. /\ UNCHANGED <<parents, author, events, current>>
      /\ x \in stack /\ x \in events /\ current \in events
      /\ x \in Ancestors(parents, current)
  BY DEF MarkSeen, SeenInv, StackInv, rigid, graph
<1>2. current \in Event /\ m \in Participant
  BY <1>1 DEF TypeOK
<1>3. parents[x] \subseteq events /\ parents[x] \subseteq Ancestors(parents, current)
  BY <1>1, <1>2, AncestorFacts DEF BufferInv, AncestryComplete, ParentClosed
<1>4. CASE m \in seenBy[x]
  <2>1. stack' = stack \ {x} /\ seenBy' = seenBy
    BY <1>4 DEF MarkSeen
  <2>2. StackInv' /\ SeenSound'
    BY <1>1, <2>1 DEF SeenInv, StackInv, SeenSound, Ancestors
  <2>3. SeenClosed'
    BY <1>1, <1>4, <2>1 DEF SeenInv, SeenClosed
  <2> QED BY <2>2, <2>3 DEF SeenInv
<1>5. CASE m \notin seenBy[x]
  <2>1. /\ stack' = (stack \ {x}) \cup parents[x]
        /\ seenBy' = [seenBy EXCEPT ![x] = @ \cup {m}]
    BY <1>1, <1>5 DEF MarkSeen
  <2>2. \A e \in Event : seenBy'[e] = IF e = x THEN seenBy[x] \cup {m} ELSE seenBy[e]
    BY <2>1 DEF TypeOK
  <2>3. StackInv'
    BY <1>1, <1>3, <2>1 DEF SeenInv, StackInv, Ancestors
  <2>4. SeenClosed'
    <3>1. ASSUME NEW e \in events, NEW a \in seenBy'[e], NEW q \in parents[e]
          PROVE  a \in seenBy'[q] \/ (a = m /\ q \in stack')
      <4>1. q \in Event
        BY GraphFacts DEF TypeOK
      <4>2. CASE e = x /\ a = m
        BY <2>1, <4>2
      <4>3. CASE a \in seenBy[e]
        <5>1. a \in seenBy[q] \/ (a = m /\ q \in stack)
          BY <4>3 DEF SeenInv, SeenClosed
        <5> QED BY <2>1, <2>2, <4>1, <5>1
      <4> QED BY <2>2, <4>2, <4>3 DEF TypeOK
    <3>2. ASSUME NEW e \in events, author[e] \in Participant
          PROVE  author[e] \in seenBy'[e] \/ (e = current /\ e \in stack')
      <4>1. author[e] \in seenBy[e] \/ (e = current /\ e \in stack)
        BY <3>2 DEF SeenInv, SeenClosed
      <4>2. e \in Event
        BY DEF TypeOK
      <4> QED BY <2>1, <2>2, <4>1, <4>2
    <3> QED BY <1>1, <3>1, <3>2 DEF SeenClosed
  <2>5. SeenSound'
    <3>1. \A e \in Event \ events : seenBy'[e] = {}
      BY <1>1, <2>2 DEF SeenInv, SeenSound
    <3>2. ASSUME NEW e \in events, NEW a \in seenBy'[e]
          PROVE  \E d \in events : author[d] = a /\ e \in Ancestors(parents, d)
      BY <1>1, <2>2 DEF SeenInv, SeenSound, TypeOK
    <3> QED BY <1>1, <3>1, <3>2 DEF SeenSound, Ancestors
  <2> QED BY <2>3, <2>4, <2>5 DEF SeenInv
<1> QED BY <1>4, <1>5

\* Every step keeps what is known of the marks.
LEMMA NextSeen == TypeOK /\ BufferInv /\ SeenInv /\ [Next]_vars => SeenInv'
<1> SUFFICES ASSUME TypeOK, BufferInv, SeenInv, [Next]_vars PROVE SeenInv'
  OBVIOUS
<1>1. ASSUME UNCHANGED <<parents, author, events, seenBy, stack, current>>
      PROVE  SeenInv'
  BY <1>1 DEF SeenInv, StackInv, SeenClosed, SeenSound, Ancestors
<1>2. ASSUME NEW e \in Event, InsertDuplicate(e) PROVE SeenInv'
  BY <1>1, <1>2 DEF InsertDuplicate, vars, rigid, graph
<1>3. ASSUME NEW e \in Event, InsertComplete(e) PROVE SeenInv'
  BY <1>3, InsertReadySeen DEF InsertComplete, Idle
<1>4. ASSUME NEW e \in Event, InsertBuffered(e) PROVE SeenInv'
  BY <1>1, <1>4 DEF InsertBuffered, rigid
<1>5. ASSUME NEW e \in Event, MarkSeen(e) PROVE SeenInv'
  BY <1>5, MarkSeenStep
<1>6. ASSUME NEW e \in Event, SkipCandidate(e) PROVE SeenInv'
  BY <1>1, <1>6 DEF SkipCandidate, rigid, graph
<1>7. ASSUME NEW e \in Event, Unblock(e) PROVE SeenInv'
  <2> e \notin events
    BY <1>7 DEF Unblock, BufferInv, AncestryComplete
  <2> QED BY <1>7, InsertReadySeen DEF Unblock
<1>8. CASE UNCHANGED vars
  BY <1>1, <1>8 DEF vars, rigid, graph
<1> QED BY <1>2, <1>3, <1>4, <1>5, <1>6, <1>7, <1>8 DEF Next, Call, Iterate

\* Nothing owed means nothing missing.
LEMMA SeenInvExact == TypeOK /\ SeenInv => SeenByExact
<1> SUFFICES ASSUME TypeOK, SeenInv, Idle, NEW e \in events
             PROVE  seenBy[e] = Acknowledgers(parents, author, events, e)
  BY DEF SeenByExact
<1>1. ASSUME NEW p \in seenBy[e]
      PROVE  p \in Acknowledgers(parents, author, events, e)
  BY <1>1 DEF SeenInv, SeenSound, Acknowledgers, TypeOK
<1>2. ASSUME NEW p \in Acknowledgers(parents, author, events, e)
      PROVE  p \in seenBy[e]
  <2>1. p \in Participant
    BY <1>2 DEF Acknowledgers
  <2>2. PICK d \in events : author[d] = p /\ e \in Ancestors(parents, d)
    BY <1>2 DEF Acknowledgers
  <2> DEFINE S == {x \in Event : p \in seenBy[x]}
  <2>3. d \in S
    BY <2>1, <2>2 DEF SeenInv, SeenClosed, Idle, TypeOK
  <2>4. ParentClosed(parents, S)
    <3>1. ASSUME NEW x \in S, NEW q \in parents[x] PROVE q \in S
      <4>1. x \in events /\ q \in Event
        BY <3>1, GraphFacts DEF SeenInv, SeenSound
      <4> QED BY <3>1, <4>1 DEF SeenInv, SeenClosed, Idle
    <3> QED BY <3>1 DEF ParentClosed
  <2>5. Ancestors(parents, d) \subseteq S
    BY <2>3, <2>4, AncestorFacts
  <2> QED BY <2>2, <2>5
<1> QED BY <1>1, <1>2

\* When insert returns, seen_by holds exactly the participants that wrote a
\* descendant: stopping at the first mark loses none.
THEOREM SeenByCorrect == Spec => []SeenByExact
<1>1. Init => TypeOK /\ BufferInv /\ SeenInv
  <2> Init => SeenInv
    BY DEF Init, SeenInv, StackInv, SeenClosed, SeenSound
  <2> QED BY InitBuffer
<1>2. TypeOK /\ BufferInv /\ SeenInv /\ [Next]_vars
        => TypeOK' /\ BufferInv' /\ SeenInv'
  BY NextType, NextBuffer, NextSeen
<1> QED BY <1>1, <1>2, SeenInvExact, PTL DEF Spec

-----------------------------------------------------------------------------

\* Between calls the graph is the largest parent-closed part of what arrived.
LEMMA SettledWhenIdle ==
    ASSUME TypeOK, BufferInv, Idle
    PROVE  events = Settled(parents, Received)
<1>1. events \subseteq Settled(parents, Received)
  BY DEF Settled, Received, BufferInv, AncestryComplete
<1>2. Settled(parents, Received) \subseteq events
  <2> DEFINE Bad == Settled(parents, Received) \ events
  <2> SUFFICES ASSUME Bad # {} PROVE FALSE
    OBVIOUS
  <2>1. Bad \in SUBSET Event
    BY DEF Settled, Received, TypeOK
  <2>2. PICK x \in Bad : parents[x] \cap Bad = {}
    BY <2>1, GraphFacts DEF Acyclic
  <2>3. parents[x] \subseteq Settled(parents, Received)
    BY <2>2 DEF Settled, ParentClosed
  <2>4. x \in pending
    BY <2>2 DEF Settled, Received
  <2>5. Missing(x) # {}
    BY <2>4 DEF BufferInv, BlockedOrQueued, Idle
  <2> QED BY <2>2, <2>3, <2>5 DEF Missing
<1> QED BY <1>1, <1>2

\* What a Dag shows is a function of the events it received.
ViewIsSettled ==
    /\ InsertedView = Settled(parents, Received)
    /\ SeenView = [e \in Event |->
          IF e \in Settled(parents, Received)
          THEN Acknowledgers(parents, author, Settled(parents, Received), e)
          ELSE {}]

\* It is, in every state the invariants allow.
LEMMA ViewOfReceived == TypeOK /\ BufferInv /\ SeenInv => ViewIsSettled
<1> SUFFICES ASSUME TypeOK, BufferInv, SeenInv PROVE ViewIsSettled
  OBVIOUS
<1> USE DEF ViewIsSettled
<1>1. CASE Idle
  <2>1. events = Settled(parents, Received)
    BY <1>1, SettledWhenIdle
  <2>2. \A e \in events : seenBy[e] = Acknowledgers(parents, author, events, e)
    BY <1>1, SeenInvExact DEF SeenByExact
  <2>3. \A e \in Event \ events : seenBy[e] = {}
    BY DEF SeenInv, SeenSound
  <2> QED BY <1>1, <2>1, <2>2, <2>3 DEF InsertedView, SeenView
<1>2. CASE ~Idle
  BY <1>2 DEF InsertedView, SeenView
<1> QED BY <1>1, <1>2

\* A step of the replica is a Receive of DagSpec, or changes nothing there.
LEMMA StepRefines ==
    ASSUME TypeOK, BufferInv, SeenInv, TypeOK', BufferInv', SeenInv', [Next]_vars
    PROVE  [Abstract!Next]_(Abstract!vars)
<1> DEFINE S(r) == Settled(parents, r)
           A(r) == [e \in Event |->
                      IF e \in S(r) THEN Acknowledgers(parents, author, S(r), e) ELSE {}]
<1>1. parents' = parents /\ author' = author
  BY DEF Next, Call, Iterate, InsertDuplicate, InsertComplete, InsertBuffered,
         InsertReady, MarkSeen, SkipCandidate, Unblock, vars, rigid
<1>2. InsertedView = S(Received) /\ SeenView = A(Received)
  BY ViewOfReceived DEF ViewIsSettled
<1>3. ViewIsSettled'
  BY ViewOfReceived, PTL
<1>4. InsertedView' = S(Received') /\ SeenView' = A(Received')
  BY <1>1, <1>3 DEF ViewIsSettled, Settled, Acknowledgers, Ancestors, ParentClosed
<1>5. Received' = Received \/ \E e \in Event : Received' = Received \cup {e}
  BY DEF Next, Call, Iterate, InsertDuplicate, InsertComplete, InsertBuffered,
         InsertReady, MarkSeen, SkipCandidate, Unblock, vars, rigid, graph, Received
<1>6. CASE Received' = Received
  <2> UNCHANGED <<parents, author, Received, InsertedView, SeenView>>
    BY <1>1, <1>2, <1>4, <1>6
  <2> QED BY DEF Abstract!vars
<1>7. ASSUME NEW e \in Event, Received' = Received \cup {e}
      PROVE  Abstract!Next
  <2>1. Abstract!Receive(e)
    BY <1>1, <1>4, <1>7 DEF Abstract!Receive, Abstract!Settled, Settled,
         Abstract!ParentClosed, ParentClosed, Abstract!Acknowledgers, Acknowledgers,
         Abstract!Ancestors, Ancestors
  <2> QED BY <2>1 DEF Abstract!Next
<1> QED BY <1>5, <1>6, <1>7

\* A replica implements DagSpec: replicas that received the same events hold
\* the same graph and the same acknowledgements, whatever the order.
THEOREM Convergence == Spec => ImplementsDagSpec
<1>1. Init => TypeOK /\ BufferInv /\ SeenInv
  BY InitBuffer DEF Init, SeenInv, StackInv, SeenClosed, SeenSound
<1>2. TypeOK /\ BufferInv /\ SeenInv /\ [Next]_vars
        => TypeOK' /\ BufferInv' /\ SeenInv'
  BY NextType, NextBuffer, NextSeen
<1>3. Init => Abstract!Init
  BY DEF Init, Abstract!Init, Received, InsertedView, SeenView, Idle
<1>4. /\ TypeOK /\ BufferInv /\ SeenInv /\ TypeOK' /\ BufferInv' /\ SeenInv'
      /\ [Next]_vars
      => [Abstract!Next]_(Abstract!vars)
  BY StepRefines
<1> QED BY <1>1, <1>2, <1>3, <1>4, PTL DEF Spec, ImplementsDagSpec, Abstract!Spec

-----------------------------------------------------------------------------

\* Exactly the events of the graph have a depth, and it exceeds their parents'.
DepthInv ==
    /\ \A e \in Event : e \in events <=> depth[e] # NoDepth
    /\ \A e \in events : \A p \in parents[e] : depth[p] < depth[e]

\* insert_ready gives its event a depth above those of its parents.
LEMMA InsertReadyDepth ==
    ASSUME TypeOK, BufferInv, DepthInv, NEW e \in Event, InsertReady(e),
           e \notin events, Missing(e) = {}
    PROVE  DepthInv'
<1>1. /\ parents' = parents /\ events' = events \cup {e}
      /\ \A x \in Event : depth'[x] = IF x = e THEN ComputeDepth(e) ELSE depth[x]
  BY DEF InsertReady, rigid, TypeOK
<1>2. ComputeDepth(e) # NoDepth
  BY DepthAboveParents DEF NoDepth
<1>3. \A p \in parents[e] : p \in events /\ p # e /\ depth[p] < ComputeDepth(e)
  BY DepthAboveParents DEF DepthInv, Missing, TypeOK
<1>4. \A x \in events : \A p \in parents[x] : p \in events
  BY DEF BufferInv, AncestryComplete, ParentClosed
<1>5. \A x \in Event : x \in events' <=> depth'[x] # NoDepth
  BY <1>1, <1>2 DEF DepthInv
<1>6. \A x \in events' : \A p \in parents[x] : depth'[p] < depth'[x]
  <2>1. \A p \in parents[e] : depth'[p] < depth'[e]
    BY <1>1, <1>3 DEF TypeOK
  <2>2. ASSUME NEW x \in events, NEW p \in parents[x] PROVE depth'[p] < depth'[x]
    <3>1. p \in events /\ x # e /\ p # e /\ p \in Event /\ x \in Event
      BY <1>4 DEF TypeOK
    <3>2. depth'[p] = depth[p] /\ depth'[x] = depth[x]
      BY <1>1, <3>1
    <3> QED BY <3>2 DEF DepthInv
  <2> QED BY <1>1, <2>1, <2>2
<1> QED BY <1>1, <1>5, <1>6 DEF DepthInv

\* Every step keeps the depths.
LEMMA NextDepth == TypeOK /\ BufferInv /\ DepthInv /\ [Next]_vars => DepthInv'
<1> SUFFICES ASSUME TypeOK, BufferInv, DepthInv, [Next]_vars PROVE DepthInv'
  OBVIOUS
<1>1. ASSUME UNCHANGED <<parents, events, depth>> PROVE DepthInv'
  BY <1>1 DEF DepthInv
<1>2. ASSUME NEW e \in Event, InsertComplete(e) PROVE DepthInv'
  BY <1>2, InsertReadyDepth DEF InsertComplete
<1>3. ASSUME NEW e \in Event, Unblock(e) PROVE DepthInv'
  <2> e \notin events
    BY <1>3 DEF Unblock, BufferInv, AncestryComplete
  <2> QED BY <1>3, InsertReadyDepth DEF Unblock
<1>4. ASSUME NEW e \in Event,
             InsertDuplicate(e) \/ InsertBuffered(e) \/ MarkSeen(e) \/ SkipCandidate(e)
      PROVE  DepthInv'
  BY <1>1, <1>4 DEF InsertDuplicate, InsertBuffered, MarkSeen, SkipCandidate,
                    vars, rigid, graph
<1>5. CASE UNCHANGED vars
  BY <1>1, <1>5 DEF vars, rigid, graph
<1> QED BY <1>2, <1>3, <1>4, <1>5 DEF Next, Call, Iterate

\* A larger set of participants is a quorum if a smaller one is.
LEMMA QuorumMonotone ==
    ASSUME NEW S \in SUBSET Participant, NEW T \in SUBSET Participant,
           S \subseteq T, IsQuorum(S)
    PROVE  IsQuorum(T)
<1>1. IsFiniteSet(T) /\ Cardinality(S) <= Cardinality(T)
  BY ParticipantAssumption, FS_Subset
<1>2. /\ Cardinality(S) \in Nat /\ Cardinality(T) \in Nat
      /\ Cardinality(Participant) \in Nat
  BY ParticipantAssumption, FS_Subset, FS_CardinalityType
<1>3. QuorumThreshold(Cardinality(Participant)) \in Int
  BY <1>2 DEF QuorumThreshold
<1> QED BY <1>1, <1>2, <1>3 DEF IsQuorum

\* Between calls canonical_order lists the canonical parents of an event, which
\* are all of them, before it.
LEMMA TopologicalOrder ==
    TypeOK /\ BufferInv /\ SeenInv /\ DepthInv => CanonicalOrderTopological
<1> SUFFICES ASSUME TypeOK, BufferInv, SeenInv, DepthInv, Idle,
                    NEW e \in CanonicalEvents, NEW p \in parents[e]
             PROVE  p \in CanonicalEvents /\ Before(p, e)
  BY DEF CanonicalOrderTopological
<1>1. e \in events /\ IsQuorum(seenBy[e])
  BY DEF CanonicalEvents, IsCanonical
<1>2. p \in events
  BY <1>1 DEF BufferInv, AncestryComplete, ParentClosed
<1>3. seenBy[e] \subseteq seenBy[p]
  BY <1>1 DEF SeenInv, SeenClosed, Idle
<1>4. IsQuorum(seenBy[p])
  BY <1>1, <1>2, <1>3, QuorumMonotone DEF TypeOK
<1> QED BY <1>1, <1>2, <1>4 DEF CanonicalEvents, IsCanonical, Before, DepthInv

\* Parents precede children in canonical_order, and no canonical event has an
\* ancestor that is not canonical.
THEOREM OrderCorrect == Spec => []CanonicalOrderTopological
<1>1. Init => TypeOK /\ BufferInv /\ SeenInv /\ DepthInv
  BY InitBuffer DEF Init, SeenInv, StackInv, SeenClosed, SeenSound, DepthInv
<1>2. TypeOK /\ BufferInv /\ SeenInv /\ DepthInv /\ [Next]_vars
        => TypeOK' /\ BufferInv' /\ SeenInv' /\ DepthInv'
  BY NextType, NextBuffer, NextSeen, NextDepth
<1> QED BY <1>1, <1>2, TopologicalOrder, PTL DEF Spec

-----------------------------------------------------------------------------

\* children records exactly which events of the graph name which parents: those
\* that are buffered leave no trace in it.
ChildrenInv == \A p \in Event : children[p] = {e \in events : p \in parents[e]}

\* Every step keeps the children.
LEMMA NextChildren == TypeOK /\ ChildrenInv /\ [Next]_vars => ChildrenInv'
<1> SUFFICES ASSUME TypeOK, ChildrenInv, [Next]_vars PROVE ChildrenInv'
  OBVIOUS
<1>1. ASSUME NEW e \in Event, InsertReady(e) PROVE ChildrenInv'
  <2>1. /\ parents' = parents /\ events' = events \cup {e}
        /\ \A p \in Event :
             children'[p] = IF p \in parents[e] THEN children[p] \cup {e} ELSE children[p]
    BY <1>1 DEF InsertReady, rigid
  <2> QED BY <2>1 DEF ChildrenInv
<1>2. ASSUME UNCHANGED <<parents, events, children>> PROVE ChildrenInv'
  BY <1>2 DEF ChildrenInv
<1>3. ASSUME NEW e \in Event, InsertComplete(e) \/ Unblock(e) PROVE ChildrenInv'
  BY <1>1, <1>3 DEF InsertComplete, Unblock
<1>4. ASSUME NEW e \in Event,
             InsertDuplicate(e) \/ InsertBuffered(e) \/ MarkSeen(e) \/ SkipCandidate(e)
      PROVE  ChildrenInv'
  BY <1>2, <1>4 DEF InsertDuplicate, InsertBuffered, MarkSeen, SkipCandidate,
                    vars, rigid, graph
<1>5. CASE UNCHANGED vars
  BY <1>2, <1>5 DEF vars, rigid, graph
<1> QED BY <1>3, <1>4, <1>5 DEF Next, Call, Iterate

\* Of the events no tip descends from one would be deepest, but its child is deeper.
LEMMA TipsCover ==
    TypeOK /\ BufferInv /\ DepthInv /\ ChildrenInv => TipsCoverGraph
<1> SUFFICES ASSUME TypeOK, BufferInv, DepthInv, ChildrenInv PROVE TipsCoverGraph
  OBVIOUS
<1> DEFINE Covered(e) == \E t \in Tips : e \in Ancestors(parents, t)
           Open == {e \in events : ~Covered(e)}
<1>1. Open = {}
  <2> SUFFICES ASSUME Open # {} PROVE FALSE
    OBVIOUS
  <2> DEFINE deep == {depth[e] : e \in Open}
  <2>1. deep \in SUBSET Int /\ deep # {}
    BY DEF TypeOK, NoDepth
  <2>2. IsFiniteSet(deep)
    <3> DEFINE f == [e \in Open |-> depth[e]]
    <3>1. deep = {f[e] : e \in Open}
      OBVIOUS
    <3>2. IsFiniteSet(Open)
      BY EventAssumption, FS_Subset DEF TypeOK
    <3> HIDE DEF f, deep, Open
    <3>3. f \in Surjection(Open, deep)
      BY <3>1 DEF f, Surjection, Range
    <3> QED BY <3>2, <3>3, FS_Surjection DEF ExistsSurjection
  <2>3. PICK m \in Open : \A e \in Open : depth[e] <= depth[m]
    <3> HIDE DEF Open
    <3>1. PICK d \in deep : \A x \in deep : x <= d
      <4> HIDE DEF deep
      <4> QED BY <2>1, <2>2, MaxExists
    <3> QED BY <3>1
  <2>4. m \in events /\ m \in Event /\ ~Covered(m)
    BY DEF TypeOK
  <2> HIDE DEF Covered
  <2>5. m \notin Tips
    BY <2>4, AncestorFacts DEF Covered
  <2>6. PICK c \in events : m \in parents[c]
    BY <2>4, <2>5 DEF Tips, ChildrenInv
  <2>7. depth[m] < depth[c] /\ depth[m] \in Int /\ depth[c] \in Int
    BY <2>4, <2>6 DEF DepthInv, TypeOK, NoDepth
  <2>8. c \notin Open
    BY <2>3, <2>7
  <2>9. PICK t \in Tips : c \in Ancestors(parents, t)
    BY <2>6, <2>8 DEF Covered
  <2>10. m \in Ancestors(parents, t)
    BY <2>6, <2>9, AncestorFacts DEF Tips, TypeOK
  <2> QED BY <2>4, <2>9, <2>10 DEF Covered
<1>2. ASSUME NEW t \in Tips, NEW e \in events, t \in Ancestors(parents, e), e # t
      PROVE  FALSE
  <2> DEFINE others == events \ {t}
  <2>1. \A x \in events : t \notin parents[x]
    BY DEF Tips, ChildrenInv, TypeOK
  <2>2. ParentClosed(parents, others)
    BY <2>1 DEF ParentClosed, BufferInv, AncestryComplete
  <2>3. others \in SUBSET Event /\ e \in others /\ e \in Event
    BY <1>2 DEF TypeOK
  <2>4. Ancestors(parents, e) \subseteq others
    BY <2>2, <2>3, AncestorFacts
  <2> QED BY <1>2, <2>4
<1> QED BY <1>1, <1>2 DEF TipsCoverGraph

\* An acknowledgement of the tips covers the graph and names nothing twice, after
\* any deliveries.
THEOREM TipsCorrect == Spec => []TipsCoverGraph
<1>1. Init => TypeOK /\ BufferInv /\ DepthInv /\ ChildrenInv
  BY InitBuffer DEF Init, DepthInv, ChildrenInv
<1>2. TypeOK /\ BufferInv /\ DepthInv /\ ChildrenInv /\ [Next]_vars
        => TypeOK' /\ BufferInv' /\ DepthInv' /\ ChildrenInv'
  BY NextType, NextBuffer, NextDepth, NextChildren
<1> QED BY <1>1, <1>2, TipsCover, PTL DEF Spec

-----------------------------------------------------------------------------

\* A step adds events and marks, and changes the depth of no event.
LEMMA OnlyGrows ==
    ASSUME TypeOK, BufferInv, [Next]_vars
    PROVE  \A e \in events : /\ e \in events'
                             /\ seenBy[e] \subseteq seenBy'[e]
                             /\ depth'[e] = depth[e]
<1> SUFFICES ASSUME NEW e \in events
             PROVE  e \in events' /\ seenBy[e] \subseteq seenBy'[e] /\ depth'[e] = depth[e]
  OBVIOUS
<1>1. ASSUME NEW x \in Event, InsertReady(x), x \notin events
      PROVE  e \in events' /\ seenBy[e] \subseteq seenBy'[e] /\ depth'[e] = depth[e]
  BY <1>1 DEF InsertReady, TypeOK
<1>2. ASSUME NEW x \in Event, InsertComplete(x) \/ Unblock(x)
      PROVE  InsertReady(x) /\ x \notin events
  BY <1>2 DEF InsertComplete, Unblock, BufferInv, AncestryComplete
<1>3. ASSUME NEW x \in Event, MarkSeen(x)
      PROVE  e \in events' /\ seenBy[e] \subseteq seenBy'[e] /\ depth'[e] = depth[e]
  BY <1>3 DEF MarkSeen, graph, TypeOK
<1>4. ASSUME NEW x \in Event, InsertDuplicate(x) \/ InsertBuffered(x) \/ SkipCandidate(x)
      PROVE  e \in events' /\ seenBy[e] \subseteq seenBy'[e] /\ depth'[e] = depth[e]
  BY <1>4 DEF InsertDuplicate, InsertBuffered, SkipCandidate, vars, graph
<1>5. CASE UNCHANGED vars
  BY <1>5 DEF vars, graph
<1> QED BY <1>1, <1>2, <1>3, <1>4, <1>5 DEF Next, Call, Iterate

\* One step keeps the canonical events and their order.
LEMMA OrderStep ==
    TypeOK /\ TypeOK' /\ BufferInv /\ [Next]_vars
        => [/\ CanonicalEvents \subseteq CanonicalEvents'
            /\ \A a, b \in CanonicalEvents : Before(a, b) = Before(a, b)']_vars
<1> SUFFICES ASSUME TypeOK, TypeOK', BufferInv, [Next]_vars
             PROVE  /\ CanonicalEvents \subseteq CanonicalEvents'
                    /\ \A a, b \in CanonicalEvents : Before(a, b) = Before(a, b)'
  OBVIOUS
<1>1. ASSUME NEW e \in CanonicalEvents PROVE e \in CanonicalEvents'
  <2>1. /\ e \in events /\ IsQuorum(seenBy[e])
        /\ e \in events' /\ seenBy[e] \subseteq seenBy'[e]
    BY <1>1, OnlyGrows DEF CanonicalEvents, IsCanonical
  <2>2. seenBy[e] \in SUBSET Participant /\ seenBy'[e] \in SUBSET Participant
    BY <2>1 DEF TypeOK
  <2>3. IsQuorum(seenBy'[e])
    BY <2>1, <2>2, QuorumMonotone
  <2> QED BY <2>1, <2>3 DEF CanonicalEvents, IsCanonical
<1>2. ASSUME NEW a \in CanonicalEvents, NEW b \in CanonicalEvents
      PROVE  Before(a, b) = Before(a, b)'
  BY OnlyGrows DEF Before, CanonicalEvents
<1> QED BY <1>1, <1>2

\* Once canonical, always canonical, and always in the same relative order.
THEOREM OrderGrows == Spec => CanonicalOrderGrows
<1>1. Init => TypeOK /\ BufferInv
  BY InitBuffer
<1>2. TypeOK /\ BufferInv /\ [Next]_vars => TypeOK' /\ BufferInv'
  BY NextType, NextBuffer
<1> QED BY <1>1, <1>2, OrderStep, PTL DEF Spec, CanonicalOrderGrows
=============================================================================
