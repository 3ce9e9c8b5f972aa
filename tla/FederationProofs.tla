-------------------------- MODULE FederationProofs --------------------------
(***************************************************************************)
(* Proofs about the daemons, for any number of them, of events and of      *)
(* faults, and any order of delivery.                                      *)
(*                                                                         *)
(* What the daemons agree on without talking is the past of every signed   *)
(* event: it is fixed when the event is signed, for an event can only name *)
(* events that exist.  PastInv says what that makes of it: an order on the *)
(* signed events, the least that the tags define.  From it follow what a   *)
(* Dag of this module is (GraphIsSettled) and that its tips cover it       *)
(* (TipsCover).  What makes a canonical event widely known is AckBacked:   *)
(* whoever signs an acknowledgement had its past in the graph.             *)
(***************************************************************************)
EXTENDS Federation, FiniteSetTheorems, TLAPS

Typed ==
    /\ signed \subseteq Event
    /\ author \in [Event -> Author]
    /\ tags \in [Event -> SUBSET Event]
    /\ past \in [Event -> SUBSET Event]
    /\ sent \subseteq signed /\ stored \subseteq signed
    /\ inbox \in [Daemon -> SUBSET signed]
    /\ received \in [Daemon -> SUBSET signed]
    /\ outbox \in [Daemon -> SUBSET signed]
    /\ held \in [Daemon -> SUBSET Event]

Closed == \A e \in signed : tags[e] \subseteq signed /\ past[e] \subseteq signed

NoTags == \A e \in Event \ signed : tags[e] = {}

PastByTags == \A e \in signed : past[e] = {e} \cup UNION {past[p] : p \in tags[e]}

Transitive == \A e \in signed : \A x \in past[e] : past[x] \subseteq past[e]

ParentsEarlier == \A e \in signed : \A p \in tags[e] : e \notin past[p]

Least ==
    \A e \in signed, S \in SUBSET Event :
        e \in S /\ ParentClosed(tags, S) => past[e] \subseteq S

PastInv == Closed /\ NoTags /\ PastByTags /\ Transitive /\ ParentsEarlier /\ Least

\* Who signs an acknowledgement has had the rest of its past in the graph.
AckBacked ==
    \A e \in signed : author[e] \in Daemon => past[e] \subseteq {e} \cup held[author[e]]

Inv == Typed /\ PastInv /\ AckBacked

-----------------------------------------------------------------------------
(* What a state with these invariants is like                              *)

\* The graph of a Dag is closed under the past.
LEMMA InsertedClosed ==
    ASSUME Typed, PastInv, NEW R \in SUBSET signed
    PROVE  \A e \in Inserted(R) : e \in past[e] /\ past[e] \subseteq Inserted(R)
<1> SUFFICES ASSUME NEW e \in Inserted(R) PROVE e \in past[e] /\ past[e] \subseteq Inserted(R)
  OBVIOUS
<1>1. e \in signed /\ past[e] \subseteq R
  BY DEF Inserted
<1>2. \A x \in past[e] : past[x] \subseteq R
  BY <1>1 DEF PastInv, Transitive
<1>3. e \in past[e]
  BY <1>1 DEF PastInv, PastByTags
<1> QED  BY <1>1, <1>2, <1>3 DEF Inserted

\* The past of an event is the ancestry that the tags define.
LEMMA PastIsAncestry ==
    ASSUME Typed, PastInv, NEW e \in signed
    PROVE  past[e] = Ancestors(tags, e)
<1>1. past[e] \subseteq Event /\ e \in past[e]
  BY DEF Typed, PastInv, PastByTags
<1>2. ParentClosed(tags, past[e])
  <2> SUFFICES ASSUME NEW x \in past[e], NEW p \in tags[x] PROVE p \in past[e]
    BY DEF ParentClosed
  <2>1. x \in signed /\ p \in signed
    BY DEF PastInv, Closed
  <2>2. p \in past[p] /\ past[p] \subseteq past[x]
    BY <2>1 DEF PastInv, PastByTags
  <2>3. past[x] \subseteq past[e]
    BY DEF PastInv, Transitive
  <2> QED  BY <2>2, <2>3
<1>3. Ancestors(tags, e) \subseteq past[e]
  BY <1>1, <1>2 DEF Ancestors
<1>4. past[e] \subseteq Ancestors(tags, e)
  BY <1>1 DEF Ancestors, PastInv, Least
<1> QED  BY <1>3, <1>4

\* The graph of a Dag is the settled part of what it was given.
LEMMA GraphIsSettled ==
    ASSUME Typed, PastInv, NEW R \in SUBSET signed
    PROVE  Inserted(R) = Settled(tags, R)
<1>1. ASSUME NEW e \in Inserted(R) PROVE e \in Settled(tags, R)
  <2>1. Inserted(R) \in SUBSET R
    BY DEF Inserted
  <2>2. ParentClosed(tags, Inserted(R))
    <3> SUFFICES ASSUME NEW x \in Inserted(R), NEW p \in tags[x] PROVE p \in Inserted(R)
      BY DEF ParentClosed
    <3>1. x \in signed /\ p \in signed /\ past[x] \subseteq Inserted(R)
      BY InsertedClosed DEF Inserted, PastInv, Closed
    <3>2. p \in past[p] /\ past[p] \subseteq past[x]
      BY <3>1 DEF PastInv, PastByTags
    <3> QED  BY <3>1, <3>2
  <2> QED  BY <2>1, <2>2 DEF Settled
<1>2. ASSUME NEW S \in SUBSET R, ParentClosed(tags, S), NEW e \in S PROVE e \in Inserted(R)
  <2>1. S \in SUBSET Event /\ e \in signed
    BY DEF Typed
  <2>2. past[e] \subseteq S
    BY <1>2, <2>1 DEF PastInv, Least
  <2> QED  BY <2>2 DEF Inserted
<1> QED  BY <1>1, <1>2 DEF Settled

\* Every event of the graph is in the past of a tip: of the events that descend
\* from it, one whose past is maximal has no child in the graph.
LEMMA TipsCover ==
    ASSUME Typed, PastInv, NEW R \in SUBSET signed
    PROVE  UNION {past[t] : t \in Tips(R)} = Inserted(R)
<1>1. UNION {past[t] : t \in Tips(R)} \subseteq Inserted(R)
  BY InsertedClosed DEF Tips
<1>2. ASSUME NEW e \in Inserted(R) PROVE \E t \in Tips(R) : e \in past[t]
  <2> DEFINE Above == {x \in Inserted(R) : e \in past[x]}
             Rest(x) == Event \ past[x]
             Rests == {Rest(x) : x \in Above}
  <2>1. e \in Above
    BY InsertedClosed
  <2>2. Rests \subseteq FiniteSubsetsOf(Event) /\ Rests # {}
    <3>1. Rests \subseteq SUBSET Event /\ Rest(e) \in Rests
      BY <2>1
    <3>2. FiniteSubsetsOf(Event) = SUBSET Event
      BY EventAssumption, FS_FiniteSubsetsOfFinite
    <3> HIDE DEF Rests
    <3> QED  BY <3>1, <3>2
  <2>3. IsWellFoundedOn(StrictSubsetOrdering(Event), FiniteSubsetsOf(Event))
    BY FS_StrictSubsetOrderingWellFounded
  <2> HIDE DEF Rests
  <2>4. PICK T \in Rests : \A U \in Rests : <<U, T>> \notin StrictSubsetOrdering(Event)
    BY <2>2, <2>3, WFMin
  <2> USE DEF Rests
  <2>5. PICK t \in Above : T = Rest(t)
    BY <2>4
  <2>6. ASSUME NEW x \in Inserted(R), t \in tags[x] PROVE FALSE
    <3>1. x \in signed /\ t \in signed /\ past[x] \subseteq Event /\ past[t] \subseteq Event
      BY DEF Inserted, Typed
    <3>2. past[t] \subseteq past[x] /\ x \in past[x] /\ t \in past[t]
      BY <2>6, <3>1 DEF PastInv, PastByTags
    <3>3. x \in Above
      BY <3>2
    <3>4. past[t] = past[x]
      <4>1. Rest(x) \in Rests /\ Rest(x) \in SUBSET Event /\ Rest(t) \in SUBSET Event
        BY <3>3
      <4>2. Rest(x) \subseteq Rest(t)
        BY <3>2
      <4>3. Rest(x) = Rest(t)
        BY <2>4, <2>5, <4>1, <4>2 DEF StrictSubsetOrdering
      <4> QED  BY <3>1, <4>3
    <3>5. x \notin past[t]
      BY <2>6, <3>1 DEF PastInv, ParentsEarlier
    <3> QED  BY <3>2, <3>4, <3>5
  <2> QED  BY <2>5, <2>6 DEF Tips
<1> QED  BY <1>1, <1>2

\* More than the threshold is at least four fifths.
LEMMA QuorumIsFourFifths ==
    ASSUME NEW S \in SUBSET Participant, IsQuorum(S)
    PROVE  5 * Cardinality(S) >= 4 * Cardinality(Participant)
<1>1. IsFiniteSet(S) /\ Cardinality(S) \in Nat /\ Cardinality(Participant) \in Nat
  BY ParticipantAssumption, FS_Subset, FS_CardinalityType
<1> QED  BY <1>1 DEF IsQuorum, QuorumThreshold

\* Who signed an event whose past includes a canonical one knows that one's past.
LEMMA CanonicalIsHeld == Inv => CanonicalHeldByQuorum
<1> SUFFICES ASSUME Inv, NEW d \in Daemon, NEW e \in Canonical(received[d])
             PROVE  5 * Cardinality({p \in Participant : \A x \in past[e] : x \in held[p] \/ author[x] = p})
                        >= 4 * Cardinality(Participant)
  BY DEF CanonicalHeldByQuorum
<1> DEFINE R == received[d]
           Knowing == {p \in Participant : \A x \in past[e] : x \in held[p] \/ author[x] = p}
<1>1. R \in SUBSET signed
  BY DEF Inv, Typed
<1> HIDE DEF R
<1>2. SeenBy(R, e) \in SUBSET Participant /\ IsQuorum(SeenBy(R, e))
  BY DEF Canonical, SeenBy, R
<1>3. SeenBy(R, e) \subseteq Knowing
  <2> SUFFICES ASSUME NEW p \in SeenBy(R, e), NEW x \in past[e] PROVE x \in held[p] \/ author[x] = p
    BY <1>2
  <2>1. PICK y \in Inserted(R) : e \in past[y] /\ author[y] = p
    BY DEF SeenBy
  <2>2. y \in signed /\ past[e] \subseteq past[y]
    BY <1>1, <2>1 DEF Inserted, Inv, PastInv, Transitive
  <2>3. p \in Daemon
    BY <1>2, FederationAssumption
  <2>4. past[y] \subseteq {y} \cup held[p]
    BY <2>1, <2>2, <2>3 DEF Inv, AckBacked
  <2> QED  BY <2>1, <2>2, <2>4
<1>4. /\ IsFiniteSet(Knowing) /\ Cardinality(SeenBy(R, e)) <= Cardinality(Knowing)
      /\ Cardinality(SeenBy(R, e)) \in Nat /\ Cardinality(Knowing) \in Nat
      /\ Cardinality(Participant) \in Nat
  <2>1. IsFiniteSet(Knowing)
    BY ParticipantAssumption, FS_Subset
  <2> HIDE DEF Knowing
  <2> QED  BY <1>3, <2>1, ParticipantAssumption, FS_Subset, FS_CardinalityType
<1>5. 5 * Cardinality(SeenBy(R, e)) >= 4 * Cardinality(Participant)
  BY <1>2, QuorumIsFourFifths
<1> HIDE DEF Knowing
<1>6. 5 * Cardinality(Knowing) >= 4 * Cardinality(Participant)
  BY <1>4, <1>5
<1> QED  BY <1>6 DEF Knowing

-----------------------------------------------------------------------------
(* The invariant                                                           *)

LEMMA InitInv == Init => Inv
<1> SUFFICES ASSUME Init PROVE Inv
  OBVIOUS
<1> USE FederationAssumption
<1>1. Typed
  BY DEF Init, Typed
<1>2. PastInv
  BY DEF Init, PastInv, Closed, NoTags, PastByTags, Transitive, ParentsEarlier, Least
<1>3. AckBacked
  BY DEF Init, AckBacked
<1> QED  BY <1>1, <1>2, <1>3 DEF Inv

\* Signing an event leaves the others as they were, and orders it after them.
LEMMA SignKeeps ==
    ASSUME Typed, PastInv, NEW e \in Event \ signed, NEW key \in Author,
           NEW ps \in SUBSET signed, Sign(e, key, ps)
    PROVE  /\ PastInv'
           /\ signed' = signed \cup {e} /\ signed' \subseteq Event
           /\ author' \in [Event -> Author] /\ tags' \in [Event -> SUBSET Event]
           /\ past' \in [Event -> SUBSET Event]
           /\ \A x \in signed : /\ tags'[x] = tags[x] /\ past'[x] = past[x]
                                /\ author'[x] = author[x]
           /\ author'[e] = key /\ past'[e] = {e} \cup UNION {past[p] : p \in ps}
<1>1. /\ signed' = signed \cup {e} /\ signed \subseteq Event /\ ps \subseteq Event
      /\ tags'[e] = ps /\ author'[e] = key /\ past'[e] = {e} \cup UNION {past[p] : p \in ps}
      /\ \A x \in Event \ {e} : tags'[x] = tags[x] /\ past'[x] = past[x] /\ author'[x] = author[x]
  BY DEF Sign, Typed
<1>2. \A x \in signed : /\ tags'[x] = tags[x] /\ past'[x] = past[x] /\ author'[x] = author[x]
                        /\ x # e /\ e \notin past[x]
  BY <1>1 DEF PastInv, Closed
<1>3. past'[e] \subseteq signed \cup {e} /\ past'[e] \subseteq Event
  BY <1>1 DEF PastInv, Closed
<1>4. /\ author' \in [Event -> Author] /\ tags' \in [Event -> SUBSET Event]
      /\ past' \in [Event -> SUBSET Event]
  BY <1>1, <1>3 DEF Sign, Typed
<1>5. Closed'
  BY <1>1, <1>2, <1>3 DEF PastInv, Closed
<1>6. NoTags'
  BY <1>1 DEF PastInv, NoTags
<1>7. PastByTags'
  <2>1. \A x \in signed : past'[x] = {x} \cup UNION {past'[p] : p \in tags'[x]}
    <3> SUFFICES ASSUME NEW x \in signed PROVE past'[x] = {x} \cup UNION {past'[p] : p \in tags'[x]}
      OBVIOUS
    <3>1. tags[x] \subseteq signed /\ past[x] = {x} \cup UNION {past[p] : p \in tags[x]}
      BY DEF PastInv, Closed, PastByTags
    <3>2. {past'[p] : p \in tags'[x]} = {past[p] : p \in tags[x]}
      BY <1>2, <3>1
    <3> QED  BY <1>2, <3>1, <3>2
  <2>2. {past'[p] : p \in ps} = {past[p] : p \in ps}
    BY <1>2
  <2> QED  BY <1>1, <2>1, <2>2 DEF PastByTags
<1>8. Transitive'
  <2>1. \A x \in signed : \A y \in past'[x] : past'[y] \subseteq past'[x]
    BY <1>2 DEF PastInv, Closed, Transitive
  <2>2. ASSUME NEW y \in past'[e], y # e PROVE past'[y] \subseteq past'[e]
    <3>1. PICK p \in ps : y \in past[p]
      BY <1>1, <2>2
    <3>2. y \in signed /\ past[y] \subseteq past[p]
      BY <3>1 DEF PastInv, Closed, Transitive
    <3> QED  BY <1>1, <1>2, <3>1, <3>2
  <2> QED  BY <1>1, <2>1, <2>2 DEF Transitive
<1>9. ParentsEarlier'
  <2>1. \A x \in signed : \A p \in tags'[x] : x \notin past'[p]
    BY <1>2 DEF PastInv, Closed, ParentsEarlier
  <2>2. \A p \in ps : e \notin past'[p]
    BY <1>2
  <2> QED  BY <1>1, <2>1, <2>2 DEF ParentsEarlier
<1>10. Least'
  <2> SUFFICES ASSUME NEW x \in signed', NEW S \in SUBSET Event, x \in S, ParentClosed(tags', S)
               PROVE  past'[x] \subseteq S
    BY DEF Least
  <2>1. ParentClosed(tags, S)
    <3> SUFFICES ASSUME NEW y \in S PROVE tags[y] \subseteq S
      BY DEF ParentClosed
    <3>1. tags[e] = {}
      BY DEF PastInv, NoTags
    <3> QED  BY <1>1, <3>1 DEF ParentClosed
  <2>2. \A y \in signed : y \in S => past'[y] \subseteq S
    BY <1>2, <2>1 DEF PastInv, Least
  <2>3. CASE x = e
    <3>1. ps \subseteq S
      BY <1>1, <2>3 DEF ParentClosed
    <3> QED  BY <1>1, <1>2, <2>2, <2>3, <3>1
  <2> QED  BY <1>1, <2>2, <2>3
<1>11. PastInv'
  BY <1>5, <1>6, <1>7, <1>8, <1>9, <1>10 DEF PastInv
<1>12. signed' \subseteq Event
  BY <1>1
<1> QED  BY <1>1, <1>2, <1>4, <1>11, <1>12

\* A set of events that is not empty has a least one.
LEMMA LeastExists ==
    ASSUME NEW S \in SUBSET Event, S # {}
    PROVE  \E x \in S : \A y \in S : x <= y
<1> DEFINE Less == OpToRel(<, Nat)
<1>1. IsWellFoundedOn(Less, Nat)
  BY NatLessThanWellFounded
<1>2. ASSUME NEW y \in Nat, NEW z \in Nat, y < z PROVE <<y, z>> \in Less
  BY <1>2 DEF OpToRel
<1> HIDE DEF Less
<1>3. S \subseteq Nat
  BY EventAssumption
<1>4. PICK x \in S : \A y \in S : <<y, x>> \notin Less
  BY <1>1, <1>3, WFMin
<1>5. ASSUME NEW y \in S PROVE x <= y
  <2>1. x \in Nat /\ y \in Nat /\ <<y, x>> \notin Less
    BY <1>3, <1>4
  <2>2. ~(y < x)
    BY <1>2, <2>1
  <2> QED  BY <2>1, <2>2
<1> QED  BY <1>5

\* An acknowledgement has what its author holds as its past.
LEMMA MaybeAckKeeps ==
    ASSUME Inv, NEW d \in Daemon, NEW R \in SUBSET signed, MaybeAck(d, R),
           held' = [held EXCEPT ![d] = @ \cup Inserted(R)]
    PROVE  /\ PastInv' /\ AckBacked' /\ \A x \in R : past'[x] = past[x]
           /\ signed \subseteq signed' /\ signed' \subseteq Event
           /\ author' \in [Event -> Author] /\ tags' \in [Event -> SUBSET Event]
           /\ past' \in [Event -> SUBSET Event]
           /\ outbox' \in [Daemon -> SUBSET signed']
           /\ \A a \in signed' \ signed : author'[a] = d /\ past'[a] = {a} \cup Inserted(R)
<1> USE FederationAssumption
<1>1. \A p \in Daemon : held[p] \subseteq held'[p]
  BY DEF Inv, Typed
<1>2. Inserted(R) \subseteq held'[d]
  BY DEF Inv, Typed
<1>3. CASE UNCHANGED <<ledger, outbox>>
  BY <1>1, <1>3 DEF Inv, Typed, ledger, PastInv, Closed, NoTags, PastByTags, Transitive,
                    ParentsEarlier, Least, ParentClosed, AckBacked, Inserted
<1>4. ASSUME NEW a \in Event \ signed, Sign(a, d, Tips(R)), outbox' = [outbox EXCEPT ![d] = @ \cup {a}]
      PROVE  /\ PastInv' /\ AckBacked' /\ \A x \in R : past'[x] = past[x]
             /\ signed \subseteq signed' /\ signed' \subseteq Event
             /\ author' \in [Event -> Author] /\ tags' \in [Event -> SUBSET Event]
             /\ past' \in [Event -> SUBSET Event]
             /\ outbox' \in [Daemon -> SUBSET signed']
             /\ \A x \in signed' \ signed : author'[x] = d /\ past'[x] = {x} \cup Inserted(R)
  <2>1. Tips(R) \in SUBSET signed
    BY DEF Tips, Inserted
  <2>2. d \in Author
    OBVIOUS
  <2>3. /\ PastInv'
        /\ signed' = signed \cup {a} /\ signed' \subseteq Event
        /\ author' \in [Event -> Author] /\ tags' \in [Event -> SUBSET Event]
        /\ past' \in [Event -> SUBSET Event]
        /\ \A x \in signed : /\ tags'[x] = tags[x] /\ past'[x] = past[x]
                             /\ author'[x] = author[x]
        /\ author'[a] = d /\ past'[a] = {a} \cup UNION {past[t] : t \in Tips(R)}
    BY <1>4, <2>1, <2>2, SignKeeps DEF Inv
  <2>4. past'[a] = {a} \cup Inserted(R)
    BY <2>3, TipsCover DEF Inv
  <2>5. AckBacked'
    <3> SUFFICES ASSUME NEW x \in signed', author'[x] \in Daemon
                 PROVE  past'[x] \subseteq {x} \cup held'[author'[x]]
      BY DEF AckBacked
    <3>1. CASE x = a
      BY <1>2, <2>3, <2>4, <3>1
    <3>2. CASE x \in signed
      BY <1>1, <2>3, <3>2 DEF Inv, AckBacked
    <3> QED  BY <2>3, <3>1, <3>2
  <2>6. \A x \in R : past'[x] = past[x]
    BY <2>3
  <2>7. outbox' \in [Daemon -> SUBSET signed']
    BY <1>4, <2>3 DEF Inv, Typed
  <2> QED  BY <2>3, <2>4, <2>5, <2>6, <2>7
<1>5. CASE ~UNCHANGED <<ledger, outbox>>
  <2> DEFINE a == CHOOSE x \in Ack \ signed : \A y \in Ack \ signed : x <= y
  <2>1. Ack \ signed # {} /\ Sign(a, d, Tips(R)) /\ outbox' = [outbox EXCEPT ![d] = @ \cup {a}]
    BY <1>5 DEF MaybeAck
  <2>2. a \in Ack \ signed
    BY <2>1, LeastExists DEF Ack
  <2> HIDE DEF a
  <2>3. a \in Event \ signed
    BY <2>2 DEF Ack
  <2> QED  BY <1>4, <2>1, <2>3
<1> QED  BY <1>3, <1>5

\* A notification of signed events leaves the rest as it is.
LEMMA NotifyKeeps ==
    ASSUME Typed, NEW e \in signed', NEW ds, Notify(e, ds), signed \subseteq signed'
    PROVE  inbox' \in [Daemon -> SUBSET signed']
BY DEF Notify, Typed

LEMMA PostKeeps ==
    ASSUME Inv, NEW m \in Chat, NEW ps, Post(m, ps)
    PROVE  Inv' /\ \A a \in signed' \ signed : a \notin Ack
<1> USE FederationAssumption
<1>1. /\ m \in Event \ signed /\ ps \in SUBSET signed /\ Sign(m, User, ps)
      /\ sent' = sent \cup {m} /\ stored' = stored \cup {m} /\ Notify(m, Daemon)
      /\ UNCHANGED <<received, outbox, held>>
  BY DEF Post, daemon, Inv, Typed
<1>2. /\ PastInv'
      /\ signed' = signed \cup {m} /\ signed' \subseteq Event
      /\ author' \in [Event -> Author] /\ tags' \in [Event -> SUBSET Event]
      /\ past' \in [Event -> SUBSET Event]
      /\ \A x \in signed : /\ tags'[x] = tags[x] /\ past'[x] = past[x]
                           /\ author'[x] = author[x]
      /\ author'[m] = User
  BY <1>1, SignKeeps DEF Inv
<1>3. inbox' \in [Daemon -> SUBSET signed']
  BY <1>1, <1>2, NotifyKeeps DEF Inv
<1>4. Typed'
  BY <1>1, <1>2, <1>3 DEF Inv, Typed
<1>5. AckBacked'
  BY <1>1, <1>2 DEF Inv, AckBacked
<1> QED  BY <1>2, <1>4, <1>5 DEF Inv, Ack

\* A step that signs nothing and forgets nothing that was held.
LEMMA LedgerKeeps ==
    ASSUME Inv, UNCHANGED ledger, \A p \in Daemon : held[p] \subseteq held'[p]
    PROVE  PastInv' /\ AckBacked'
BY DEF Inv, Typed, ledger, PastInv, Closed, NoTags, PastByTags, Transitive, ParentsEarlier, Least,
       ParentClosed, AckBacked

LEMMA HandleKeeps ==
    ASSUME Inv, NEW d \in Daemon, NEW e \in Event, Handle(d, e)
    PROVE  Inv' /\ \A a \in signed' \ signed : author'[a] = d /\ past'[a] = {a} \cup Graphs'[d]
<1> DEFINE R == received[d] \cup {e}
<1>1. /\ e \in inbox[d] /\ inbox' = [inbox EXCEPT ![d] = @ \ {e}]
      /\ received' = [received EXCEPT ![d] = R]
      /\ held' = [held EXCEPT ![d] = @ \cup Inserted(R)]
      /\ MaybeAck(d, R) \/ UNCHANGED <<ledger, outbox>>
      /\ UNCHANGED <<sent, stored>>
  BY DEF Handle
<1>2. R \in SUBSET signed /\ Inserted(R) \subseteq R
  BY <1>1 DEF Inv, Typed, Inserted
<1>3. received'[d] = R
  BY <1>1 DEF Inv, Typed
<1> HIDE DEF R
<1>4. CASE MaybeAck(d, R)
  <2>1. /\ PastInv' /\ AckBacked' /\ \A x \in R : past'[x] = past[x]
        /\ signed \subseteq signed' /\ signed' \subseteq Event
        /\ author' \in [Event -> Author] /\ tags' \in [Event -> SUBSET Event]
        /\ past' \in [Event -> SUBSET Event]
        /\ outbox' \in [Daemon -> SUBSET signed']
        /\ \A a \in signed' \ signed : author'[a] = d /\ past'[a] = {a} \cup Inserted(R)
    BY <1>1, <1>2, <1>4, MaybeAckKeeps
  <2>2. Typed'
    BY <1>1, <1>2, <2>1 DEF Inv, Typed
  <2>3. Graphs'[d] = Inserted(R)
    <3>1. Graphs'[d] = {x \in received'[d] : past'[x] \subseteq received'[d]}
      BY DEF Graphs, Inserted
    <3>2. {x \in R : past'[x] \subseteq R} = Inserted(R)
      BY <2>1 DEF Inserted
    <3> QED  BY <1>3, <3>1, <3>2
  <2> QED  BY <2>1, <2>2, <2>3 DEF Inv
<1>5. CASE UNCHANGED <<ledger, outbox>>
  <2>1. signed' = signed /\ author' = author /\ tags' = tags /\ past' = past /\ outbox' = outbox
    BY <1>5 DEF ledger
  <2>2. Typed'
    BY <1>1, <1>2, <2>1 DEF Inv, Typed
  <2>3. \A p \in Daemon : held[p] \subseteq held'[p]
    BY <1>1 DEF Inv, Typed
  <2>4. PastInv' /\ AckBacked'
    BY <1>5, <2>3, LedgerKeeps
  <2> QED  BY <2>1, <2>2, <2>4 DEF Inv
<1> QED  BY <1>1, <1>4, <1>5

\* The steps between the handler and the relay sign nothing.
LEMMA OtherKeeps ==
    ASSUME Inv, NEW d \in Daemon, NEW e \in Event,
           FetchMissing(d, e) \/ Publish(d, e) \/ PublishFails(d, e)
    PROVE  Inv' /\ signed' = signed
<1>1. /\ UNCHANGED ledger /\ held' = held /\ signed' = signed /\ author' = author
      /\ tags' = tags /\ past' = past
  BY DEF FetchMissing, Publish, PublishFails, ledger
<1>2. PastInv' /\ AckBacked'
  BY <1>1, LedgerKeeps
<1>3. Typed'
  <2>1. CASE FetchMissing(d, e)
    BY <1>1, <2>1 DEF FetchMissing, Notify, Inv, Typed
  <2>2. CASE Publish(d, e)
    BY <1>1, <2>2 DEF Publish, Notify, Inv, Typed
  <2>3. CASE PublishFails(d, e)
    BY <1>1, <2>3 DEF PublishFails, relay, Inv, Typed
  <2> QED  BY <2>1, <2>2, <2>3
<1> QED  BY <1>1, <1>2, <1>3 DEF Inv

LEMMA StepInv ==
    ASSUME Inv, [Next]_vars
    PROVE  /\ Inv'
           /\ \A a \in (signed' \ signed) \cap Ack : past'[a] = {a} \cup Graphs'[author'[a]]
<1>1. ASSUME NEW m \in Chat, NEW ps, Post(m, ps)
      PROVE  Inv' /\ \A a \in signed' \ signed : a \notin Ack
  BY <1>1, PostKeeps
<1>2. ASSUME NEW d \in Daemon, NEW e \in Event, Handle(d, e)
      PROVE  Inv' /\ \A a \in signed' \ signed : author'[a] = d /\ past'[a] = {a} \cup Graphs'[d]
  BY <1>2, HandleKeeps
<1>3. ASSUME NEW d \in Daemon, NEW e \in Event, FetchMissing(d, e) \/ Publish(d, e) \/ PublishFails(d, e)
      PROVE  Inv' /\ signed' = signed
  BY <1>3, OtherKeeps
<1>4. ASSUME NEW d \in Daemon, Restart(d) PROVE Inv' /\ signed' = signed
  <2>1. UNCHANGED ledger /\ held' = held /\ signed' = signed
    BY <1>4 DEF Restart, ledger
  <2>2. PastInv' /\ AckBacked'
    BY <2>1, LedgerKeeps
  <2>3. Typed'
    BY <1>4 DEF Restart, ledger, Inv, Typed
  <2> QED  BY <2>1, <2>2, <2>3 DEF Inv
<1>5. CASE UNCHANGED vars
  <2>1. UNCHANGED ledger /\ held' = held /\ signed' = signed
    BY <1>5 DEF vars, ledger, daemon
  <2>2. PastInv' /\ AckBacked'
    BY <2>1, LedgerKeeps
  <2>3. Typed'
    BY <1>5 DEF vars, ledger, relay, daemon, Inv, Typed
  <2> QED  BY <2>1, <2>2, <2>3 DEF Inv
<1> QED
  BY <1>1, <1>2, <1>3, <1>4, <1>5 DEF Next

LEMMA IsInvariant == Spec => []Inv
<1>1. Inv /\ [Next]_vars => Inv'
  BY StepInv
<1> QED  BY InitInv, <1>1, PTL DEF Spec

-----------------------------------------------------------------------------

\* The past recorded at signing is the ancestry of the tags, and what a daemon's
\* Dag holds is the settled part of what it was given: the Dag of this module is
\* that of DagSpec, which the replica of src/dag.rs refines.
THEOREM DagIsTheSpecified == Spec => []DagAsSpecified
<1>1. Inv => DagAsSpecified
  <2> SUFFICES ASSUME Inv PROVE DagAsSpecified
    OBVIOUS
  <2>1. \A e \in signed : past[e] = Ancestors(tags, e)
    BY PastIsAncestry DEF Inv
  <2>2. \A d \in Daemon : Inserted(received[d]) = Settled(tags, received[d])
    BY GraphIsSettled DEF Inv, Typed
  <2> QED  BY <2>1, <2>2 DEF DagAsSpecified
<1> QED  BY <1>1, IsInvariant, PTL

\* What any daemon of src/bin/federation.rs shows as canonical is known, with
\* all it rests on, to four fifths of the federation, whatever was lost or
\* restarted.
THEOREM CanonicalIsKnown == Spec => []CanonicalHeldByQuorum
  BY CanonicalIsHeld, IsInvariant, PTL

\* An acknowledgement, when it is signed, covers everything its daemon holds
\* (src/bin/federation.rs, maybe_ack).
THEOREM AcksCover == Spec => AckCoversGraph
<1>1. Inv /\ [Next]_vars =>
          [\A a \in (signed' \ signed) \cap Ack : past'[a] = {a} \cup Graphs'[author'[a]]]_vars
  BY StepInv
<1> QED  BY <1>1, IsInvariant, PTL DEF Spec, AckCoversGraph
=============================================================================
