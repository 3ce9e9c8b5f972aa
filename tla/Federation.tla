----------------------------- MODULE Federation -----------------------------
(***************************************************************************)
(* The daemons of src/bin/federation.rs around one relay: users post chat  *)
(* messages, every daemon feeds what the relay sends it to its Dag and     *)
(* publishes acknowledgements of its tips after a random delay.            *)
(*                                                                         *)
(* A Dag is represented by the set of events it received, which is all     *)
(* that matters of it (theorem Convergence of DagProofs).  The relay is    *)
(* external: it stores chat messages (kind 42) and the channels they may   *)
(* name (kind 40), and, as NIP-01 says of kinds 20000 to 29999, forwards   *)
(* acknowledgements (kind 21000) to the subscribers of the moment without  *)
(* storing them.  Delivery is unordered.                                   *)
(***************************************************************************)
EXTENDS EventGraph

CONSTANTS
    Daemon,         \* keys of the running daemons
    Chat,           \* events of kind 42
    Channel,        \* events of kinds no daemon subscribes to
    User,           \* the key the chat messages are signed with
    ReplyTo,        \* events that a chat message may name in its tags
    MaxTags,        \* bound on the tags of a chat message
    EchoOwn,        \* whether the relay pool reports the events its owner sent
    MaxFaults       \* bound on restarts and failed publications

ASSUME FederationAssumption ==
    /\ Daemon \subseteq Author /\ Participant \subseteq Daemon
    /\ Chat \subseteq Event /\ Channel \subseteq Event \ Chat /\ User \in Author \ Daemon
    /\ EchoOwn \subseteq BOOLEAN /\ EchoOwn # {} /\ MaxFaults \in Nat

\* The events of kind 21000.
Ack == Event \ (Chat \cup Channel)

VARIABLES
    signed,         \* events that exist
    author,         \* the key that signed an event
    tags,           \* the parents an event names
    past,           \* an event and all its ancestors
    sent,           \* events the relay was given
    stored,         \* events the relay keeps
    inbox,          \* notifications a daemon has yet to handle
    received,       \* what a daemon's Dag was given, since it started
    fetching,       \* ids the handler is waiting for in fetch_missing
    outbox,         \* acknowledgements waiting for their delay to end
    held,           \* history: events that were once in a daemon's graph
    faults          \* restarts and failed publications so far

ledger == <<signed, author, tags, past>>
relay == <<sent, stored, inbox>>
daemon == <<received, fetching, outbox, held>>
vars == <<ledger, relay, daemon, faults>>

\* Mutant: an event is complete once its parents have arrived, buffered or not.
InsertedShallow(R) == {e \in R : tags[e] \subseteq R}

\* The graph, the buffered events' missing parents, the tips and the canonical
\* events of a Dag that was given the events of R.
Inserted(R) == {e \in R : past[e] \subseteq R}

MissingParents(R) == UNION {tags[e] : e \in R} \ Inserted(R)

Tips(R) == {e \in Inserted(R) : \A x \in Inserted(R) : e \notin tags[x]}

SeenBy(R, e) == {author[x] : x \in {y \in Inserted(R) : e \in past[y]}} \cap Participant

Canonical(R) == {e \in Inserted(R) : IsQuorum(SeenBy(R, e))}

-----------------------------------------------------------------------------

Init ==
    /\ signed = Channel
    /\ author = [e \in Event |-> User]
    /\ tags = [e \in Event |-> {}]
    /\ past = [e \in Event |-> {e}]
    /\ sent = Channel
    /\ stored = Channel
    /\ inbox = [d \in Daemon |-> {}]
    /\ received = [d \in Daemon |-> {}]
    /\ fetching = [d \in Daemon |-> {}]
    /\ outbox = [d \in Daemon |-> {}]
    /\ held = [d \in Daemon |-> {}]
    /\ faults = 0

\* A new event; its parents exist, for their ids are hashes.
Sign(e, key, ps) ==
    /\ signed' = signed \cup {e}
    /\ author' = [author EXCEPT ![e] = key]
    /\ tags' = [tags EXCEPT ![e] = ps]
    /\ past' = [past EXCEPT ![e] = {e} \cup UNION {past[p] : p \in ps}]

\* The notification of an event reaches the daemons of ds.
Notify(e, ds) ==
    inbox' = [d \in Daemon |-> IF d \in ds THEN inbox[d] \cup {e} ELSE inbox[d]]

\* A user posts a chat message, which may name events the relay was given.
Post(m, ps) ==
    /\ m \in Chat \ signed
    /\ ps \subseteq sent \cap ReplyTo
    /\ Cardinality(ps) <= MaxTags
    /\ Sign(m, User, ps)
    /\ sent' = sent \cup {m}
    /\ stored' = stored \cup {m}
    /\ Notify(m, Daemon)
    /\ UNCHANGED <<daemon, faults>>

\* Mutant: the acknowledgement names only the tips not acknowledged before.
MaybeAckUnacked(d, R) ==
    LET unacked == {t \in Tips(R) : d \notin SeenBy(R, t)}
    IN  IF d \in Participant /\ unacked # {}
        THEN /\ Ack \ signed # {}
             /\ LET a == CHOOSE x \in Ack \ signed : \A y \in Ack \ signed : x <= y
                IN  /\ Sign(a, d, unacked)
                    /\ outbox' = [outbox EXCEPT ![d] = @ \cup {a}]
        ELSE UNCHANGED <<ledger, outbox>>

\* Mutant: no new acknowledgement while one waits for its delay.
MaybeAckOneAtATime(d, R) ==
    IF outbox[d] = {} /\ d \in Participant /\ \E t \in Tips(R) : d \notin SeenBy(R, t)
    THEN /\ Ack \ signed # {}
         /\ LET a == CHOOSE x \in Ack \ signed : \A y \in Ack \ signed : x <= y
            IN  /\ Sign(a, d, Tips(R))
                /\ outbox' = [outbox EXCEPT ![d] = @ \cup {a}]
    ELSE UNCHANGED <<ledger, outbox>>

\* maybe_ack of a Dag that was given R: an acknowledgement of all the tips if
\* the daemon is a participant and has not acknowledged one of them.
MaybeAck(d, R) ==
    IF d \in Participant /\ \E t \in Tips(R) : d \notin SeenBy(R, t)
    THEN /\ Ack \ signed # {}
         /\ LET a == CHOOSE x \in Ack \ signed : \A y \in Ack \ signed : x <= y
            IN  /\ Sign(a, d, Tips(R))
                /\ outbox' = [outbox EXCEPT ![d] = @ \cup {a}]
    ELSE UNCHANGED <<ledger, outbox>>

\* handle_event; the loop of handle_notifications waits for it to finish.
Handle(d, e) ==
    LET R == received[d] \cup {e}
    IN  /\ fetching[d] = {}
        /\ e \in inbox[d]
        /\ inbox' = [inbox EXCEPT ![d] = @ \ {e}]
        /\ received' = [received EXCEPT ![d] = R]
        /\ held' = [held EXCEPT ![d] = @ \cup Inserted(R)]
        /\ \/ /\ e \in received[d]                          \* Duplicate
              /\ UNCHANGED <<ledger, fetching, outbox>>
           \/ /\ e \notin received[d] /\ e \in Inserted(R)  \* Inserted
              /\ IF e \in Chat THEN MaybeAck(d, R) ELSE UNCHANGED <<ledger, outbox>>
              /\ UNCHANGED fetching
           \/ /\ e \notin Inserted(R)                       \* Buffered
              /\ e \notin received[d]
              /\ fetching' = [fetching EXCEPT ![d] = MissingParents(R)]
              /\ UNCHANGED <<ledger, outbox>>
        /\ UNCHANGED <<sent, stored, faults>>

\* One fetch_events of fetch_missing: what the relay stores comes in as a
\* notification; anything else, and any error, is ignored.
FetchMissing(d, id) ==
    /\ id \in fetching[d]
    /\ fetching' = [fetching EXCEPT ![d] = @ \ {id}]
    /\ Notify(id, IF id \in stored THEN {d} ELSE {})
    /\ UNCHANGED <<ledger, sent, stored, received, outbox, held, faults>>

\* The task that maybe_ack spawned wakes up and sends its acknowledgement.
Publish(d, a) ==
    /\ a \in outbox[d]
    /\ outbox' = [outbox EXCEPT ![d] = @ \ {a}]
    /\ \E own \in EchoOwn : Notify(a, IF own THEN Daemon ELSE Daemon \ {d})
    /\ sent' = sent \cup {a}
    /\ UNCHANGED <<ledger, stored, received, fetching, held, faults>>

\* send_event fails: the error is logged and the acknowledgement is dropped.
PublishFails(d, a) ==
    /\ faults < MaxFaults
    /\ a \in outbox[d]
    /\ outbox' = [outbox EXCEPT ![d] = @ \ {a}]
    /\ faults' = faults + 1
    /\ UNCHANGED <<ledger, relay, received, fetching, held>>

\* The daemon is restarted: its Dag is empty, its tasks are gone, and its
\* subscription starts with the messages the relay stores.
Restart(d) ==
    /\ faults < MaxFaults
    /\ faults' = faults + 1
    /\ received' = [received EXCEPT ![d] = {}]
    /\ fetching' = [fetching EXCEPT ![d] = {}]
    /\ outbox' = [outbox EXCEPT ![d] = {}]
    /\ inbox' = [inbox EXCEPT ![d] = stored \cap Chat]
    /\ UNCHANGED <<ledger, sent, stored, held>>

Next ==
    \/ \E m \in Chat : \E ps \in SUBSET (sent \cap ReplyTo) : Post(m, ps)
    \/ \E d \in Daemon, e \in Event :
          \/ Handle(d, e)
          \/ FetchMissing(d, e)
          \/ Publish(d, e)
          \/ PublishFails(d, e)
    \/ \E d \in Daemon : Restart(d)

Spec == Init /\ [][Next]_vars

\* tokio runs every task that can run, a fetch ends within its timeout and a
\* delay within ten seconds; users need not post and faults need not occur.
FairSpec ==
    /\ Spec
    /\ \A d \in Daemon, e \in Event :
          /\ WF_vars(Handle(d, e))
          /\ WF_vars(FetchMissing(d, e))
          /\ WF_vars(Publish(d, e))

-----------------------------------------------------------------------------

\* The past recorded at signing is the ancestry that the tags define, and what
\* a Dag holds is its settled part: the Dag of this module is that of DagSpec.
DagAsSpecified ==
    /\ \A e \in signed : past[e] = Ancestors(tags, e)
    /\ \A d \in Daemon : Inserted(received[d]) = Settled(tags, received[d])

\* An event that some daemon shows as canonical is known, with its whole past,
\* to at least four fifths of the federation: each of them had it in its graph
\* or signed it, whatever restarted since.
CanonicalHeldByQuorum ==
    \A d \in Daemon : \A e \in Canonical(received[d]) :
        LET Knows(p) == \A x \in past[e] : x \in held[p] \/ author[x] = p
        IN  5 * Cardinality({p \in Participant : Knows(p)})
                >= 4 * Cardinality(Participant)

Graphs == [d \in Daemon |-> Inserted(received[d])]

\* Acknowledging the tips acknowledges everything the daemon holds.
AckCoversGraph ==
    [][\A a \in (signed' \ signed) \cap Ack :
          past'[a] = {a} \cup Graphs'[author'[a]]]_vars

\* p has acknowledged e: it signed an event that e is an ancestor of.
Acked(p, e) == \E a \in Ack \cap signed : author[a] = p /\ e \in past[a]

CanonicalEverywhere(e) == \A d \in Daemon : e \in Canonical(received[d])

\* A participant holds the message but has not acknowledged it, for an event
\* that is no message came last and completed it; see handle_event, maybe_ack.
LeftUnacked(m) ==
    /\ ~ past[m] \subseteq Chat
    /\ \E p \in Participant : m \in Inserted(received[p]) /\ ~Acked(p, m)

\* A message that was posted becomes canonical at every daemon, whatever the
\* order and delay of its acknowledgements, unless an event that is no message
\* completed it at a participant that never acknowledges it after that.
MessagesBecomeCanonical ==
    \A m \in Chat : m \in signed ~> (CanonicalEverywhere(m) \/ []LeftUnacked(m))
=============================================================================
