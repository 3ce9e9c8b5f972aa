------------------------------ MODULE Archive ------------------------------
(***************************************************************************)
(* The replicated archive of a page, createReplicatedArchive of            *)
(* p2p-archive.mjs: records in IndexedDB, gossip on a topic, and the       *)
(* newest snapshot.  The operators act on the archive of one page; the     *)
(* page that hosts it is in DemoPage.                                      *)
(*                                                                         *)
(* All records are snapshots: nothing else is published.  A record is its  *)
(* own id, which the code takes from a hash of its contents (it reads the  *)
(* clock once for the id and once for the record).  Gossip is external:    *)
(* what was sent may reach any subscriber (the sender, too), never, late   *)
(* or more than once.  IndexedDB executes the transactions of  *)
(* a page in the order they were created (external).                       *)
(***************************************************************************)
EXTENDS FiniteSets, Sequences, Integers

CONSTANTS
    Page,       \* pages, each in a browser of its own
    Event,      \* events the pages may show
    Time,       \* values of Date.now()
    None

Record == [peerId : Page, createdAt : Time, payload : SUBSET Event]

ASSUME ArchiveAssumption == Time \subseteq Nat /\ None \notin Record

Load == [op |-> "load", record |-> None, local |-> TRUE]

Transaction == {Load} \cup [op : {"put"}, record : Record, local : BOOLEAN]

\* hashing: calls of publishRecord that await the hash, numbered; tx: transactions
\* not yet complete, each with the call that awaits it; sending: records given to
\* pubsub.publish that is not settled.
ArchiveState(Call) ==
    [stage : {"absent", "loading", "subscribing", "ready", "failed"},
     seenIds : SUBSET Record,
     latestSnapshot : Record \cup {None},
     publishing : BOOLEAN,
     hashing : SUBSET [call : Call, payload : SUBSET Event],
     tx : Seq(Transaction),
     sending : SUBSET Record]

NoArchive == [stage |-> "absent", seenIds |-> {}, latestSnapshot |-> None,
              publishing |-> FALSE, hashing |-> {}, tx |-> <<>>, sending |-> {}]

\* A read of the store is pending in stage loading, and ahead of everything else.
LoadIsFirst(a) ==
    /\ a.stage = "loading" => a.tx # <<>>
    /\ \A i \in 1 .. Len(a.tx) : a.tx[i].op = "load" <=> (i = 1 /\ a.stage = "loading")

\* createReplicatedArchive, and start() up to the read in loadLatest.
Opened(stored) ==
    [NoArchive EXCEPT !.stage = "loading", !.seenIds = stored, !.tx = <<Load>>]

\* loadLatest sorts by time, then by id, which may be in any order.
Newest(records) == {r \in records : \A q \in records : q.createdAt <= r.createdAt}

\* syncSnapshot up to the await of the hash.
SyncSnapshot(a, call, payload) ==
    [a EXCEPT !.hashing = @ \cup {[call |-> call, payload |-> payload]}]

\* Mutant: a publication does not look whether another is under way.
PublishAnyway(a, r) == [a EXCEPT !.publishing = TRUE, !.sending = @ \cup {r}]

\* The end of publishRecord: one publication at a time, others are dropped.
Publish(a, r) ==
    IF a.publishing THEN a ELSE [a EXCEPT !.publishing = TRUE, !.sending = @ \cup {r}]

\* Mutant: a record is marked as seen once it is stored.
ApplyRecordMarksLate(a, r, local) ==
    [a EXCEPT !.tx = Append(@, [op |-> "put", record |-> r, local |-> local])]

\* applyRecord, up to the await of the transaction, of a record not seen yet.
ApplyRecord(a, r, local) ==
    [a EXCEPT !.seenIds = @ \cup {r},
              !.tx = Append(@, [op |-> "put", record |-> r, local |-> local])]

\* publishRecord after the hash.
PublishRecord(a, r) ==
    IF r \in a.seenIds THEN Publish(a, r) ELSE ApplyRecord(a, r, TRUE)

\* The handler of a message.
Message(a, r) == IF r \in a.seenIds THEN a ELSE ApplyRecord(a, r, FALSE)

\* Mutant: the last record to be stored counts as the newest.
IsNewSnapshotAlways(a, r) == TRUE

\* Whether a stored record becomes the latest snapshot, and is applied.
IsNewSnapshot(a, r) ==
    a.latestSnapshot = None \/ r.createdAt >= a.latestSnapshot.createdAt

\* The rest of applyRecord, and of publishRecord if it was the caller.
RecordStored(a) ==
    LET t == Head(a.tx)
        b == [a EXCEPT !.tx = Tail(@),
                       !.latestSnapshot = IF IsNewSnapshot(a, t.record) THEN t.record ELSE @]
    IN  IF t.local THEN Publish(b, t.record) ELSE b

\* The transaction is aborted: applyRecord throws.
RecordLost(a) == [a EXCEPT !.tx = Tail(@)]

\* pubsub.publish settles, either way.
PublishSettled(a, r) == [a EXCEPT !.publishing = FALSE, !.sending = @ \ {r}]
=============================================================================
