----------------------------- MODULE DemoProofs -----------------------------
(***************************************************************************)
(* Proofs about the demo page and its archive, for any number of pages,    *)
(* events, snapshots and reloads.  The lemmas of the first part are about  *)
(* one archive; the invariant of an archive is stated relative to the      *)
(* records it stores and those it has handled.                             *)
(***************************************************************************)
EXTENDS DemoPage, FiniteSetTheorems, TLAPS

\* Every put is of a record of its own, marked as seen and new to the archive.
QueueSound(a, known) ==
    /\ \A i \in 1 .. Len(a.tx) : a.tx[i].op = "put" =>
         a.tx[i].record \in a.seenIds /\ a.tx[i].record \notin known
    /\ \A i, j \in 1 .. Len(a.tx) : a.tx[i].op = "put" /\ a.tx[j].op = "put" /\ i # j =>
         a.tx[i].record # a.tx[j].record

FlagSound(a) ==
    IF a.publishing THEN \E r \in Record : a.sending = {r} ELSE a.sending = {}

LatestSound(a, stored) ==
    a.stage \in {"subscribing", "ready"} =>
        \A r \in stored : /\ a.latestSnapshot # None
                          /\ r.createdAt <= a.latestSnapshot.createdAt

ArchiveInv(a, stored, done) ==
    /\ LoadIsFirst(a)
    /\ FlagSound(a)
    /\ a.stage # "absent"
    /\ stored \cup done \subseteq a.seenIds
    /\ QueueSound(a, stored \cup done)
    /\ LatestSound(a, stored)

Calls == 1 .. MaxSyncs

\* An archive that is not there knows nothing; the others satisfy ArchiveInv.
ArchivesOK ==
    \A p \in Page :
        /\ FlagSound(archive[p])
        /\ IF archive[p].stage = "absent"
           THEN archive[p] = NoArchive /\ handled[p] = {}
           ELSE ArchiveInv(archive[p], records[p], handled[p])

IInv == TypeOK /\ ShownAreInDag /\ HandledOnce /\ ArchivesOK

-----------------------------------------------------------------------------
(* The fields of an archive.                                               *)

Stages == {"absent", "loading", "subscribing", "ready", "failed"}

Fields(A, B, C, D, E, F) ==
    [stage : A, seenIds : B, latestSnapshot : C, publishing : BOOLEAN,
     hashing : D, tx : E, sending : F]

\* A field can be replaced by a value of its type, whatever the types are.
LEMMA FieldUpdates ==
    ASSUME NEW A, NEW B, NEW C, NEW D, NEW E, NEW F, NEW a \in Fields(A, B, C, D, E, F)
    PROVE  /\ \A x \in A : [a EXCEPT !.stage = x] \in Fields(A, B, C, D, E, F)
           /\ \A x \in C : [a EXCEPT !.latestSnapshot = x] \in Fields(A, B, C, D, E, F)
           /\ \A x \in BOOLEAN, y \in F :
                [a EXCEPT !.publishing = x, !.sending = y] \in Fields(A, B, C, D, E, F)
           /\ \A x \in D : [a EXCEPT !.hashing = x] \in Fields(A, B, C, D, E, F)
           /\ \A x \in E : [a EXCEPT !.tx = x] \in Fields(A, B, C, D, E, F)
           /\ \A x \in B, y \in E :
                [a EXCEPT !.seenIds = x, !.tx = y] \in Fields(A, B, C, D, E, F)
           /\ \A x \in E, y \in C :
                [a EXCEPT !.tx = x, !.latestSnapshot = y] \in Fields(A, B, C, D, E, F)
           /\ \A x \in E, y \in A :
                [a EXCEPT !.tx = x, !.stage = y] \in Fields(A, B, C, D, E, F)
    BY DEF Fields

Hashing == SUBSET [call : Calls, payload : SUBSET Event]

\* The same for the types of an archive.
LEMMA ArchiveUpdates ==
    ASSUME NEW a \in ArchiveState(Calls)
    PROVE  /\ \A x \in Stages : [a EXCEPT !.stage = x] \in ArchiveState(Calls)
           /\ \A x \in Record \cup {None} : [a EXCEPT !.latestSnapshot = x] \in ArchiveState(Calls)
           /\ \A x \in BOOLEAN, y \in SUBSET Record :
                [a EXCEPT !.publishing = x, !.sending = y] \in ArchiveState(Calls)
           /\ \A x \in Hashing : [a EXCEPT !.hashing = x] \in ArchiveState(Calls)
           /\ \A x \in Seq(Transaction) : [a EXCEPT !.tx = x] \in ArchiveState(Calls)
           /\ \A x \in SUBSET Record, y \in Seq(Transaction) :
                [a EXCEPT !.seenIds = x, !.tx = y] \in ArchiveState(Calls)
           /\ \A x \in Seq(Transaction), y \in Record \cup {None} :
                [a EXCEPT !.tx = x, !.latestSnapshot = y] \in ArchiveState(Calls)
           /\ \A x \in Seq(Transaction), y \in Stages :
                [a EXCEPT !.tx = x, !.stage = y] \in ArchiveState(Calls)
<1> DEFINE B == SUBSET Record
           C == Record \cup {None}
           E == Seq(Transaction)
           T == Fields(Stages, B, C, Hashing, E, B)
<1>1. T = ArchiveState(Calls)
    BY DEF Fields, Stages, Hashing, ArchiveState
<1> HIDE DEF B, C, E
<1>2. a \in T
    BY <1>1
<1>3. /\ \A x \in Stages : [a EXCEPT !.stage = x] \in T
      /\ \A x \in C : [a EXCEPT !.latestSnapshot = x] \in T
      /\ \A x \in BOOLEAN, y \in B :
           [a EXCEPT !.publishing = x, !.sending = y] \in T
      /\ \A x \in Hashing : [a EXCEPT !.hashing = x] \in T
      /\ \A x \in E : [a EXCEPT !.tx = x] \in T
      /\ \A x \in B, y \in E :
           [a EXCEPT !.seenIds = x, !.tx = y] \in T
      /\ \A x \in E, y \in C :
           [a EXCEPT !.tx = x, !.latestSnapshot = y] \in T
      /\ \A x \in E, y \in Stages :
           [a EXCEPT !.tx = x, !.stage = y] \in T
    BY <1>2, FieldUpdates
<1> HIDE DEF T
<1> QED
    BY <1>1, <1>3 DEF B, C, E

-----------------------------------------------------------------------------
(* One archive.                                                            *)

\* Publish touches only the flag and what is being sent.
LEMMA PublishKeeps ==
    ASSUME NEW a \in ArchiveState(Calls), NEW stored, NEW done, ArchiveInv(a, stored, done),
           NEW r \in Record
    PROVE  Publish(a, r) \in ArchiveState(Calls) /\ ArchiveInv(Publish(a, r), stored, done)
<1>1. CASE a.publishing
    BY <1>1 DEF Publish
<1>2. CASE ~a.publishing
    <2> DEFINE b == Publish(a, r)
    <2>1. b = [a EXCEPT !.publishing = TRUE, !.sending = @ \cup {r}]
        BY <1>2 DEF Publish
    <2>2. a.sending = {}
        BY <1>2 DEF ArchiveInv, FlagSound
    <2>3. /\ b.stage = a.stage /\ b.tx = a.tx /\ b.seenIds = a.seenIds
          /\ b.latestSnapshot = a.latestSnapshot /\ b.publishing = TRUE /\ b.sending = {r}
        BY <2>1, <2>2 DEF ArchiveState
    <2>4. b \in ArchiveState(Calls)
        <3>1. b = [a EXCEPT !.publishing = TRUE, !.sending = {r}]
            BY <2>1, <2>2
        <3>2. {r} \in SUBSET Record /\ TRUE \in BOOLEAN
            OBVIOUS
        <3> HIDE DEF b
        <3> QED
            BY <3>1, <3>2, ArchiveUpdates
    <2> QED
        BY <2>3, <2>4 DEF ArchiveInv, LoadIsFirst, FlagSound, QueueSound, LatestSound
<1> QED
    BY <1>1, <1>2

\* A record that was not seen is marked and queued.
LEMMA ApplyKeeps ==
    ASSUME NEW a \in ArchiveState(Calls), NEW stored, NEW done, ArchiveInv(a, stored, done),
           NEW r \in Record \ a.seenIds, NEW local \in BOOLEAN
    PROVE  /\ ApplyRecord(a, r, local) \in ArchiveState(Calls)
           /\ ArchiveInv(ApplyRecord(a, r, local), stored, done)
<1> DEFINE b == ApplyRecord(a, r, local)
           t == [op |-> "put", record |-> r, local |-> local]
<1>0. a.tx \in Seq(Transaction)
    BY DEF ArchiveState
<1>1. t \in Transaction
    BY DEF Transaction
<1>2. /\ b.stage = a.stage /\ b.tx = Append(a.tx, t) /\ b.seenIds = a.seenIds \cup {r}
      /\ b.latestSnapshot = a.latestSnapshot /\ b.publishing = a.publishing
      /\ b.sending = a.sending
    BY DEF ApplyRecord, ArchiveState
<1>3. b \in ArchiveState(Calls)
    <2>1. a.seenIds \cup {r} \in SUBSET Record /\ Append(a.tx, t) \in Seq(Transaction)
        BY <1>0, <1>1 DEF ArchiveState
    <2> QED
        BY <2>1, ArchiveUpdates DEF ApplyRecord
<1>4. /\ Len(b.tx) = Len(a.tx) + 1 /\ Len(a.tx) \in Nat
      /\ \A i \in 1 .. Len(a.tx) : b.tx[i] = a.tx[i]
      /\ b.tx[Len(a.tx) + 1] = t
    BY <1>0, <1>1, <1>2
<1>5. LoadIsFirst(b)
    <2>1. a.stage = "loading" => Len(a.tx) # 0
        BY <1>0 DEF LoadIsFirst, ArchiveInv
    <2>2. b.tx # <<>>
        BY <1>0, <1>1, <1>2
    <2> QED
        BY <1>2, <1>4, <2>1, <2>2 DEF LoadIsFirst, ArchiveInv
<1>6. QueueSound(b, stored \cup done)
    <2> SUFFICES ASSUME NEW i \in 1 .. Len(b.tx), b.tx[i].op = "put"
                 PROVE  /\ b.tx[i].record \in b.seenIds
                        /\ b.tx[i].record \notin stored \cup done
                        /\ \A j \in 1 .. Len(b.tx) : b.tx[j].op = "put" /\ i # j =>
                             b.tx[i].record # b.tx[j].record
        BY DEF QueueSound
    <2>1. \A k \in 1 .. Len(a.tx) : a.tx[k].op = "put" =>
            a.tx[k].record \in a.seenIds /\ a.tx[k].record \notin stored \cup done
        BY DEF ArchiveInv, QueueSound
    <2>2. \A k, l \in 1 .. Len(a.tx) : a.tx[k].op = "put" /\ a.tx[l].op = "put" /\ k # l =>
            a.tx[k].record # a.tx[l].record
        BY DEF ArchiveInv, QueueSound
    <2>3. t.record = r /\ r \notin a.seenIds /\ stored \cup done \subseteq a.seenIds
        BY DEF ArchiveInv
    <2> QED
        BY <1>2, <1>4, <2>1, <2>2, <2>3
<1> QED
    BY <1>2, <1>3, <1>5, <1>6 DEF ArchiveInv, FlagSound, LatestSound

\* A completed or aborted transaction leaves the queue; the others move up.
LEMMA TailKeeps ==
    ASSUME NEW a \in ArchiveState(Calls), NEW known, LoadIsFirst(a), QueueSound(a, known),
           a.tx # <<>>
    PROVE  LET b == [a EXCEPT !.tx = Tail(@)]
           IN  /\ b \in ArchiveState(Calls)
               /\ Head(a.tx) \in Transaction
               /\ \A i \in 1 .. Len(b.tx) : b.tx[i].op # "load" /\ b.tx[i] \in Transaction
               /\ QueueSound(b, known)
               /\ Head(a.tx).op = "put" => QueueSound(b, known \cup {Head(a.tx).record})
               /\ (Head(a.tx).op = "load") <=> (a.stage = "loading")
<1> DEFINE b == [a EXCEPT !.tx = Tail(@)]
<1>1. a.tx \in Seq(Transaction)
    BY DEF ArchiveState
<1>2. /\ b.tx = Tail(a.tx) /\ b.seenIds = a.seenIds /\ b \in ArchiveState(Calls)
    <2>1. Tail(a.tx) \in Seq(Transaction)
        BY <1>1
    <2>2. b.tx = Tail(a.tx) /\ b.seenIds = a.seenIds
        BY DEF ArchiveState
    <2> QED
        BY <2>1, <2>2, ArchiveUpdates
<1>3. /\ Len(a.tx) \in Nat /\ Len(a.tx) > 0 /\ Len(b.tx) = Len(a.tx) - 1
      /\ Head(a.tx) = a.tx[1] /\ Head(a.tx) \in Transaction
      /\ \A i \in 1 .. Len(b.tx) : i + 1 \in 1 .. Len(a.tx) /\ b.tx[i] = a.tx[i + 1]
    BY <1>1, <1>2
<1>4. \A i \in 1 .. Len(b.tx) : b.tx[i].op # "load" /\ b.tx[i] \in Transaction
    BY <1>1, <1>3 DEF LoadIsFirst
<1>5. /\ QueueSound(b, known)
      /\ Head(a.tx).op = "put" => QueueSound(b, known \cup {Head(a.tx).record})
    <2>1. \A k \in 1 .. Len(a.tx) : a.tx[k].op = "put" =>
            a.tx[k].record \in a.seenIds /\ a.tx[k].record \notin known
        BY DEF QueueSound
    <2>2. \A k, l \in 1 .. Len(a.tx) : a.tx[k].op = "put" /\ a.tx[l].op = "put" /\ k # l =>
            a.tx[k].record # a.tx[l].record
        BY DEF QueueSound
    <2>3. QueueSound(b, known)
        <3>1. ASSUME NEW i \in 1 .. Len(b.tx), b.tx[i].op = "put"
              PROVE  b.tx[i].record \in b.seenIds /\ b.tx[i].record \notin known
            BY <1>2, <1>3, <2>1, <3>1
        <3>2. ASSUME NEW i \in 1 .. Len(b.tx), NEW j \in 1 .. Len(b.tx), i # j,
                     b.tx[i].op = "put", b.tx[j].op = "put"
              PROVE  b.tx[i].record # b.tx[j].record
            <4>1. /\ i + 1 \in 1 .. Len(a.tx) /\ j + 1 \in 1 .. Len(a.tx) /\ i + 1 # j + 1
                  /\ b.tx[i] = a.tx[i + 1] /\ b.tx[j] = a.tx[j + 1]
                BY <1>3, <3>2
            <4> QED
                BY <2>2, <3>2, <4>1
        <3> QED
            BY <3>1, <3>2 DEF QueueSound
    <2>4. ASSUME Head(a.tx).op = "put", NEW i \in 1 .. Len(b.tx), b.tx[i].op = "put"
          PROVE  b.tx[i].record # Head(a.tx).record
        <3>1. 1 \in 1 .. Len(a.tx) /\ i + 1 \in 1 .. Len(a.tx) /\ i + 1 # 1
            BY <1>3
        <3> QED
            BY <1>3, <2>2, <2>4, <3>1
    <2> QED
        BY <2>3, <2>4 DEF QueueSound
<1>6. (Head(a.tx).op = "load") <=> (a.stage = "loading")
    BY <1>3 DEF LoadIsFirst
<1> QED
    BY <1>2, <1>3, <1>4, <1>5, <1>6

\* The end of a put: the record is stored and handled, and the newest is kept.
LEMMA StoredKeeps ==
    ASSUME NEW a \in ArchiveState(Calls), NEW stored \in SUBSET Record, NEW done,
           ArchiveInv(a, stored, done), a.tx # <<>>, Head(a.tx).op = "put"
    PROVE  LET r == Head(a.tx).record
           IN  /\ r \in Record /\ r \notin done
               /\ RecordStored(a) \in ArchiveState(Calls)
               /\ ArchiveInv(RecordStored(a), stored \cup {r}, done \cup {r})
<1> DEFINE t == Head(a.tx)
           r == t.record
           latest == IF IsNewSnapshot(a, r) THEN r ELSE a.latestSnapshot
           c == [a EXCEPT !.tx = Tail(@)]
           b == [a EXCEPT !.tx = Tail(@), !.latestSnapshot = latest]
<1>0. LoadIsFirst(a) /\ QueueSound(a, stored \cup done) /\ FlagSound(a) /\ a.stage # "absent"
      /\ stored \cup done \subseteq a.seenIds /\ LatestSound(a, stored)
    BY DEF ArchiveInv
<1>1. /\ c \in ArchiveState(Calls) /\ t \in Transaction /\ a.stage # "loading"
      /\ \A i \in 1 .. Len(c.tx) : c.tx[i].op # "load"
      /\ QueueSound(c, (stored \cup done) \cup {r})
    BY <1>0, TailKeeps
<1>2. r \in Record /\ t.local \in BOOLEAN
    BY <1>1 DEF Transaction, Load
<1>3. r \in a.seenIds /\ r \notin stored \cup done
    <2>1. a.tx \in Seq(Transaction)
        BY DEF ArchiveState
    <2>2. 1 \in 1 .. Len(a.tx) /\ a.tx[1] = t
        BY <2>1
    <2> QED
        BY <1>0, <2>2 DEF QueueSound
<1>4. latest \in Record \cup {None}
    BY <1>2 DEF ArchiveState
<1>5. /\ b.stage = a.stage /\ b.tx = c.tx /\ b.seenIds = a.seenIds /\ b.latestSnapshot = latest
      /\ b.publishing = a.publishing /\ b.sending = a.sending
      /\ b \in ArchiveState(Calls)
    BY <1>1, <1>4 DEF ArchiveState
<1>6. LoadIsFirst(b)
    BY <1>1, <1>5 DEF LoadIsFirst
<1>7. QueueSound(b, (stored \cup {r}) \cup (done \cup {r}))
    <2>1. (stored \cup done) \cup {r} = (stored \cup {r}) \cup (done \cup {r})
        OBVIOUS
    <2>2. QueueSound(c, (stored \cup {r}) \cup (done \cup {r}))
        BY <1>1, <2>1
    <2>3. c.seenIds = b.seenIds
        BY <1>5 DEF ArchiveState
    <2> QED
        BY <1>5, <2>2, <2>3 DEF QueueSound
<1>8. LatestSound(b, stored \cup {r})
    <2> SUFFICES ASSUME a.stage \in {"subscribing", "ready"}, NEW q \in stored \cup {r}
                 PROVE  latest # None /\ q.createdAt <= latest.createdAt
        BY <1>5 DEF LatestSound
    <2>1. /\ a.latestSnapshot \in Record \cup {None} /\ q \in Record
          /\ q \in stored => a.latestSnapshot # None /\ q.createdAt <= a.latestSnapshot.createdAt
        BY <1>0, <1>2 DEF LatestSound, ArchiveState
    <2>2. /\ r.createdAt \in Nat /\ q.createdAt \in Nat
          /\ a.latestSnapshot # None => a.latestSnapshot.createdAt \in Nat
        BY <1>2, <2>1, ArchiveAssumption DEF Record
    <2>3. CASE IsNewSnapshot(a, r)
        <3>1. latest = r /\ r # None
            BY <1>2, <2>3, ArchiveAssumption
        <3>2. CASE q = r
            BY <2>2, <3>1, <3>2
        <3>3. CASE q \in stored
            <4>1. /\ q.createdAt <= a.latestSnapshot.createdAt
                  /\ a.latestSnapshot.createdAt <= r.createdAt
                  /\ a.latestSnapshot.createdAt \in Nat
                BY <2>1, <2>2, <2>3, <3>3 DEF IsNewSnapshot
            <4> HIDE DEF latest, r
            <4> QED
                BY <2>2, <3>1, <4>1
        <3> QED
            BY <3>2, <3>3
    <2>4. CASE ~IsNewSnapshot(a, r)
        <3>1. latest = a.latestSnapshot
            BY <2>4
        <3>2. a.latestSnapshot # None /\ ~(r.createdAt >= a.latestSnapshot.createdAt)
            BY <2>4 DEF IsNewSnapshot
        <3>3. q.createdAt <= a.latestSnapshot.createdAt
            BY <2>1, <2>2, <3>2
        <3> HIDE DEF latest, r
        <3> QED
            BY <3>1, <3>2, <3>3
    <2> QED
        BY <2>3, <2>4
<1>9. ArchiveInv(b, stored \cup {r}, done \cup {r})
    BY <1>0, <1>3, <1>5, <1>6, <1>7, <1>8 DEF ArchiveInv, FlagSound
<1>10. RecordStored(a) = IF t.local THEN Publish(b, r) ELSE b
    BY DEF RecordStored
<1> QED
    BY <1>2, <1>3, <1>5, <1>9, <1>10, PublishKeeps

\* What is not in the invariant may change.
LEMMA HashingIsFree ==
    ASSUME NEW a \in ArchiveState(Calls), NEW stored, NEW done, ArchiveInv(a, stored, done),
           NEW hs \in Hashing
    PROVE  LET b == [a EXCEPT !.hashing = hs]
           IN  b \in ArchiveState(Calls) /\ ArchiveInv(b, stored, done) /\ b.seenIds = a.seenIds
<1> DEFINE b == [a EXCEPT !.hashing = hs]
<1>1. /\ b.stage = a.stage /\ b.tx = a.tx /\ b.seenIds = a.seenIds
      /\ b.latestSnapshot = a.latestSnapshot /\ b.publishing = a.publishing
      /\ b.sending = a.sending
    BY DEF ArchiveState
<1>2. b \in ArchiveState(Calls)
    BY ArchiveUpdates
<1> QED
    BY <1>1, <1>2 DEF ArchiveInv, LoadIsFirst, FlagSound, QueueSound, LatestSound

\* syncSnapshot only adds a call that awaits its hash.
LEMMA SyncKeeps ==
    ASSUME NEW a \in ArchiveState(Calls), NEW stored, NEW done, ArchiveInv(a, stored, done),
           NEW n \in Calls, NEW payload \in SUBSET Event
    PROVE  /\ SyncSnapshot(a, n, payload) \in ArchiveState(Calls)
           /\ ArchiveInv(SyncSnapshot(a, n, payload), stored, done)
<1>1. a.hashing \cup {[call |-> n, payload |-> payload]} \in Hashing
    BY DEF ArchiveState, Hashing
<1> QED
    BY <1>1, HashingIsFree DEF SyncSnapshot

\* An aborted transaction only leaves the queue.
LEMMA LostKeeps ==
    ASSUME NEW a \in ArchiveState(Calls), NEW stored, NEW done, ArchiveInv(a, stored, done),
           a.tx # <<>>, Head(a.tx).op = "put"
    PROVE  RecordLost(a) \in ArchiveState(Calls) /\ ArchiveInv(RecordLost(a), stored, done)
<1> DEFINE b == [a EXCEPT !.tx = Tail(@)]
<1>1. /\ b \in ArchiveState(Calls) /\ QueueSound(b, stored \cup done) /\ a.stage # "loading"
      /\ \A i \in 1 .. Len(b.tx) : b.tx[i].op # "load"
    BY TailKeeps DEF ArchiveInv
<1>2. /\ b.stage = a.stage /\ b.seenIds = a.seenIds /\ b.latestSnapshot = a.latestSnapshot
      /\ b.publishing = a.publishing /\ b.sending = a.sending
    BY DEF ArchiveState
<1>3. LoadIsFirst(b)
    BY <1>1, <1>2 DEF LoadIsFirst
<1> QED
    BY <1>1, <1>2, <1>3 DEF RecordLost, ArchiveInv, FlagSound, LatestSound

\* When a publication settles, nothing is being sent.
LEMMA SettledKeeps ==
    ASSUME NEW a \in ArchiveState(Calls), NEW stored, NEW done, ArchiveInv(a, stored, done),
           NEW r \in a.sending
    PROVE  PublishSettled(a, r) \in ArchiveState(Calls) /\ ArchiveInv(PublishSettled(a, r), stored, done)
<1> DEFINE b == PublishSettled(a, r)
<1>1. a.sending = {r} /\ a.sending \ {r} = {}
    BY DEF ArchiveInv, FlagSound
<1>2. /\ b.stage = a.stage /\ b.tx = a.tx /\ b.seenIds = a.seenIds
      /\ b.latestSnapshot = a.latestSnapshot /\ b.publishing = FALSE /\ b.sending = {}
    BY <1>1 DEF PublishSettled, ArchiveState
<1>3. b \in ArchiveState(Calls)
    BY <1>1, ArchiveUpdates DEF PublishSettled
<1> QED
    BY <1>2, <1>3 DEF ArchiveInv, LoadIsFirst, FlagSound, QueueSound, LatestSound

LEMMA NoArchiveTyped == NoArchive \in ArchiveState(Calls)
<1>1. <<>> \in Seq(Transaction) /\ {} \in SUBSET [call : Calls, payload : SUBSET Event]
    OBVIOUS
<1> QED
    BY <1>1 DEF NoArchive, ArchiveState

\* An archive that opens has seen what is stored.
LEMMA OpenedSound ==
    ASSUME NEW stored \in SUBSET Record
    PROVE  Opened(stored) \in ArchiveState(Calls) /\ ArchiveInv(Opened(stored), stored, {})
<1> DEFINE b == Opened(stored)
<1>1. Load \in Transaction /\ <<Load>> \in Seq(Transaction)
    BY DEF Transaction
<1>2. /\ b.stage = "loading" /\ b.tx = <<Load>> /\ b.seenIds = stored /\ b.publishing = FALSE
      /\ b.sending = {}
    BY DEF Opened, NoArchive
<1>3. b \in ArchiveState(Calls)
    <2>1. [NoArchive EXCEPT !.stage = "loading"] \in ArchiveState(Calls)
        BY NoArchiveTyped, ArchiveUpdates DEF Stages
    <2> QED
        BY <1>1, <2>1, ArchiveUpdates DEF Opened
<1>4. /\ Len(b.tx) = 1 /\ b.tx # <<>> /\ b.tx[1].op = "load"
    BY <1>2 DEF Load
<1> QED
    BY <1>2, <1>3, <1>4 DEF ArchiveInv, LoadIsFirst, FlagSound, QueueSound, LatestSound

\* When the read is complete, the newest stored snapshot is the latest.
LEMMA LoadedSound ==
    ASSUME NEW a \in ArchiveState(Calls), NEW stored \in SUBSET Record, NEW done,
           ArchiveInv(a, stored, done), a.tx # <<>>, Head(a.tx).op = "load"
    PROVE  LET b == [a EXCEPT !.tx = Tail(@), !.stage = "subscribing"]
           IN  /\ b \in ArchiveState(Calls)
               /\ stored = {} => ArchiveInv(b, stored, done)
               /\ \A r \in Newest(stored) :
                    /\ [b EXCEPT !.latestSnapshot = r] \in ArchiveState(Calls)
                    /\ ArchiveInv([b EXCEPT !.latestSnapshot = r], stored, stored)
<1> DEFINE c == [a EXCEPT !.tx = Tail(@)]
           b == [a EXCEPT !.tx = Tail(@), !.stage = "subscribing"]
<1>1. /\ c \in ArchiveState(Calls) /\ QueueSound(c, stored \cup done)
      /\ \A i \in 1 .. Len(c.tx) : c.tx[i].op # "load"
    BY TailKeeps DEF ArchiveInv
<1>2. /\ b.stage = "subscribing" /\ b.tx = c.tx /\ b.seenIds = a.seenIds /\ c.seenIds = a.seenIds
      /\ b.publishing = a.publishing /\ b.sending = a.sending
    BY DEF ArchiveState
<1>3. b \in ArchiveState(Calls)
    <2>1. b = [c EXCEPT !.stage = "subscribing"]
        OBVIOUS
    <2> QED
        BY <1>1, <2>1, ArchiveUpdates DEF Stages
<1>4. stored = {} => ArchiveInv(b, stored, done)
    BY <1>1, <1>2 DEF ArchiveInv, LoadIsFirst, FlagSound, QueueSound, LatestSound
<1>5. ASSUME NEW r \in Newest(stored)
      PROVE  /\ [b EXCEPT !.latestSnapshot = r] \in ArchiveState(Calls)
             /\ ArchiveInv([b EXCEPT !.latestSnapshot = r], stored, stored)
    <2> DEFINE d == [b EXCEPT !.latestSnapshot = r]
    <2>1. r \in Record /\ \A q \in stored : q.createdAt <= r.createdAt
        BY DEF Newest
    <2>2. d \in ArchiveState(Calls)
        BY <1>3, <2>1, ArchiveUpdates
    <2>3. /\ d.stage = "subscribing" /\ d.tx = c.tx /\ d.seenIds = a.seenIds
          /\ d.publishing = a.publishing /\ d.sending = a.sending /\ d.latestSnapshot = r
        BY <1>2, <1>3 DEF ArchiveState
    <2>4. QueueSound(d, stored \cup stored)
        BY <1>1, <1>2, <2>3 DEF QueueSound
    <2>5. LatestSound(d, stored)
        BY <2>1, <2>3, ArchiveAssumption DEF LatestSound
    <2>6. LoadIsFirst(d)
        BY <1>1, <2>3 DEF LoadIsFirst
    <2> QED
        BY <2>2, <2>3, <2>4, <2>5, <2>6 DEF ArchiveInv, FlagSound
<1> QED
    BY <1>3, <1>4, <1>5

\* start() goes on, or ends with an error.
LEMMA StageMoves ==
    ASSUME NEW a \in ArchiveState(Calls), NEW stored, NEW done, ArchiveInv(a, stored, done),
           NEW st \in {"ready", "failed"}, a.stage = "subscribing"
    PROVE  LET b == [a EXCEPT !.stage = st]
           IN  b \in ArchiveState(Calls) /\ ArchiveInv(b, stored, done)
<1> DEFINE b == [a EXCEPT !.stage = st]
<1>1. /\ b.stage = st /\ b.tx = a.tx /\ b.seenIds = a.seenIds
      /\ b.latestSnapshot = a.latestSnapshot /\ b.publishing = a.publishing
      /\ b.sending = a.sending
    BY DEF ArchiveState
<1>2. b \in ArchiveState(Calls)
    BY ArchiveUpdates DEF Stages
<1> QED
    BY <1>1, <1>2 DEF ArchiveInv, LoadIsFirst, FlagSound, QueueSound, LatestSound

\* The read of the store is rejected.
LEMMA LoadFails ==
    ASSUME NEW a \in ArchiveState(Calls), NEW stored, NEW done, ArchiveInv(a, stored, done),
           a.tx # <<>>, Head(a.tx).op = "load"
    PROVE  LET b == [a EXCEPT !.stage = "failed", !.tx = Tail(@)]
           IN  b \in ArchiveState(Calls) /\ ArchiveInv(b, stored, done)
<1> DEFINE c == [a EXCEPT !.tx = Tail(@)]
           b == [a EXCEPT !.stage = "failed", !.tx = Tail(@)]
<1>1. /\ c \in ArchiveState(Calls) /\ QueueSound(c, stored \cup done)
      /\ \A i \in 1 .. Len(c.tx) : c.tx[i].op # "load"
    BY TailKeeps DEF ArchiveInv
<1>2. /\ b.stage = "failed" /\ b.tx = c.tx /\ b.seenIds = a.seenIds /\ c.seenIds = a.seenIds
      /\ b.publishing = a.publishing /\ b.sending = a.sending
    BY DEF ArchiveState
<1>3. b \in ArchiveState(Calls)
    <2>1. [a EXCEPT !.stage = "failed"] \in ArchiveState(Calls)
        BY ArchiveUpdates DEF Stages
    <2>2. Tail(a.tx) \in Seq(Transaction)
        BY DEF ArchiveState
    <2>3. [a EXCEPT !.stage = "failed"].tx = a.tx
        BY DEF ArchiveState
    <2> QED
        BY <2>1, <2>2, <2>3, ArchiveUpdates
<1> QED
    BY <1>1, <1>2, <1>3 DEF ArchiveInv, LoadIsFirst, FlagSound, QueueSound, LatestSound

-----------------------------------------------------------------------------
(* The pages.                                                              *)

PageOK(pg) == pg \in PageState /\ pg.events \subseteq pg.dag

LEMMA PayloadApplied ==
    ASSUME NEW pg, PageOK(pg), NEW payload \in SUBSET Event
    PROVE  PageOK(ApplyArchivePayload(pg, payload))
BY DEF PageOK, ApplyArchivePayload, PageState

\* A page that changes alone, and stays sound, keeps the invariant of all pages.
LEMMA PageStep ==
    ASSUME IInv, NEW p \in Page, NEW pg, PageOK(pg), page' = [page EXCEPT ![p] = pg]
    PROVE  page' \in [Page -> PageState] /\ ShownAreInDag'
BY DEF IInv, TypeOK, ShownAreInDag, PageOK

\* The same for an archive that is there after the step, with its records.
LEMMA ArchiveChanges ==
    ASSUME IInv, NEW p \in Page, NEW b \in ArchiveState(Calls),
           archive' = [archive EXCEPT ![p] = b], ArchiveInv(b, records'[p], handled'[p]),
           \A q \in Page : q # p => records'[q] = records[q] /\ handled'[q] = handled[q]
    PROVE  /\ archive' \in [Page -> ArchiveState(Calls)]
           /\ \A q \in Page : LoadIsFirst(archive'[q])
           /\ ArchivesOK'
           /\ b.sending \subseteq Record
<1>1. archive \in [Page -> ArchiveState(Calls)] /\ \A q \in Page : LoadIsFirst(archive[q])
    BY DEF IInv, TypeOK, Calls
<1>2. archive' \in [Page -> ArchiveState(Calls)] /\ archive'[p] = b
    BY <1>1
<1>3. \A q \in Page : q # p => archive'[q] = archive[q]
    BY <1>1
<1>4. \A q \in Page : LoadIsFirst(archive'[q])
    BY <1>1, <1>2, <1>3 DEF ArchiveInv
<1>5. ASSUME NEW q \in Page
      PROVE  /\ FlagSound(archive'[q])
             /\ IF archive'[q].stage = "absent"
                THEN archive'[q] = NoArchive /\ handled'[q] = {}
                ELSE ArchiveInv(archive'[q], records'[q], handled'[q])
    <2>1. CASE q = p
        BY <1>2, <2>1 DEF ArchiveInv
    <2>2. CASE q # p
        BY <1>3, <2>2 DEF IInv, ArchivesOK
    <2> QED
        BY <2>1, <2>2
<1>6. b.sending \subseteq Record
    BY DEF ArchiveState
<1> QED
    BY <1>2, <1>4, <1>5, <1>6 DEF ArchivesOK

\* Nothing changes for an archive if its variables do not.
LEMMA ArchivesUnchanged ==
    ASSUME IInv, UNCHANGED <<archive, records, handled>>
    PROVE  /\ archive' \in [Page -> ArchiveState(Calls)]
           /\ \A q \in Page : LoadIsFirst(archive'[q])
           /\ ArchivesOK'
BY DEF IInv, TypeOK, ArchivesOK, Calls

\* What the invariant says of one page.
LEMMA AtPage ==
    ASSUME IInv, NEW p \in Page
    PROVE  /\ archive[p] \in ArchiveState(Calls) /\ PageOK(page[p])
           /\ records[p] \in SUBSET Record /\ gossip \subseteq Record
           /\ archive[p].stage # "absent" => ArchiveInv(archive[p], records[p], handled[p])
           /\ archive[p].stage = "absent" => archive[p] = NoArchive /\ handled[p] = {}
BY DEF IInv, TypeOK, ArchivesOK, ShownAreInDag, PageOK, Calls

\* The parts of TypeOK that steps rarely touch.
RestOK ==
    /\ cache \in [Page -> (SUBSET Event) \cup {None}]
    /\ acceptsUnsigned \in BOOLEAN
    /\ created \subseteq Event
    /\ syncs \in 0 .. MaxSyncs /\ reloads \in 0 .. MaxReloads

\* The invariant from its parts.
LEMMA Assemble ==
    ASSUME page' \in [Page -> PageState], ShownAreInDag',
           archive' \in [Page -> ArchiveState(Calls)],
           \A q \in Page : LoadIsFirst(archive'[q]), ArchivesOK',
           records' \in [Page -> SUBSET Record], gossip' \subseteq Record, RestOK',
           handled' \in [Page -> SUBSET Record], twice' \in [Page -> SUBSET Record],
           HandledOnce'
    PROVE  IInv'
BY DEF IInv, TypeOK, RestOK, Calls

LEMMA Parts ==
    ASSUME IInv
    PROVE  /\ page \in [Page -> PageState] /\ ShownAreInDag
           /\ records \in [Page -> SUBSET Record] /\ gossip \subseteq Record /\ RestOK
           /\ handled \in [Page -> SUBSET Record] /\ twice \in [Page -> SUBSET Record]
           /\ HandledOnce
BY DEF IInv, TypeOK, RestOK

\* Init establishes the invariant.
LEMMA InitOK == Init => IInv
<1> SUFFICES ASSUME Init PROVE IInv
    OBVIOUS
<1>1. TypeOK
    <2>1. archive \in [Page -> ArchiveState(Calls)]
        BY NoArchiveTyped DEF Init
    <2>2. \A p \in Page : LoadIsFirst(archive[p])
        BY DEF Init, NoArchive, LoadIsFirst
    <2>3. page \in [Page -> PageState]
        BY DEF Init, NoPage, PageState
    <2>4. acceptsUnsigned \in BOOLEAN /\ MaxSyncs \in Nat /\ MaxReloads \in Nat
        BY DemoAssumption DEF Init
    <2> QED
        BY <2>1, <2>2, <2>3, <2>4 DEF Init, TypeOK, Calls
<1>2. ShownAreInDag /\ HandledOnce
    BY DEF Init, ShownAreInDag, HandledOnce, NoPage
<1>3. ArchivesOK
    BY DEF Init, ArchivesOK, NoArchive, FlagSound
<1> QED
    BY <1>1, <1>2, <1>3 DEF IInv

\* Steps of the page that leave its archive alone.
LEMMA PageActions ==
    ASSUME IInv, NEW p \in Page,
           Boot(p) \/ Render(p) \/ MakeEvent(p) \/ Reset(p) \/ PersistFails(p)
    PROVE  IInv'
<1>1. PageOK(page[p]) /\ page \in [Page -> PageState]
    BY AtPage, Parts
<1>2. /\ UNCHANGED <<archive, records, gossip, handled, twice>>
      /\ RestOK'
    BY Parts DEF Boot, Render, MakeEvent, Reset, PersistFails, history, RestOK
<1>3. \E pg : PageOK(pg) /\ page' = [page EXCEPT ![p] = pg]
    <2>1. CASE Boot(p)
        <3> DEFINE started == [page[p] EXCEPT !.booted = TRUE]
        <3>1. PageOK(started)
            BY <1>1 DEF PageOK, PageState
        <3>2. cache[p] # None => cache[p] \in SUBSET Event
            BY Parts DEF RestOK
        <3> QED
            BY <2>1, <3>1, <3>2, PayloadApplied DEF Boot
    <2>2. CASE MakeEvent(p)
        <3>1. PICK e \in Event : page' = [page EXCEPT ![p] = InsertEvent(page[p], e)]
            BY <2>2, <1>1 DEF MakeEvent
        <3>2. PageOK(InsertEvent(page[p], e))
            BY <1>1 DEF InsertEvent, PageOK, PageState
        <3> QED
            BY <3>1, <3>2
    <2>3. CASE Reset(p)
        <3>1. PICK e \in Event : page' = [page EXCEPT ![p] = ResetDag(page[p], e)]
            BY <2>3, <1>1 DEF Reset
        <3>2. PageOK(ResetDag(page[p], e))
            BY <1>1 DEF ResetDag, PageOK, PageState
        <3> QED
            BY <3>1, <3>2
    <2>4. CASE PersistFails(p)
        <3>1. PageOK([page[p] EXCEPT !.timer = FALSE])
            BY <1>1 DEF PageOK, PageState
        <3>2. page' = [page EXCEPT ![p] = [page[p] EXCEPT !.timer = FALSE]]
            BY <2>4 DEF PersistFails
        <3> QED
            BY <3>1, <3>2
    <2>5. CASE Render(p)
        <3>1. PageOK([page[p] EXCEPT !.timer = TRUE])
            BY <1>1 DEF PageOK, PageState
        <3>2. page' = [page EXCEPT ![p] = [page[p] EXCEPT !.timer = TRUE]]
            BY <2>5 DEF Render
        <3> QED
            BY <3>1, <3>2
    <2> QED
        BY <2>1, <2>2, <2>3, <2>4, <2>5
<1>4. page' \in [Page -> PageState] /\ ShownAreInDag'
    BY <1>3, PageStep
<1>5. /\ records' \in [Page -> SUBSET Record] /\ gossip' \subseteq Record
      /\ handled' \in [Page -> SUBSET Record] /\ twice' \in [Page -> SUBSET Record]
      /\ HandledOnce'
    BY <1>2, Parts DEF HandledOnce
<1> QED
    BY <1>2, <1>4, <1>5, ArchivesUnchanged, Assemble

\* persistCache writes the map and may start a snapshot.
LEMMA PersistOK ==
    ASSUME IInv, NEW p \in Page, PersistCache(p)
    PROVE  IInv'
<1> DEFINE a == archive[p]
           pg == [page[p] EXCEPT !.timer = FALSE]
<1>1. page[p].events \in SUBSET Event /\ PageOK(pg) /\ page' = [page EXCEPT ![p] = pg]
    BY AtPage DEF PageOK, PageState, PersistCache
<1>2. page' \in [Page -> PageState] /\ ShownAreInDag'
    BY <1>1, PageStep
<1>3. /\ UNCHANGED <<records, gossip, handled, twice, acceptsUnsigned, created, reloads>>
      /\ cache' = [cache EXCEPT ![p] = page[p].events]
    BY DEF PersistCache, history
<1>4. /\ records' \in [Page -> SUBSET Record] /\ gossip' \subseteq Record
      /\ handled' \in [Page -> SUBSET Record] /\ twice' \in [Page -> SUBSET Record]
      /\ HandledOnce'
    BY <1>3, Parts DEF HandledOnce
<1>5. CASE a.stage = "absent"
    <2>1. UNCHANGED <<archive, syncs>>
        BY <1>5 DEF PersistCache
    <2>2. RestOK'
        BY <1>1, <1>3, <2>1, Parts DEF RestOK
    <2> QED
        BY <1>2, <1>3, <1>4, <2>1, <2>2, ArchivesUnchanged, Assemble
<1>6. CASE a.stage # "absent"
    <2>1. /\ syncs < MaxSyncs /\ syncs' = syncs + 1
          /\ archive' = [archive EXCEPT ![p] = SyncSnapshot(a, syncs + 1, page[p].events)]
        BY <1>6 DEF PersistCache
    <2>2. syncs + 1 \in Calls /\ syncs' \in 0 .. MaxSyncs
        BY <2>1, Parts, DemoAssumption DEF Calls, RestOK
    <2>3. RestOK'
        BY <1>1, <1>3, <2>2, Parts DEF RestOK
    <2>4. /\ SyncSnapshot(a, syncs + 1, page[p].events) \in ArchiveState(Calls)
          /\ ArchiveInv(SyncSnapshot(a, syncs + 1, page[p].events), records'[p], handled'[p])
        BY <1>1, <1>3, <1>6, <2>2, AtPage, SyncKeeps
    <2> QED
        BY <1>2, <1>3, <1>4, <2>1, <2>3, <2>4, ArchiveChanges, Assemble
<1> QED
    BY <1>5, <1>6

\* A step of an archive that stores and handles nothing.
LEMMA QuietStep ==
    ASSUME IInv, NEW p \in Page, NEW b \in ArchiveState(Calls), ArchiveStep(p, b),
           ArchiveInv(b, records[p], handled[p]),
           UNCHANGED <<page, records, handled, twice>>, RestOK'
    PROVE  IInv'
<1>1. /\ archive' = [archive EXCEPT ![p] = b] /\ gossip' = gossip \cup b.sending
      /\ ArchiveInv(b, records'[p], handled'[p])
    BY DEF ArchiveStep
<1>2. /\ archive' \in [Page -> ArchiveState(Calls)] /\ \A q \in Page : LoadIsFirst(archive'[q])
      /\ ArchivesOK' /\ b.sending \subseteq Record
    BY <1>1, ArchiveChanges
<1>3. /\ page' \in [Page -> PageState] /\ ShownAreInDag'
      /\ records' \in [Page -> SUBSET Record] /\ gossip' \subseteq Record
      /\ handled' \in [Page -> SUBSET Record] /\ twice' \in [Page -> SUBSET Record]
      /\ HandledOnce'
    BY <1>1, <1>2, Parts DEF ShownAreInDag, HandledOnce
<1> QED
    BY <1>2, <1>3, Assemble

\* The actions of this kind.
LEMMA QuietActions ==
    ASSUME IInv, NEW p \in Page,
           \/ OpenArchive(p) \/ Subscribe(p) \/ StartFails(p) \/ Hashed(p) \/ Receive(p)
           \/ StoreFails(p) \/ PublishSettles(p)
    PROVE  IInv'
<1> DEFINE a == archive[p]
<1>1. /\ a \in ArchiveState(Calls) /\ PageOK(page[p]) /\ records[p] \in SUBSET Record
      /\ gossip \subseteq Record
      /\ a.stage # "absent" => ArchiveInv(a, records[p], handled[p])
      /\ a.stage = "absent" => a = NoArchive /\ handled[p] = {}
    BY AtPage
<1>2. /\ UNCHANGED <<page, records, handled, twice, cache, acceptsUnsigned, created, reloads>>
    BY DEF OpenArchive, Subscribe, StartFails, Hashed, Receive, StoreFails, PublishSettles, history
<1>3. RestOK'
    <2>1. syncs' \in 0 .. MaxSyncs
        BY Parts, DemoAssumption
        DEF OpenArchive, Subscribe, StartFails, Hashed, Receive, StoreFails, PublishSettles, RestOK
    <2> QED
        BY <1>2, <2>1, Parts DEF RestOK
<1>4. SUFFICES \E b \in ArchiveState(Calls) : ArchiveStep(p, b) /\ ArchiveInv(b, records[p], handled[p])
    BY <1>2, <1>3, QuietStep
<1>5. a.tx # <<>> \/ a.sending # {} \/ a.hashing # {} => ArchiveInv(a, records[p], handled[p])
    BY <1>1 DEF NoArchive
<1>6. CASE OpenArchive(p)
    BY <1>1, <1>6, OpenedSound DEF OpenArchive
<1>7. CASE Subscribe(p)
    <2> DEFINE b == [a EXCEPT !.stage = "ready"]
    <2>1. b \in ArchiveState(Calls) /\ ArchiveInv(b, records[p], handled[p])
        BY <1>1, <1>7, StageMoves DEF Subscribe
    <2>2. syncs + 1 \in Calls /\ page[p].events \in SUBSET Event
        BY <1>1, <1>7, Parts, DemoAssumption DEF Subscribe, RestOK, Calls, PageOK, PageState
    <2> QED
        BY <1>7, <2>1, <2>2, SyncKeeps DEF Subscribe
<1>8. CASE StartFails(p)
    <2>1. CASE a.tx # <<>> /\ Head(a.tx).op = "load"
        <3> DEFINE b == [a EXCEPT !.stage = "failed", !.tx = Tail(@)]
        <3>1. ArchiveStep(p, b)
            BY <1>8, <2>1 DEF StartFails
        <3> QED
            BY <1>1, <1>5, <2>1, <3>1, LoadFails
    <2>2. CASE ~(a.tx # <<>> /\ Head(a.tx).op = "load")
        <3> DEFINE b == [a EXCEPT !.stage = "failed", !.tx = @]
                   c == [a EXCEPT !.stage = "failed"]
        <3>1. a.stage = "subscribing" /\ ArchiveStep(p, b)
            BY <1>8, <2>2 DEF StartFails
        <3>2. c \in ArchiveState(Calls) /\ ArchiveInv(c, records[p], handled[p])
            BY <1>1, <3>1, StageMoves
        <3>3. c.tx = a.tx
            BY <1>1 DEF ArchiveState
        <3>4. b = c
            BY <1>1, <3>2, <3>3 DEF ArchiveState
        <3> QED
            BY <3>1, <3>2, <3>4
    <2> QED
        BY <2>1, <2>2
<1>9. CASE Hashed(p)
    <2>1. PICK h \in a.hashing, now \in Time :
            ArchiveStep(p, PublishRecord([a EXCEPT !.hashing = @ \ {h}],
                                         [peerId |-> p, createdAt |-> now, payload |-> h.payload]))
        BY <1>9 DEF Hashed
    <2> DEFINE b == [a EXCEPT !.hashing = @ \ {h}]
               r == [peerId |-> p, createdAt |-> now, payload |-> h.payload]
    <2>2. a.hashing \ {h} \in Hashing /\ h.payload \in SUBSET Event
        BY <1>1 DEF ArchiveState, Hashing
    <2>3. b \in ArchiveState(Calls) /\ ArchiveInv(b, records[p], handled[p])
        BY <1>1, <1>5, <2>2, HashingIsFree
    <2>4. r \in Record
        BY <2>2 DEF Record
    <2> HIDE DEF b, r
    <2>5. /\ PublishRecord(b, r) \in ArchiveState(Calls)
          /\ ArchiveInv(PublishRecord(b, r), records[p], handled[p])
        BY <2>3, <2>4, PublishKeeps, ApplyKeeps DEF PublishRecord
    <2> QED
        BY <2>1, <2>5 DEF b, r
<1>10. CASE Receive(p)
    <2>1. PICK r \in gossip : ArchiveStep(p, Message(a, r))
        BY <1>10 DEF Receive
    <2>2. ArchiveInv(a, records[p], handled[p]) /\ r \in Record
        BY <1>1, <1>10 DEF Receive
    <2> QED
        BY <1>1, <2>1, <2>2, ApplyKeeps DEF Message
<1>11. CASE StoreFails(p)
    BY <1>1, <1>5, <1>11, LostKeeps DEF StoreFails
<1>12. CASE PublishSettles(p)
    BY <1>1, <1>5, <1>12, SettledKeeps DEF PublishSettles
<1> QED
    BY <1>6, <1>7, <1>8, <1>9, <1>10, <1>11, <1>12

\* loadLatest: what is stored counts as handled from here on.
LEMMA LoadOK ==
    ASSUME IInv, NEW p \in Page, LoadLatest(p)
    PROVE  IInv'
<1> DEFINE a == archive[p]
           b == [a EXCEPT !.tx = Tail(@), !.stage = "subscribing"]
<1>1. /\ a.tx # <<>> /\ Head(a.tx).op = "load"
      /\ UNCHANGED <<cache, records, acceptsUnsigned, created, twice, syncs, reloads>>
    BY DEF LoadLatest
<1>2. /\ a \in ArchiveState(Calls) /\ PageOK(page[p]) /\ records[p] \in SUBSET Record
      /\ ArchiveInv(a, records[p], handled[p])
    BY <1>1, AtPage DEF NoArchive
<1>3. RestOK'
    BY <1>1, Parts DEF RestOK
<1>4. /\ b \in ArchiveState(Calls)
      /\ records[p] = {} => ArchiveInv(b, records[p], handled[p])
      /\ \A r \in Newest(records[p]) :
           /\ [b EXCEPT !.latestSnapshot = r] \in ArchiveState(Calls)
           /\ ArchiveInv([b EXCEPT !.latestSnapshot = r], records[p], records[p])
    BY <1>1, <1>2, LoadedSound
<1>5. CASE records[p] = {}
    <2>1. ArchiveStep(p, b) /\ UNCHANGED <<page, handled>>
        BY <1>5 DEF LoadLatest
    <2> QED
        BY <1>1, <1>3, <1>4, <1>5, <2>1, QuietStep
<1>6. CASE records[p] # {}
    <2>1. PICK r \in Newest(records[p]) :
            /\ ArchiveStep(p, [b EXCEPT !.latestSnapshot = r])
            /\ page' = [page EXCEPT ![p] = ApplyArchivePayload(page[p], r.payload)]
            /\ handled' = [handled EXCEPT ![p] = records[p]]
        BY <1>6, <1>2, Parts DEF LoadLatest
    <2> DEFINE c == [b EXCEPT !.latestSnapshot = r]
    <2>2. c \in ArchiveState(Calls) /\ ArchiveInv(c, records[p], records[p])
        BY <1>4
    <2> HIDE DEF c
    <2>3. /\ handled' \in [Page -> SUBSET Record] /\ handled'[p] = records[p]
          /\ \A q \in Page : q # p => handled'[q] = handled[q]
        BY <1>2, <2>1, Parts
    <2>4. archive' = [archive EXCEPT ![p] = c] /\ gossip' = gossip \cup c.sending
        BY <2>1 DEF ArchiveStep, c
    <2>5. ArchiveInv(c, records'[p], handled'[p])
        BY <1>1, <2>2, <2>3
    <2>6. /\ archive' \in [Page -> ArchiveState(Calls)]
          /\ \A q \in Page : LoadIsFirst(archive'[q])
          /\ ArchivesOK' /\ c.sending \subseteq Record
        BY <1>1, <2>2, <2>3, <2>4, <2>5, ArchiveChanges
    <2>7. page' \in [Page -> PageState] /\ ShownAreInDag'
        <3>1. r.payload \in SUBSET Event
            BY <1>2, <2>1 DEF Newest, Record
        <3> QED
            BY <1>2, <2>1, <3>1, PayloadApplied, PageStep
    <2>8. /\ records' \in [Page -> SUBSET Record] /\ gossip' \subseteq Record
          /\ twice' \in [Page -> SUBSET Record] /\ HandledOnce'
        BY <1>1, <2>4, <2>6, Parts DEF HandledOnce
    <2> QED
        BY <1>3, <2>3, <2>6, <2>7, <2>8, Assemble
<1> QED
    BY <1>5, <1>6

\* A record is stored: it is new to the archive, so nothing is handled twice.
LEMMA StoreOK ==
    ASSUME IInv, NEW p \in Page, Store(p)
    PROVE  IInv'
<1> DEFINE a == archive[p]
           r == Head(a.tx).record
           b == RecordStored(a)
<1>1. /\ a.tx # <<>> /\ Head(a.tx).op = "put" /\ ArchiveStep(p, b)
      /\ records' = [records EXCEPT ![p] = @ \cup {r}]
      /\ handled' = [handled EXCEPT ![p] = @ \cup {r}]
      /\ twice' = [twice EXCEPT ![p] = @ \cup (handled[p] \cap {r})]
      /\ UNCHANGED <<cache, acceptsUnsigned, created, syncs, reloads>>
    BY DEF Store
<1>2. /\ a \in ArchiveState(Calls) /\ PageOK(page[p]) /\ records[p] \in SUBSET Record
      /\ ArchiveInv(a, records[p], handled[p])
    BY <1>1, AtPage DEF NoArchive
<1>3. /\ r \in Record /\ r \notin handled[p] /\ b \in ArchiveState(Calls)
      /\ ArchiveInv(b, records[p] \cup {r}, handled[p] \cup {r})
    BY <1>1, <1>2, StoredKeeps
<1>4. \/ page' = page
      \/ page' = [page EXCEPT ![p] = ApplyArchivePayload(page[p], r.payload)]
    <2>1. page \in [Page -> PageState]
        BY Parts
    <2> QED
        BY <2>1 DEF Store
<1> HIDE DEF b, r
<1>5. RestOK'
    BY <1>1, Parts DEF RestOK
<1>6. /\ records' \in [Page -> SUBSET Record] /\ handled' \in [Page -> SUBSET Record]
      /\ records'[p] = records[p] \cup {r} /\ handled'[p] = handled[p] \cup {r}
      /\ \A q \in Page : q # p => records'[q] = records[q] /\ handled'[q] = handled[q]
    BY <1>1, <1>3, Parts
<1>7. twice' \in [Page -> SUBSET Record] /\ HandledOnce'
    <2>1. handled[p] \cap {r} = {}
        BY <1>3
    <2> QED
        BY <1>1, <2>1, Parts DEF HandledOnce
<1>8. archive' = [archive EXCEPT ![p] = b] /\ gossip' = gossip \cup b.sending
    BY <1>1 DEF ArchiveStep
<1>9. ArchiveInv(b, records'[p], handled'[p])
    BY <1>3, <1>6
<1>10. /\ archive' \in [Page -> ArchiveState(Calls)] /\ \A q \in Page : LoadIsFirst(archive'[q])
       /\ ArchivesOK' /\ b.sending \subseteq Record
    BY <1>3, <1>6, <1>8, <1>9, ArchiveChanges
<1>11. page' \in [Page -> PageState] /\ ShownAreInDag'
    <2>1. CASE page' = page
        BY <2>1, Parts DEF ShownAreInDag
    <2>2. CASE page' = [page EXCEPT ![p] = ApplyArchivePayload(page[p], r.payload)]
        <3>1. r.payload \in SUBSET Event
            BY <1>3 DEF Record
        <3> QED
            BY <1>2, <2>2, <3>1, PayloadApplied, PageStep
    <2> QED
        BY <1>4, <2>1, <2>2
<1>12. gossip' \subseteq Record
    BY <1>8, <1>10, Parts
<1> QED
    BY <1>5, <1>6, <1>7, <1>10, <1>11, <1>12, Assemble

\* A reload keeps what was stored, of the transactions under way a prefix.
LEMMA ReloadOK ==
    ASSUME IInv, NEW p \in Page, Reload(p)
    PROVE  IInv'
<1>1. /\ reloads < MaxReloads /\ reloads' = reloads + 1
      /\ page' = [page EXCEPT ![p] = NoPage] /\ archive' = [archive EXCEPT ![p] = NoArchive]
      /\ handled' = [handled EXCEPT ![p] = {}] /\ twice' = [twice EXCEPT ![p] = {}]
      /\ UNCHANGED <<cache, gossip, acceptsUnsigned, created, syncs>>
    BY DEF Reload
<1>2. /\ records' \in [Page -> SUBSET Record]
      /\ \A q \in Page : q # p => records'[q] = records[q]
    <2>1. PICK n \in 0 .. Len(archive[p].tx) :
            records' = [records EXCEPT ![p] =
                          @ \cup ({archive[p].tx[i].record : i \in 1 .. n} \ {None})]
        BY DEF Reload
    <2>2. archive[p].tx \in Seq(Transaction)
        BY AtPage DEF ArchiveState
    <2>3. \A i \in 1 .. n : archive[p].tx[i] \in Transaction
        BY <2>1, <2>2
    <2>4. \A t \in Transaction : t.record \in Record \cup {None}
        BY DEF Transaction, Load
    <2>5. {archive[p].tx[i].record : i \in 1 .. n} \ {None} \subseteq Record
        BY <2>3, <2>4
    <2> QED
        BY <2>1, <2>5, Parts
<1>3. RestOK'
    BY <1>1, Parts, DemoAssumption DEF RestOK
<1>4. /\ handled' \in [Page -> SUBSET Record] /\ twice' \in [Page -> SUBSET Record]
      /\ HandledOnce' /\ gossip' \subseteq Record
    BY <1>1, Parts DEF HandledOnce
<1>5. page' \in [Page -> PageState] /\ ShownAreInDag'
    BY <1>1, PageStep DEF PageOK, NoPage, PageState
<1>6. archive' \in [Page -> ArchiveState(Calls)]
    BY <1>1, NoArchiveTyped DEF IInv, TypeOK, Calls
<1>7. /\ \A q \in Page : LoadIsFirst(archive'[q])
      /\ ArchivesOK'
    <2>0. archive \in [Page -> ArchiveState(Calls)]
        BY DEF IInv, TypeOK, Calls
    <2> SUFFICES ASSUME NEW q \in Page
                 PROVE  /\ LoadIsFirst(archive'[q]) /\ FlagSound(archive'[q])
                        /\ IF archive'[q].stage = "absent"
                           THEN archive'[q] = NoArchive /\ handled'[q] = {}
                           ELSE ArchiveInv(archive'[q], records'[q], handled'[q])
        BY DEF ArchivesOK
    <2>1. CASE q = p
        <3>1. archive'[q] = NoArchive /\ handled'[q] = {}
            BY <1>1, <2>0, <2>1, Parts
        <3>2. LoadIsFirst(NoArchive) /\ FlagSound(NoArchive) /\ NoArchive.stage = "absent"
            BY DEF NoArchive, LoadIsFirst, FlagSound
        <3> QED
            BY <3>1, <3>2
    <2>2. CASE q # p
        <3>1. archive'[q] = archive[q] /\ handled'[q] = handled[q] /\ records'[q] = records[q]
            BY <1>1, <1>2, <2>0, <2>2, Parts
        <3> QED
            BY <3>1 DEF IInv, TypeOK, ArchivesOK
    <2> QED
        BY <2>1, <2>2
<1> QED
    BY <1>2, <1>3, <1>4, <1>5, <1>6, <1>7, Assemble

-----------------------------------------------------------------------------
(* The specification.                                                      *)

\* IInv is an inductive invariant of the demo pages.
THEOREM DemoInvariant == Spec => []IInv
<1>1. IInv /\ [Next]_vars => IInv'
    <2> SUFFICES ASSUME IInv, [Next]_vars PROVE IInv'
        OBVIOUS
    <2>1. CASE Next
        BY <2>1, PageActions, PersistOK, QuietActions, LoadOK, StoreOK, ReloadOK DEF Next
    <2>2. CASE UNCHANGED vars
        <3>1. UNCHANGED <<page, archive, cache, records, gossip, acceptsUnsigned, created, handled,
                          twice, syncs, reloads>>
            BY <2>2 DEF vars, history
        <3>2. RestOK' /\ ShownAreInDag' /\ HandledOnce'
            BY <3>1, Parts DEF RestOK, ShownAreInDag, HandledOnce
        <3> QED
            BY <3>1, <3>2, Parts, ArchivesUnchanged, Assemble
    <2> QED
        BY <2>1, <2>2
<1> QED
    BY <1>1, InitOK, PTL DEF Spec

\* The types of all variables, and an archive reads its store before it subscribes.
THEOREM DemoTypeCorrect == Spec => []TypeOK
BY DemoInvariant, PTL DEF IInv

\* What a page shows is in its replica, whatever it resets, restores or receives.
THEOREM ShownInReplica == Spec => []ShownAreInDag
BY DemoInvariant, PTL DEF IInv

\* No archive handles a record twice between two starts of its page.
THEOREM RecordsHandledOnce == Spec => []HandledOnce
BY DemoInvariant, PTL DEF IInv

\* The latest snapshot is a newest of the stored ones, in any order of arrival.
THEOREM LatestSnapshotNewest == Spec => []LatestIsNewest
<1>1. IInv => LatestIsNewest
    BY DEF IInv, ArchivesOK, ArchiveInv, LatestSound, LatestIsNewest
<1> QED
    BY <1>1, DemoInvariant, PTL

\* The flag publishing is exact: at most one publication is under way.
THEOREM PublishesOneAtATime == Spec => []OnePublication
<1>1. ASSUME IInv PROVE OnePublication
    <2> SUFFICES ASSUME NEW p \in Page
                 PROVE  /\ Cardinality(archive[p].sending) <= 1
                        /\ archive[p].publishing <=> archive[p].sending # {}
        BY DEF OnePublication
    <2>1. FlagSound(archive[p]) /\ archive[p].publishing \in BOOLEAN
        BY <1>1, AtPage DEF IInv, ArchivesOK, ArchiveState
    <2>2. CASE archive[p].publishing
        <3>1. PICK r \in Record : archive[p].sending = {r}
            BY <2>1, <2>2 DEF FlagSound
        <3>2. Cardinality({r}) = 1
            BY FS_Singleton
        <3> QED
            BY <2>2, <3>1, <3>2
    <2>3. CASE ~archive[p].publishing
        <3>1. archive[p].sending = {}
            BY <2>1, <2>3 DEF FlagSound
        <3>2. Cardinality({}) = 0
            BY FS_EmptySet
        <3> QED
            BY <2>3, <3>1, <3>2
    <2> QED
        BY <2>2, <2>3
<1> QED
    BY <1>1, DemoInvariant, PTL
=============================================================================
