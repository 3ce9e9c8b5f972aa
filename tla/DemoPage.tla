------------------------------ MODULE DemoPage ------------------------------
(***************************************************************************)
(* The demo page, demo/index.html: its events, once in the replica of the  *)
(* graph and once in a map that the page shows and persists; the cache in  *)
(* localStorage; and the archive that exchanges snapshots of the map with  *)
(* other pages.  A step is the code between two awaits or callbacks.       *)
(*                                                                         *)
(* The replica is the set of events given to WasmDag.insert; what it makes *)
(* of them is in module Dag.  Restored events have no signature: whether   *)
(* WasmDag (the event type of the nostr library) accepts such an event is  *)
(* a choice made once.                                                     *)
(***************************************************************************)
EXTENDS Archive

CONSTANTS
    AcceptsUnsigned,    \* whether events without signature parse, a set of BOOLEANs
    MaxSyncs,           \* bound on snapshots
    MaxReloads          \* bound on reloads of the pages

ASSUME DemoAssumption ==
    /\ AcceptsUnsigned \subseteq BOOLEAN /\ AcceptsUnsigned # {}
    /\ MaxSyncs \in Nat /\ MaxReloads \in Nat

VARIABLES
    page,       \* the state of each page in memory
    archive,    \* its archive
    cache,      \* localStorage
    records,    \* IndexedDB
    gossip,     \* records that were sent on the topic
    acceptsUnsigned,
    created,    \* history: events the pages made
    handled,    \* history: records each archive handled since it opened
    twice,      \* history: those it handled again
    syncs, reloads

history == <<created, handled, twice>>
vars == <<page, archive, cache, records, gossip, acceptsUnsigned, history, syncs, reloads>>

\* dag: events given to the replica; events: the map the page shows; timer: a
\* call of persistCache is due.
NoPage == [booted |-> FALSE, dag |-> {}, events |-> {}, timer |-> FALSE]

PageState == [booted : BOOLEAN, dag : SUBSET Event, events : SUBSET Event, timer : BOOLEAN]

\* The state has its type, and an archive reads its store before it subscribes.
TypeOK ==
    /\ page \in [Page -> PageState]
    /\ archive \in [Page -> ArchiveState(1 .. MaxSyncs)]
    /\ \A p \in Page : LoadIsFirst(archive[p])
    /\ cache \in [Page -> (SUBSET Event) \cup {None}]
    /\ records \in [Page -> SUBSET Record]
    /\ gossip \subseteq Record
    /\ acceptsUnsigned \in BOOLEAN
    /\ created \subseteq Event
    /\ handled \in [Page -> SUBSET Record] /\ twice \in [Page -> SUBSET Record]
    /\ syncs \in 0 .. MaxSyncs /\ reloads \in 0 .. MaxReloads

Init ==
    /\ page = [p \in Page |-> NoPage]
    /\ archive = [p \in Page |-> NoArchive]
    /\ cache = [p \in Page |-> None]
    /\ records = [p \in Page |-> {}]
    /\ gossip = {}
    /\ acceptsUnsigned \in AcceptsUnsigned
    /\ created = {}
    /\ handled = [p \in Page |-> {}]
    /\ twice = [p \in Page |-> {}]
    /\ syncs = 0
    /\ reloads = 0
-----------------------------------------------------------------------------
(* The page.                                                               *)

\* Mutant: a snapshot replaces the map and is not given to the replica.
ApplyArchivePayloadMapOnly(pg, payload) ==
    IF acceptsUnsigned \/ payload = {}
    THEN [pg EXCEPT !.events = payload, !.timer = TRUE]
    ELSE [pg EXCEPT !.events = {}]

\* applyArchivePayload clears the map and inserts the events of the payload; it
\* gives up at the first that the replica rejects.  If it succeeds its caller
\* sets the status, which schedules persistCache.
ApplyArchivePayload(pg, payload) ==
    IF acceptsUnsigned \/ payload = {}
    THEN [pg EXCEPT !.events = payload, !.dag = @ \cup payload, !.timer = TRUE]
    ELSE [pg EXCEPT !.events = {}]

\* The page starts: the replica is empty, and the cache restored if there is one.
Boot(p) ==
    /\ ~page[p].booted
    /\ LET started == [page[p] EXCEPT !.booted = TRUE]
       IN  page' = [page EXCEPT ![p] =
                      IF cache[p] = None THEN started ELSE ApplyArchivePayload(started, cache[p])]
    /\ UNCHANGED <<archive, cache, records, gossip, acceptsUnsigned, history, syncs, reloads>>

\* render() or setStatus schedules persistCache: for a poll, a probe or a relay,
\* and, before the page has started, for a button that cannot work yet.
Render(p) ==
    /\ page' = [page EXCEPT ![p].timer = TRUE]
    /\ UNCHANGED <<archive, cache, records, gossip, acceptsUnsigned, history, syncs, reloads>>

\* resetDag after the participants are known: a new replica, with new events of
\* the quorum, which stand for one here.
ResetDag(pg, e) == [pg EXCEPT !.dag = {e}, !.events = {e}, !.timer = TRUE]

\* insertEvent of an event the page has made: an event of the form, a genesis
\* event or an acknowledgement.  One made again in the same second is a duplicate,
\* which changes nothing.
InsertEvent(pg, e) ==
    [pg EXCEPT !.dag = @ \cup {e}, !.events = @ \cup {e}, !.timer = TRUE]

MakeEvent(p) ==
    /\ page[p].booted
    /\ \E e \in Event \ created :
         /\ created' = created \cup {e}
         /\ page' = [page EXCEPT ![p] = InsertEvent(@, e)]
    /\ UNCHANGED <<archive, cache, records, gossip, acceptsUnsigned, handled, twice, syncs, reloads>>

\* The button, or a start without a cache that could be restored.
Reset(p) ==
    /\ page[p].booted
    /\ \E e \in Event \ created :
         /\ created' = created \cup {e}
         /\ page' = [page EXCEPT ![p] = ResetDag(@, e)]
    /\ UNCHANGED <<archive, cache, records, gossip, acceptsUnsigned, handled, twice, syncs, reloads>>

\* persistCache, when its timer fires: the cache is written and a snapshot of
\* the map is started.
PersistCache(p) ==
    LET a == archive[p]
        synced == a.stage # "absent"
    IN  /\ page[p].timer
        /\ synced => syncs < MaxSyncs
        /\ page' = [page EXCEPT ![p].timer = FALSE]
        /\ cache' = [cache EXCEPT ![p] = page[p].events]
        /\ IF synced
           THEN /\ archive' = [archive EXCEPT ![p] = SyncSnapshot(a, syncs + 1, page[p].events)]
                /\ syncs' = syncs + 1
           ELSE UNCHANGED <<archive, syncs>>
        /\ UNCHANGED <<records, gossip, acceptsUnsigned, history, reloads>>

\* localStorage is full or unavailable: nothing is persisted or sent.
PersistFails(p) ==
    /\ page[p].timer
    /\ page' = [page EXCEPT ![p].timer = FALSE]
    /\ UNCHANGED <<archive, cache, records, gossip, acceptsUnsigned, history, syncs, reloads>>

\* The page is reloaded: what its transactions had not reached is lost.
Reload(p) ==
    /\ reloads < MaxReloads
    /\ reloads' = reloads + 1
    /\ page' = [page EXCEPT ![p] = NoPage]
    /\ archive' = [archive EXCEPT ![p] = NoArchive]
    /\ \E n \in 0 .. Len(archive[p].tx) :
         records' = [records EXCEPT ![p] =
                       @ \cup ({archive[p].tx[i].record : i \in 1 .. n} \ {None})]
    /\ handled' = [handled EXCEPT ![p] = {}]
    /\ twice' = [twice EXCEPT ![p] = {}]
    /\ UNCHANGED <<cache, gossip, acceptsUnsigned, created, syncs>>

-----------------------------------------------------------------------------
(* The archive of a page.                                                  *)

\* A step of the archive alone; what it publishes is gossip.
ArchiveStep(p, a) ==
    /\ archive' = [archive EXCEPT ![p] = a]
    /\ gossip' = gossip \cup a.sending

\* initLibp2pNode, once the node has started.
OpenArchive(p) ==
    /\ page[p].booted
    /\ archive[p].stage = "absent"
    /\ ArchiveStep(p, Opened(records[p]))
    /\ UNCHANGED <<page, cache, records, acceptsUnsigned, history, syncs, reloads>>

\* The read of loadLatest is complete: the newest snapshot is applied.
LoadLatest(p) ==
    LET a == archive[p]
        loaded == [a EXCEPT !.tx = Tail(@), !.stage = "subscribing"]
    IN  /\ a.tx # <<>> /\ Head(a.tx).op = "load"
        /\ IF records[p] = {}
           THEN ArchiveStep(p, loaded) /\ UNCHANGED <<page, handled>>
           ELSE \E r \in Newest(records[p]) :
                  /\ ArchiveStep(p, [loaded EXCEPT !.latestSnapshot = r])
                  /\ page' = [page EXCEPT ![p] = ApplyArchivePayload(@, r.payload)]
                  /\ handled' = [handled EXCEPT ![p] = records[p]]
        /\ UNCHANGED <<cache, records, acceptsUnsigned, created, twice, syncs, reloads>>

\* The subscription is there: messages arrive, and start() sends a snapshot.
Subscribe(p) ==
    LET a == archive[p]
    IN  /\ a.stage = "subscribing"
        /\ syncs < MaxSyncs
        /\ ArchiveStep(p, SyncSnapshot([a EXCEPT !.stage = "ready"], syncs + 1, page[p].events))
        /\ syncs' = syncs + 1
        /\ UNCHANGED <<page, cache, records, acceptsUnsigned, history, reloads>>

\* The read or the subscription is rejected: start() ends, but persistCache goes
\* on using the archive.
StartFails(p) ==
    LET a == archive[p]
        loading == a.tx # <<>> /\ Head(a.tx).op = "load"
    IN  /\ loading \/ a.stage = "subscribing"
        /\ ArchiveStep(p, [a EXCEPT !.stage = "failed", !.tx = IF loading THEN Tail(@) ELSE @])
        /\ UNCHANGED <<page, cache, records, acceptsUnsigned, history, syncs, reloads>>

\* publishRecord has its hash and takes the time.
Hashed(p) ==
    LET a == archive[p]
    IN  /\ \E h \in a.hashing, now \in Time :
             ArchiveStep(p, PublishRecord([a EXCEPT !.hashing = @ \ {h}],
                                          [peerId |-> p, createdAt |-> now, payload |-> h.payload]))
        /\ UNCHANGED <<page, cache, records, acceptsUnsigned, history, syncs, reloads>>

\* A message arrives.
Receive(p) ==
    LET a == archive[p]
    IN  /\ a.stage = "ready"
        /\ \E r \in gossip : ArchiveStep(p, Message(a, r))
        /\ UNCHANGED <<page, cache, records, acceptsUnsigned, history, syncs, reloads>>

\* A record is stored, and applied if it is the newest.
Store(p) ==
    LET a == archive[p]
        r == Head(a.tx).record
    IN  /\ a.tx # <<>> /\ Head(a.tx).op = "put"
        /\ records' = [records EXCEPT ![p] = @ \cup {r}]
        /\ ArchiveStep(p, RecordStored(a))
        /\ page' = [page EXCEPT ![p] =
                      IF IsNewSnapshot(a, r) THEN ApplyArchivePayload(@, r.payload) ELSE @]
        /\ handled' = [handled EXCEPT ![p] = @ \cup {r}]
        /\ twice' = [twice EXCEPT ![p] = @ \cup (handled[p] \cap {r})]
        /\ UNCHANGED <<cache, acceptsUnsigned, created, syncs, reloads>>

StoreFails(p) ==
    LET a == archive[p]
    IN  /\ a.tx # <<>> /\ Head(a.tx).op = "put"
        /\ ArchiveStep(p, RecordLost(a))
        /\ UNCHANGED <<page, cache, records, acceptsUnsigned, history, syncs, reloads>>

PublishSettles(p) ==
    /\ \E r \in archive[p].sending : ArchiveStep(p, PublishSettled(archive[p], r))
    /\ UNCHANGED <<page, cache, records, acceptsUnsigned, history, syncs, reloads>>

Next ==
    \E p \in Page :
        \/ Boot(p) \/ Render(p) \/ MakeEvent(p) \/ Reset(p) \/ Reload(p)
        \/ PersistCache(p) \/ PersistFails(p)
        \/ OpenArchive(p) \/ LoadLatest(p) \/ Subscribe(p) \/ StartFails(p)
        \/ Hashed(p) \/ Receive(p) \/ Store(p) \/ StoreFails(p) \/ PublishSettles(p)

Spec == Init /\ [][Next]_vars

-----------------------------------------------------------------------------

\* Every event the page shows is in its replica, through resets, restored
\* caches and snapshots of others (insertEvent, resetDag, applyArchivePayload).
ShownAreInDag == \A p \in Page : page[p].events \subseteq page[p].dag

\* An archive handles a record once, also when a message is repeated while the
\* record is being stored, and when its own publications return (applyRecord).
HandledOnce == \A p \in Page : twice[p] = {}

\* latestSnapshot is a newest one of the stored records, in whatever order they
\* arrive and complete (applyRecord, loadLatest).
LatestIsNewest ==
    \A p \in Page : archive[p].stage \in {"subscribing", "ready"} =>
        \A r \in records[p] :
            /\ archive[p].latestSnapshot # None
            /\ r.createdAt <= archive[p].latestSnapshot.createdAt

\* publishing tells that a publication is under way, and there is but one.
OnePublication ==
    \A p \in Page : /\ Cardinality(archive[p].sending) <= 1
                    /\ archive[p].publishing <=> archive[p].sending # {}

\* The map the page shows holds the events of its replica, as the comment on
\* insertEvent has it; a snapshot taken before an insertion and applied after it,
\* or one without signatures, removes events from the map alone.
MapMirrorsDag == \A p \in Page : page[p].dag = page[p].events
=============================================================================
