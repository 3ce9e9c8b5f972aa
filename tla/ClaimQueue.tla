----------------------------- MODULE ClaimQueue -----------------------------
(***************************************************************************)
(* The queue of claims that were made offline, claim-queue.js: entries in  *)
(* localStorage, which survive a reload, and the drains that submit them   *)
(* to the pools and relay them to the developer.  Nothing prevents a drain *)
(* from starting while another runs: each `online' event and each start of *)
(* the page calls tryDrain.                                                *)
(*                                                                         *)
(* An entry is named by the txid of its standard variant, here the claim.  *)
(* The pools and the relays are external, and so is the order in which a   *)
(* drain visits its entries, which no property tells apart.                *)
(***************************************************************************)
EXTENDS FiniteSets, Integers

CONSTANTS
    Claim,          \* hits the search may report
    Drain,          \* drains that may run at the same time (a bound)
    MaxReloads,     \* bound on reloads of the page
    None            \* no claim

ASSUME QueueAssumption == MaxReloads \in Nat /\ None \notin Claim

VARIABLES
    online,         \* navigator.onLine
    pending,        \* entries of the queue in localStorage
    wrapped,        \* claims whose entry was given a gift-wrap
    shieldSubmitted,\* entries of the queue that carry the mark
    drains,         \* the running drains
    idleCallback,   \* a tryDrain is due since the page started
    acknowledged,   \* history: how often an answer was a success, counted up to 2
    relayed,        \* history: claims a relay accepted
    reloads

storage == <<pending, wrapped, shieldSubmitted>>
world == <<acknowledged, relayed>>
queueVars == <<online, storage, drains, idleCallback, world, reloads>>

\* A drain keeps the queue it loaded, the entries it went through, the one it
\* is publishing, and what became of them.
NoDrain == [queue |-> {}, marks |-> {}, visited |-> {}, publishing |-> None,
            relayed |-> {}, accepted |-> {}]

Loaded == [NoDrain EXCEPT !.queue = pending, !.marks = shieldSubmitted]

Running(dr) == dr.queue # {}

QueueTypeOK ==
    /\ online \in BOOLEAN
    /\ pending \subseteq Claim
    /\ wrapped \subseteq Claim
    /\ shieldSubmitted \subseteq pending
    /\ drains \in [Drain -> [queue : SUBSET Claim, marks : SUBSET Claim,
                             visited : SUBSET Claim, publishing : Claim \cup {None},
                             relayed : SUBSET Claim, accepted : SUBSET Claim]]
    /\ idleCallback \in BOOLEAN
    /\ acknowledged \in [Claim -> 0 .. 2]
    /\ relayed \subseteq Claim
    /\ reloads \in 0 .. MaxReloads

QueueInit ==
    /\ online \in BOOLEAN
    /\ pending = {}
    /\ wrapped = {}
    /\ shieldSubmitted = {}
    /\ drains = [d \in Drain |-> NoDrain]
    /\ idleCallback = TRUE
    /\ acknowledged = [c \in Claim |-> 0]
    /\ relayed = {}
    /\ reloads = 0

-----------------------------------------------------------------------------
(* Answers of the pools.  A submission is a success for the code when      *)
(* either pool answers with success: Slipstream's is a 2xx with a txid;    *)
(* submitToShield also takes for one any JSON body without an error,       *)
(* whatever the HTTP status.                                               *)

PoolSuccess(c) == acknowledged' = [acknowledged EXCEPT ![c] = IF @ = 2 THEN 2 ELSE @ + 1]

PoolError == UNCHANGED acknowledged

-----------------------------------------------------------------------------

enqueue(c, hasWrap) ==
    /\ pending' = pending \cup {c}
    /\ wrapped' = IF hasWrap THEN wrapped \cup {c} ELSE wrapped
    /\ shieldSubmitted' = shieldSubmitted

\* tryDrain, up to its first await.  It returns at once when there is nothing
\* to do.
TryDrain(nowOnline) ==
    IF nowOnline /\ pending # {}
    THEN \E d \in Drain : /\ ~Running(drains[d])
                          /\ drains' = [drains EXCEPT ![d] = Loaded]
    ELSE drains' = drains

GoOnline ==
    /\ ~online
    /\ online' = TRUE
    /\ TryDrain(TRUE)
    /\ UNCHANGED <<storage, idleCallback, world, reloads>>

GoOffline ==
    /\ online
    /\ online' = FALSE
    /\ UNCHANGED <<storage, drains, idleCallback, world, reloads>>

IdleCallback ==
    /\ idleCallback
    /\ idleCallback' = FALSE
    /\ TryDrain(online)
    /\ UNCHANGED <<online, storage, world, reloads>>

\* Mutant: the end of a drain saves the queue it loaded when it started.
SaveLoaded(d, dr) ==
    /\ pending' = dr.queue \ dr.relayed
    /\ shieldSubmitted' = (dr.marks \cup dr.accepted) \ dr.relayed
    /\ drains' = [drains EXCEPT ![d] = NoDrain]

\* The end of a drain: the queue is loaded again, the relayed entries leave
\* it, the accepted ones are marked.
SaveStillPending(d, dr) ==
    /\ pending' = pending \ dr.relayed
    /\ shieldSubmitted' = (shieldSubmitted \cup (dr.accepted \cap pending)) \ dr.relayed
    /\ drains' = [drains EXCEPT ![d] = NoDrain]

\* Mutant: a drain goes through its queue again until all of it is relayed.
ContinueUntilRelayed(d, dr) ==
    IF dr.relayed = dr.queue /\ dr.publishing = None
    THEN SaveStillPending(d, dr)
    ELSE /\ drains' = [drains EXCEPT ![d] =
                         IF dr.visited = dr.queue /\ dr.publishing = None
                         THEN [dr EXCEPT !.visited = {}, !.accepted = {}] ELSE dr]
         /\ UNCHANGED <<pending, shieldSubmitted>>

\* The loop of drainOnce goes on with dr, or ends.
Continue(d, dr) ==
    IF dr.visited = dr.queue /\ dr.publishing = None
    THEN SaveStillPending(d, dr)
    ELSE drains' = [drains EXCEPT ![d] = dr] /\ UNCHANGED <<pending, shieldSubmitted>>

\* An entry is submitted to both pools, unless its mark says that was done; an
\* entry without a gift-wrap is then given up until the next drain.
SubmitQueuedToPools(d) ==
    LET dr == drains[d] IN
    /\ dr.publishing = None
    /\ \E c \in dr.queue \ dr.visited :
         LET next == [dr EXCEPT !.visited = @ \cup {c},
                                !.publishing = IF c \in wrapped THEN c ELSE None]
         IN  \/ /\ PoolError      \* or the entry was submitted already
                /\ Continue(d, next)
             \/ /\ c \notin dr.marks
                /\ PoolSuccess(c)
                /\ Continue(d, [next EXCEPT !.accepted = @ \cup {c}])
    /\ UNCHANGED <<online, wrapped, idleCallback, relayed, reloads>>

\* Every relay has answered or timed out; a relay may have taken the event
\* although its answer did not arrive, which changes nothing here.
PublishQueued(d) ==
    LET dr == drains[d]
        next == [dr EXCEPT !.publishing = None]
    IN  /\ dr.publishing # None
        /\ \E accepted \in BOOLEAN :
             IF accepted
             THEN /\ relayed' = relayed \cup {dr.publishing}
                  /\ Continue(d, [next EXCEPT !.relayed = @ \cup {dr.publishing}])
             ELSE Continue(d, next) /\ UNCHANGED relayed
        /\ UNCHANGED <<online, wrapped, idleCallback, acknowledged, reloads>>

\* The page is reloaded or closed and opened again: its drains are gone.
ReloadQueue ==
    /\ reloads < MaxReloads
    /\ reloads' = reloads + 1
    /\ drains' = [d \in Drain |-> NoDrain]
    /\ idleCallback' = TRUE
    /\ UNCHANGED <<online, storage, world>>

DrainStep(d) == SubmitQueuedToPools(d) \/ PublishQueued(d)

QueueNext ==
    \/ GoOnline \/ GoOffline \/ IdleCallback
    \/ \E d \in Drain : DrainStep(d)
=============================================================================
