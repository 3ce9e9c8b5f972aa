# A verification project for krackpot-rs

krackpot-rs is three programs in one repository: federation daemons that replicate a graph of
chat messages and acknowledgements over a Nostr relay (Rust, `src/`), a browser page that
searches a range of Bitcoin keys on the GPU and claims what it finds (`demo/krackpot/`), and a
demo page that shows the graph with peers that gossip (`demo/index.html`, `demo/shared/`).
This directory holds TLA+ modules for their state machines, configurations that check them with
TLC on small instances, and proofs checked by TLAPS.

`PROJECT.json` lists the components, runs, mutants, mapped source lines, findings, hazards and
theorems. Paths below are relative to the repository.

## Inventory

| Component | State | Operations | Interacts with | Hard because |
|---|---|---|---|---|
| Event DAG replica (`src/dag.rs`) | graph, buffered events, `waiting_for`, `children`, `seen_by`, depth cache | `insert` with its worklist, `tips`, `canonical_order`, `missing_parents` | called by the daemon and, as WASM, by the demo page | events come in any order, the worklist grows while it is drained, marks stop at the first marked ancestor |
| Federation daemon (`src/bin/federation.rs`, `src/event.rs`) | a replica, spawned acknowledgements that wait a random delay | `handle_event`, `maybe_ack`, `fetch_missing`, publication | relay: subscription, queries, publication | acknowledgements are signed before they are sent, may be lost, and are of a kind no relay stores |
| Relay (`src/bin/relay.rs`) | a library's `LocalRelay` | external | daemons and chat clients | order and repetition of notifications |
| Search coordinator (`coordinator.js`, `shaders/search.js`) | device, buffers, uploaded table, size of a dispatch, calibration in `localStorage`, loop state | `setup`, `start`, `runDispatch`, `recalibrate`, `recover`, `stop` | GPU, page | four awaits in a loop, device loss at any of them, a table whose stride is only remembered |
| WebGPU device (`webgpu.js`) | module device, caches | `initWebGPU`, `getDevice`, `ensureDevice`, lost callback | coordinator, capability check | the callback of an old device can run after a new one is there |
| Search page (`main.js`) | buttons, coordinator, stored pass of the capability check, autostart timer | boot, Start, Stop, re-check, autostart | coordinator, capability check, claim | handlers with awaits between a check of a button and its use |
| Capability check (`tests.js`, `runComputeOnce` of `webgpu.js`) | progress of the suite, caches of modules and pipelines, the phase its watchdog reads | `runAllTests`, `runWithWatchdog`, `runComputeOnce`, cancel | GPU, search page | a call that timed out or was cancelled goes on and writes shared state later; checks may overlap; the deadline follows the phase |
| GPU and CPU arithmetic (`shaders/*.js`, `reference/*.js`) | words, points, result slots of a dispatch | field and curve functions, `searchShader` | coordinator, capability check | carries at their limits, exceptional points, an inversion shared by a batch, threads that race for slots |
| Claim pipeline (`claim-*.js`, `prize-claim.js`, `shield.js`, `slipstream.js`) | queue and keys in `localStorage` | `orchestrateClaim`, `drainOnce`, `wireAutoDrain` | mining pools, relays | partial failure, deadlines, concurrent drains |
| Demo page (`demo/index.html`) | replica (WASM), map of events, cache | ingestion, reset, persistence | relays, archive, replica | callbacks and timers on shared state |
| Broadcast queue (`demo/index.html`) | queue, drain, retry timers | `queueBroadcast`, `drainBroadcastQueue`, `scheduleRetry`, `bootstrapCanonicality` | relays, demo page | retries on timers while callers wait, relays that change, rounds for a replica that is gone |
| Archive (`p2p-archive.mjs`) | IndexedDB log, set of seen records | publish, snapshot, subscribe | gossip topic | awaits between a test and a write |
| The rest | - | static server, key generator, page chrome, git viewer, peer-to-peer node, hashes | - | see "Not modelled" |

What makes each correct:

- replica: its contents depend on the set of events it received and not on their order; nothing
  that could be in the graph stays buffered; `seen_by` is exact; the tips descend from the whole graph; the canonical order respects
  ancestry and never changes among events already canonical.
- federation: what a daemon calls canonical a quorum holds; a message ends up canonical unless its
  acknowledgement is left out;
  acknowledgements do not breed; an acknowledgement covers all its author had seen.
- search: every key of a dispatch is scanned and a hit stands for the key that was found; sizes stay
  within what the shader resolves; a stopped search ends; recovery is bounded.
- page: one search at a time, only after a capability check that passed, and Stop is offered while
  it runs.
- check: it passes only if every test of the production path answered right in that run; every check ends, no test
  is failed before its time; a test computes with objects of its own device.
- arithmetic: every function returns the one reduced number that is right; the shader's points are the CPU's; every hit
  of a dispatch is read while there are slots.
- claim: the finder is told what happened; a claim is sent or stays queued; amounts add up.
- archive and demo page: a record is handled once, the latest snapshot is a newest one, what is shown is in
  the replica, one publication at a time.
- broadcast: a job is tried until a relay has taken it, and nobody who waits for a job waits for ever.

## Modules

| Module | Models |
|---|---|
| `EventGraph` | what a set of events, their parents and authors determines: ancestors, quorum |
| `DagSpec` | abstract: a replica as a function of the set of events it received |
| `Dag` | `dag.rs` with the steps of `process_unblocked` and the lookups as they are |
| `DagProofs` | proofs about `Dag` |
| `Federation` | several daemons and a relay, each insert one step |
| `FederationProofs` | proofs about `Federation` |
| `DispatchSize` | sizes of dispatches: `partition`, `recalibrate`, the shrink, the restored value; `Scan`, the keys a dispatch reports |
| `Field`, `Curve` | arithmetic modulo a prime, and the group by the shader's formulas and by the CPU's |
| `Loops` | a counted loop as the value it leaves |
| `Bigint` | the multi-word arithmetic of `shaders/bigint.js` |
| `SearchKernel` | one dispatch of `shaders/search.js` |
| `ShaderProofs` | proofs about `Bigint`, `Curve` and `SearchKernel` |
| `CapabilityCheck`, `CheckProofs` | `runAllTests` with its watchdog, `runComputeOnce` with its caches, and proofs about them |
| `SearchCoordinator` | the coordinator and the device handling of `webgpu.js` |
| `SearchPage` | `main.js` around the coordinator |
| `SearchProofs` | proofs about `SearchCoordinator` and `SearchPage` |
| `ClaimAmounts` | `prize-claim.js`: how the transactions of a claim divide the inputs |
| `ClaimQueue` | `claim-queue.js`: the queue in `localStorage` and its drains |
| `Claim` | `runClaim` of `main.js` and `claim-orchestrator.js`, with the queue |
| `ClaimProofs` | proofs about `Claim` |
| `Archive` | `p2p-archive.mjs`: the operations on one replicated archive, as operators |
| `DemoPage` | `demo/index.html` around it: events, cache, reset, several pages that gossip |
| `DemoProofs` | proofs about `DemoPage` |
| `Broadcast`, `BroadcastProofs` | the broadcast queue of the demo page with its retries and rounds, and proofs about it |
| `MCDag`, `MCFederation`, `MCSearch`, `MCPage`, `MCCheck`, `MCBigint`, `MCKernel`, `MCClaim`, `MCDemo`, `MCBroadcast` | instances for TLC |

### Dag

A state of `Dag` is a point in `Dag::insert`: between two calls (`Call`), or in the loop of
`process_unblocked` (`Iterate`) with its worklist. The map `waiting_for` is a function from ids to
sets. The worklist and the stack of `mark_seen_by_ancestors` are sets: the code pops them in
an order that depends on hashing, so any order is allowed. `depth_cache` is a function that
`ComputeDepth` extends and never corrects, as the code does. `DagSpec` keeps only the set of
received events; `ImplementsDagSpec` maps the graph, the buffer and the marks of `Dag` to it when
no insert is in progress.

### Federation

An insert is one step here, and its effect is `Ancestors` and the settled part of what was
received; `DagAsSpecified` checks that this equals the replica of `DagSpec`. A daemon handles one
notification at a time; its acknowledgements are signed in the handler (`MaybeAck`) and wait in
`outbox` until `Publish`, which may happen in any order, fail (`PublishFails`) or be cut off
(`Restart`). `fetch_missing` reads the relay's stored events; acknowledgements are of kind 21000,
which is in the ephemeral range, and not stored. `EchoOwn` says whether the relay pool notifies a
daemon of its own events: it is drawn from the constant `EchoOwn`, a set of Booleans. The safety run
takes both values, the liveness run needs `TRUE`, with which a daemon counts its own acknowledgement. `Post` is a client that posts a chat message with tags chosen from the
events of `ReplyTo`.

### SearchCoordinator

A step is the code between two awaits. `pc` names the await a call is at: `setup` (before
`getDevice`), `reacquiring` and `acquiring` (in `initWebGPU`, from `setup` and from `recover`),
`compiling`, `top` (the head of the loop), `mapping` (`mapAsync`), `checking` (`privToPkh`). The GPU
executes what is submitted to a device in order, so the results of a dispatch are computed when it
is submitted: `Scan` takes the stride of the table that is really in the buffers, the keys per
thread of the header, and only the low `OFFSET_TABLE_BITS` bits of the thread id, as
`shaders/search.js` does. `Reconstruct` is what the CPU makes of a hit. Objects of different devices,
buffers being mapped and lost devices behave as WebGPU promises (external).

Keys are numbers and the target is a key. That a thread finds the keys of its place, and that hits survive the race for
slots, is what `SearchKernel` shows; there a dispatch may have more hits than `MAX_HITS`, here it has at most one.
Chunk 0, replaced by 1 in the code, and a `scalarMul` that returns null do not occur: the range of
the configuration, 2^70 to 2^71 - 1, is far from 0 and from the group order.

### Field, Bigint, Curve and SearchKernel

`Bigint` computes word by word as the WGSL does: `Ripple` is the loop of a carry, `mul32` the product from half words,
`FirstFold` and `NextFold` the passes of `mod_p` with the two extra words of its buffer. The source has 8 words of 32 bits and
977; width and number of words are constants here, at least three words (the buffer's extra words are folded into the lowest
three), and the modulus is the odd prime they make. `Repeat` is a counted loop: a function gives for each pass what it makes of a
state. A behaviour is one call of a function; `Exact` compares its result with integers and with `modInv` of `secp.js`.

`Curve` has the group twice: the shader's Jacobian formulas with their exceptional cases and the CPU's affine ones. A
coordinate is a reduced number, since `Bigint` shows the words to agree with numbers. `CurveAssumption` is what is known of secp256k1 and taken for granted by the
code: the multiples of the generator are a cyclic group of order N under the affine addition, none but the point at infinity its own
opposite; TLC evaluates it for the curve of `kernel`. `SearchKernel` is one dispatch: a
thread's own computation (first point from the table, walk, shared inversion, hashes) is one step, for it shares nothing;
the comparisons, the `atomicAdd` and the two stores of a slot are steps that interleave with other threads. SHA-256 and
RIPEMD-160 are one function with few values, so that dispatches with no, one and many hits occur. `ThreadsScan` says
that the hits are those of `Scan`, which `SearchCoordinator` uses for a dispatch.

### CapabilityCheck

A test makes one call of `runComputeOnce` or, as those of `fp_inv` (`tests.js:269-286`), two in a row: `entries` lists their entry
points. The three awaits of a call are the values of `_phase`. A test cannot be cancelled: `calls[r]` is what the test check `r` has, or
gave up, waits for, and whether or not anybody listens it writes the caches and the phase when the driver answers, and goes on
to its second call (`MappedAndCallsAgain`), whose phase may be that of the first, so that no tick sees it change. A
check ends with its first failure, so it leaves one test in flight at most. An object of the caches is represented by the device it was
made on. `Tick` is the interval of the watchdog, which sees the phase and not whose it is. A check is an entry of `runs`, since
nothing keeps `triggerRecheck` from starting a second one; `Cancel` is the click that aborts all of them. The order of the tests
(`Ordered`) is computed from the suite as the code does. `PageAcquires` is `initWebGPU` for somebody else, which replaces the current
device whether or not it is lost. The history variables are `mixed`, that a call started while one of another device was in
flight, and in a watch `alone` and `spent`: no other test was in flight since this one began, and how many ticks fell into awaits of each kind.

### SearchPage

`handler` is the await at which the start handler of a click is; the coordinator's `pc` takes over
while it awaits `setup()` or `start()`. The click event and the autostart timer are two actions:
the first needs an enabled button, the second does not look. A capability check is how it ends
(`Ending`): passed, failed, or thrown by `localStorage.setItem` after a pass (`main.js:323-329`, which `:700` calls without a `try`); it
acquires a device when there is none. `rechecking` counts the re-checks in progress, since no guard keeps the link from being clicked
again. That `setup()` throws while another call searches with the
same coordinator is left out.

### Claim

A claim is the record `run`, the local variables of `runClaim` and `orchestrateClaim`; its `stage`
names what they await: the import of the libraries, the pools, the gift-wrap, the publication. The
two attempts at the pools are in parallel, so `run.pools` has a state for each and the actions on
them interleave. A call that may stay pending for ever has two actions, its answer and its failure
or deadline, so that fairness can be assumed of the second alone. `ImportClaimLibraries` reads
`navigator.onLine` at the moment the code does; from there `run.online` is used although `online` may
change. `Reload` may come between any two steps: it ends the claim and the drains and leaves
`localStorage` as it is.

`pending`, `wrapped` and `shieldSubmitted` are the entries in `localStorage`. A drain is a record: the
queue it loaded, with the marks of that moment, the entries it went through and what became of
them; it reads the queue again only when it saves (`SaveStillPending`). `TryDrain` is what the `online`
event and the idle callback run, and does not look whether a drain is running. Submission to both
pools is one step with one outcome, success of either, since a drain does not tell them apart.
`PoolSuccess` is any answer the code takes for a success.

An entry is named by the txid of its standard variant, and each hit has a transaction of its own, so
the queue is a set: no step of a drain depends on the order of the entries. `acknowledged`,
`relayed`, `found` and `told` are history. Amounts are computed as in the code with the
constants as parameters; `BigInt` does not overflow. That an address is rejected by the signer is a
choice in `ImportClaimLibraries`, and for the pool's address one of the reasons of `ShieldInfoFails`.

### Archive and DemoPage

`Archive` has no variables: its operators map the state of one archive to the next, and the actions of
`DemoPage` apply them to `archive[p]`. That state has what the closure of `createReplicatedArchive`
keeps (`seenIds`, `latestSnapshot`, `publishing`), and what its pending calls hold: `hashing`, calls that
await the hash of their record; `tx`, the IndexedDB transactions not yet complete, in the order they
were created, which is the order they complete in (external); `sending`, what was given to
`pubsub.publish`. Each await is a point where other actions come in between: `PersistCache` or
`Subscribe` starts a snapshot, `Hashed` takes the time and queues the put, `Store` or `StoreFails` ends
it and publishes, `PublishSettles` clears the flag.

The page has two copies of its events, `dag` (what was given to the WASM replica, since the last reset)
and `events` (the map it shows and persists). `ApplyArchivePayload` replaces the second and adds to the
first; it stops at an event the replica rejects. Restored events carry no signature, and whether the
replica's parser takes them depends on the `nostr` library: `acceptsUnsigned` is chosen once, both ways.
`resetDag` makes the events of five participants; one stands for them. `Reload` keeps `localStorage`, the
stored records, and of the transactions under way any prefix. Gossip that was sent may arrive at any
subscriber, repeatedly or never. `Render` stands for everything else that schedules `persistCache`: polls,
probes, relays, and a button pressed before the page has started. One tab per browser, a page whose modules
load, and a node with a pubsub service are assumed. `suppressSnapshotPersist` is left out: it is cleared
before the caller of `applyArchivePayload` sets the status, which schedules `persistCache` anyway.

### Broadcast

`queueBroadcast` pushes a job and starts the drain if none is running; a step of the drain is what it does between two awaits:
a publication to one relay (`Published`), the next event of the job, its end. `retryTimers` is the map of `scheduleRetry`, in the
order in which the timers were set, which is the order in which they fire since all have the same delay. A job stands for
its events, which is what tells jobs apart in the map's keys. `round` is `bootstrapCanonicality` of a reset: it awaits
the job of a round, then a sleep. Whether the targets have become canonical is `Dag`'s matter; here they are when the replica is
still the one they were put in (`Canonical`), since a round acknowledges everything in it, and never when a reset has replaced it.
Relays come and go with `RelaysChange`. `autoAckUntilCanonical` (`index.html:1244`) has no caller.

## Runs

| Run | Bounds | Shows |
|---|---|---|
| `dag` | 4 events, every ancestry and authorship, 2 participants and an outsider | exactness of the bookkeeping after every insert; what the tips cover; refinement of `DagSpec`; stability of the order; both loops of `insert` end |
| `federation` | 2 daemons, 2 messages, 1 fault, with and without echo | quorum, agreement with `DagSpec`, coverage of acknowledgements |
| `federation_live` | 2 daemons, 2 messages that reply to nothing, to each other, to a channel's creation or to an acknowledgement, no fault | a message becomes canonical everywhere unless a daemon never acknowledges it |
| `search` | 1 thread a workgroup, 2 keys a thread, 2 table bits, 6 keys, 3 devices, 1 recovery | strides, sizes and hits under every loss, stop and reload; a search that is to end ends |
| `page` | 2 handler calls, autostart, 2 re-checks at a time, 2 devices | one search and a truthful Stop button by the buttons alone; Start comes back also when calls and re-checks overlap |
| `check` | 3 tests, one of them of two calls, 2 overlapping checks, 2 devices, 1 loss, budgets 0 and 1, ceiling 2 | verdicts, deadlines and objects under every late answer, loss and cancellation; checks end |
| `bigint` | 3 words of 4 bits, P = 4073, 125 operands a side | exactness of every function; passes of the reduction |
| `kernel` | a curve of order 31, up to 4 threads of 3 keys, 2 slots, 7 hashes | hits, scanned keys and the two groups |
| `claim` | 2 hits, 2 drains, 1 reload, inputs below, at and above the boundaries | banner, amounts, marks and queue under every failure and overlap; claims and drains end |
| `demo` | 2 pages, 1 event, 2 times, 2 snapshots, 1 reload, unsigned events accepted or not | every order of hashing, storing, publishing, receiving and reloading |
| `demo_mirror` | as `demo`, 2 events | finding: a snapshot takes an event off the map that stays in the replica |
| `broadcast` | a click with 2 events, 2 resets with 2 rounds, 1 relay, 1 change of relays | no job forgotten; rounds end; jobs are heard in the end |

Bounds. Four events are the least for which an event waits for two parents that are themselves
buffered, are woken in either order, and share an ancestor. Two daemons with two messages give
acknowledgements of each other's and crossing publications. In `search` the ceiling is below the
size of the range, so the ramp reaches it, and sizes give one and several workgroups and both
strides; with three devices a loss can be reported after the next device exists. Two
claims and two drains let a drain save while another holds an older copy of the queue and while a new
entry arrives, and one reload interrupts either; a third drain would repeat the second. The scaled
amounts keep the order of the boundaries: payment with the fee of one output, of two, dust just
reached and just exceeded. In `demo` two snapshots overlap in one page or cross between two, with equal
or different times in both orders, and the reload cuts transactions off; with one event a snapshot has
it or lacks it. Three snapshots or two events multiply the states without a new case; the proofs cover
them. In `check` a diagnostic test is listed before the last blocking one, so the order matters, and two tests share a module and
an entry point, so both caches are hit, and a second call of a
test finds its pipeline made or not; the second check is a re-check, which runs the diagnostic test; the first device is lost or
replaced while the driver still owes an answer on it, and the second one answers. The budgets of
the source are 25 s, 180 s and 300 s; their order is kept. In `bigint` the words of an operand are the least, the greatest, and those
of the modulus and next to them, in every combination: every carry, borrow and spill occurs. The curve of `kernel` has a
prime order like the source's, dispatches start so that doublings in the addition and the group's last keys occur, and more
hits than slots. In `broadcast` the second reset may make the first one's rounds pointless at any point; the source has 5 rounds,
and a relay more only repeats the attempts of a job. Where a run sets `CHECK_DEADLOCK FALSE` the system may stop: everything is
delivered, or the bounded number of reloads, devices or hits is used up.

Finding. `demo_mirror` is a disagreement with a comment of the source (`index.html:1083`); `PROJECT.json` quotes it.

Observations made while modelling, none of which contradicts a checked property:

- federation: a message that an event of another kind completes - the channel's creation, an acknowledgement - is not acknowledged
  by that daemon: `federation.rs:110` acknowledges after the insert of a chat message alone, and the events that `process_unblocked` adds
  are not looked at. Its next acknowledgement covers it, if there is a next one; if not, the message may never become canonical, although
  `README.md:15` says that each daemon acknowledges messages. `MessagesBecomeCanonical` names the case (`LeftUnacked`). An
  acknowledgement names the tips of the moment it is signed and may be sent ten seconds later; that it is not up to date then is not excluded. `PLAN.md:48` and `README.md:16` speak of a majority, while `quorum_threshold` (`dag.rs:49`)
  asks for four fifths, and the demo page colours by half.
- page: after an autostart or a re-check the handler can be entered while a search runs, and it disables Stop for that search,
  against `main.js:1001` ("A search is running exactly when Stop is available"): `main.js:1279` calls the handler whatever the button says, `:1258` enables Start.
  `OneSearch` and `StopAvailable` are therefore stated for the buttons alone. Two calls that overlap in this way can interleave their
  set-ups, so that `this.device` is one device and the buffers are another's; a scan may then read back nothing, or what an earlier one
  left. `StridesAgree` and `HitsExact` are therefore stated for searches that do not overlap.
  When `localStorage` refuses the pass of a check, `setStoredPreflight` throws: the check has passed and Start stays disabled, and on the
  first visit `main()` ends before the re-check links and the autostart are wired. `StartOffered` leaves that ending out, as it does a failed check.
- check: a call that answers after its device was lost stores its module (`webgpu.js:279`) in a cache that may by then be
  stamped with another device, the case the comment at `webgpu.js:28` calls worse than a hang; hence `mixed` in `UsesOwnObjects`. A late answer also
  sets `_phase` to idle (`webgpu.js:344`), which charges a later test's compile to the shorter budget; hence `alone` in `TimeoutJustified`.
  The clock of the watchdog is not reset between the two calls of a test when their phases are the same: with both pipelines cached
  it adds the two waits in `mapAsync` and may time the test out though neither was over the budget, while `tests.js:831-834` says that it charges
  time to the current phase and resets the clock whenever the phase changes. `TimeoutJustified` speaks of the sum for that reason.
  The first of two overlapping checks to end hides the cancel button of the other.
- kernel: `coordinator.js:381` calls negative starts of a chunk fine; a thread whose batch contains key 0 loses the inverses of
  its whole batch, not only that key. The configured range keeps clear of it.
- dispatches: one that `partition` rounds up covers the low edge of the range less often than the rest, although
  `coordinator.js` says every key is covered with the same probability.
- claim: a queued claim can be submitted to a pool twice, by drains that overlap or were cut off (`claim-queue.js:69` says at most
  once): each drain tests the marks of the copy it loaded. `RecordedAsItWas` says what a mark means, not that it is heeded. An offline claim shows no banner when `localStorage` cannot be written (`enqueue` throws, `main.js:529`), and the key, which
  could not be saved either, is then in the console alone. An entry
  queued without a gift-wrap never leaves the queue. An entry that was relayed leaves the queue also when no pool accepted it. An answer of
  Shield that is JSON without an error field counts as a success whatever its HTTP status (`shield.js:85`).
- archive: a snapshot taken while another is being published is stored and never sent, a record whose store fails is ignored for
  the session, and snapshots of equal times are ordered by arrival in `applyRecord` but by id in `loadLatest`.
- demo page: a button pressed while WASM still loads reports its failure, which schedules `persistCache`: if the timer
  fires before `restoreCache`, the cache is overwritten with an empty map (`index.html:682`).
- broadcast: a job of several events is not tried again if one of them was taken, so the others may be lost. The rounds of a reset
  go on in the replica of a later one.

### Fairness

`dag`: `insert` is a loop in one thread, so its steps are taken. `federation_live`: the handler loop
runs, the timers of the acknowledgements fire, and the relay delivers. `search`: the promises of WebGPU
settle and the tab gets animation frames; nothing is assumed of clicks or of losses, and no
particular outcome of a promise. `claim`: timers fire (`makeDeadline`, the race around the import,
`AbortSignal.timeout`, the timeout of a relay), so each failure action is fair and no answer is; a
drain's step is an answer or its timeout, so it is fair without a say in which. `broadcast`: a publication settles, if only by
its timeout, and timers fire, each fair without a say in the outcome; that a relay takes events again and again (strong fairness of
an acceptance) and that the page ends up with a relay are stated as premises of `HeardInTheEnd`, not of the specification. `check`: the frames between tests
and the interval of the watchdog come, so a step of a check's own is taken; the driver need not answer. A driver that blocks the page
in `createShaderModule`, which the comment at `tests.js:824` excepts from what any timer can help, is outside of this.

## Proofs

`DagProofs` proves for any finite set of events, any acyclic ancestry and any participants: the type
invariant, `AncestryComplete`, `NoLostWakeup`, `SeenByExact`, `TipsCoverGraph`, the refinement of `DagSpec`, and the two properties of the canonical
order. The inductive invariant is about the worklist: an event that waits for nobody but is not
in the graph is in the worklist or is the one at hand; `waiting_for` is the converse of the
missing parents of the buffered events; and marks in `seen_by` are closed under ancestors but for
the mark being spread, which is why the early stop at a marked ancestor loses nothing. `children` has
the children in the graph and no others (`ChildrenInv`), so of the events no tip descended from, the deepest would have a deeper child.

`FederationProofs` proves for any number of daemons, events and faults `DagAsSpecified`, `CanonicalHeldByQuorum` and
`AckCoversGraph`. The past of an event is fixed when it is signed, since it can only name events that exist; `PastInv`
says that it is closed, transitive, acyclic and the least set the tags define, so what a daemon settles is what `DagSpec`
says of the received events (`GraphIsSettled`), and the tips of a graph cover it (`TipsCover`). `AckBacked` - who signs an
acknowledgement holds the rest of its past - makes a quorum of acknowledgements a quorum that holds the message.

`SearchProofs` proves for any sizes that satisfy `SizeAssumption` and `TableAssumption`: the type
invariant, `SizeInBounds`, `StridesAgree` and `HitsExact` of `Spec`. The arithmetic is in `SizeFacts`
(rounding up in `partition` covers the dispatch and stays within the table) and `ScanExact` (with
one stride in table, header and reconstruction, and thread ids below `TableThreads`, a scan
reports exactly the target if it is among the keys of the dispatch). The inductive invariant
`SearchInv` adds to them: at most one call is at work (`Serial`, from the discipline of `Begin`);
buffers that can still be used belong to `this.device` and no call is about to replace them
(`BuffersUsable`); the table is the one `uploadedStride` says (`TableUploaded`); a dispatch that
can complete was executed with its own stride (`DispatchExecuted`); and the readback buffer is
free unless that call waits for it (`ReadbackFree`). `TableAssumption` is the bound stated at
`MAX_KEYS_PER_DISPATCH` in the source; the constants of the code satisfy it.

The same module proves `OneSearch`, `StopAvailable` and `StartOffered` of `PageSpec` for any number of handler calls, devices
and re-checks. `PageInv` says that the coordinator is at work only for a handler that has come to it (`HandlerWaits`), that by
the buttons alone a handler keeps Start disabled and is the only one (`OneHandler`), that a loop that runs is in `active` and
`running` implies one (`Searching`), and that Stop is enabled for it and for none else but one that is just ending (`StopFollows`).
`SizeInBounds` it proves of `PageSpec` as well (`PageSizeCorrect`), where calls of the coordinator may overlap: the rules for the
next size ask nothing of the callers.

`CheckProofs` proves for any suite, devices, checks, calls a test and budgets what `check` verifies but for liveness: the type invariant, `UsesOwnObjects`,
`TimeoutJustified` and `PassMeansTested`. The last rests on the order in which the suite is run: `Ordered` gives a
test the place that the number of tests before it makes, so counting shows that it lists every test of the pool once and every
blocking one before the diagnostic ones (`OrderedFacts`, `BlockingComesFirst`). `SuiteAssumption` asks for a
blocking test and that no triage test is a diagnostic one. The invariant `OneDevice` is why the caches are safe: calls in flight are of one device,
and what is cached is of that device and of the one the caches are stamped with. `Clock` is why a test that is alone is not failed early: the phase is that of its
own call, and what the watchdog has counted in the phase it last saw is no more than what the calls of the test have spent in awaits of that kind.

`ShaderProofs` proves `Exact` and `TwoPassesSuffice` for words of any even number of bits, any number of words above two, and any odd
prime that is R less one word and less than another. Along the way:

- `Ripple` is followed from the lowest word up: the words written and the carry, weighted by powers of WORD, make the sum of what was
  read (`RippleExact`); addition, subtraction, comparison, the rows of a product and the folds are instances of it.
- A fold replaces R by WORD + C977, which is the same modulo P. `FirstFoldExact` bounds the two extra words, `PassExact` the next
  ones; after the second pass they are zero, whatever was reduced, and what is left is less than two moduli (`mod_pExact`).
- `fp_inv` is a power (`fp_invPower`), and by `Fermat` it is an inverse. `modInvExact` follows Euclid's recursion, whose existence as a
  function is proved as well. An inverse is unique, so the shader's is the CPU's.
- Induction over the numbers comes from the least element of a set of them (`Least`), since the library's theorems for it take an operator.

It proves `HitsKept`, `ThreadsScan` and `ShaderMultiplies` for any number of threads, keys a thread, slots and hits, any hash, and any
curve that satisfies `CurveAssumption`. `HitsKept` is about the slots: one below the counter either belongs to one thread that is
storing or holds a hit, and a hit that was compared has a slot nobody stores to any more (`KernelInvariant`). The other two are about
the points:

- `DoubleAgrees` and `AddAgrees`: scaled by the inverses of the z's, the slope of a chord or a tangent in Jacobian coordinates is the
  affine one (`Chord`, `Tangent`, `ThirdPoint`), and the cases the shader tells apart are those the CPU does. This takes only that P is
  an odd prime, not that the points are on the curve, and for the two cases of one point that its y is not zero.
- `Stands(n)` are the Jacobian points that stand for n times the generator. Double and add moves from one such set to another, so
  `scalar_mul_g` ends where `scalarMul` does (`scalar_mul_gStands`, `scalarMulIs`); so do the table's entries a thread adds up
  (`FirstPointStands`) and its walk (`WalkStands`).
- `InversesExact` is Montgomery's trick. It needs that no z is zero, hence that no key of a batch is a multiple of N: the
  invariant `ScanInv` holds that every dispatch ends below N and has no more threads than the table tells apart (`LargestDispatch`), and
  that a thread past its computation has the hashes of its own keys (`HashesExact`).
- The thread and offset of a key are unique in a dispatch, so the hits are those of `Scan` (`ScanIsTheShader`).

`ClaimProofs` proves for any number of hits, drains and reloads, any inputs and rates, and any
constants that satisfy `AmountsAssumption`: the type invariant, `AmountsAddUp`, `RecordedAsItWas`
and `QueueKeeps`. `StandardSplits` and `ShieldSplits` are the arithmetic. The
invariant `IInv` adds what the steps rest on: only claims made offline reach the queue or a drain's
copy of it (`OnlyQueuedDrain`), so a drain never changes what a claim in progress will report; a drain
records only what happened (`DrainsSound`); and while a claim is made, its attempts are the only ones
on it (`AttemptsRecorded`, `Fresh`).

`DemoProofs` proves for any number of pages, events, snapshots and reloads, any naturals as times and
either behaviour of the parser, all that `demo` checks. The invariant `IInv` is mostly about one
archive (`ArchiveInv`): every put in the queue is of a record of its own that is marked as seen and is
neither stored nor handled (`QueueSound`), which is why the mark must precede the await; a read of the
store is at the head of the queue exactly while the archive is loading (`LoadIsFirst`), so that nothing is
stored before the latest snapshot is known (`LatestSound`). It assumes only that `None` is no record.

`BroadcastProofs` proves `NothingForgotten` for any number of clicks, resets, rounds, relays and events. It follows the jobs
of the queue, the drain and the timers (`JobsOf`); the invariant adds that a timer's key names its job (`TimersNamed`), so that a
retry that is suppressed is one already due, and that a drain which has published counts its job as heard (`DrainTold`).

Only model-checked: liveness (`InsertReturns`, `MessagesBecomeCanonical`, `StoppedEnds`, `ChecksEnd`, `ClaimEnds`, `DrainsEnd`, `RoundsEnd`,
`HeardInTheEnd`), which the prover does not reach. That the multiples of the generator are a group is an assumption on constants, which
TLC evaluates for one small curve. Every invariant and action property of the passing runs is a theorem. `StridesAgree` and `HitsExact` are stated of `Spec` of `SearchCoordinator`, whose
searches do not overlap; they do not hold of `PageSpec`, as the observation about the page says.

## Not modelled

The hashes, the encoding of addresses and the cryptography of claims: straight-line computations on fixed inputs, which the
repository tests against vectors. The relay's internals and the key generator (no state of their own), the static server (each
request is independent and read-only), page chrome, the git viewer, the peer-to-peer node's configuration, examples and scripts.
`WasmDag` only parses JSON around the replica. Of `main.js` the panels, the sharing of links and the notice of a paused tab are
presentation. Of the demo page, participants, telemetry and panels are data that is copied along.

## Plan

1. Done: replica, federation, search coordinator, search page, capability check, arithmetic and kernel, claim pipeline, archive,
   events and broadcasts of the demo page, with proofs about each.
2. Agreement of archives: two pages that both receive every record end with the same latest snapshot, up to snapshots of
   equal times (see the observations).
3. `SearchPage` with the claim of a found key, which interleaves with a search only after it has ended.
4. Overlapping searches of one coordinator, as an autostart can make them: which guard of `start` would restore strides and hits.
