-------------------------- MODULE SearchCoordinator --------------------------
(***************************************************************************)
(* SearchCoordinator of demo/krackpot/src/coordinator.js and the device    *)
(* handling of webgpu.js that it relies on.                                *)
(*                                                                         *)
(* A step is the code between two awaits of a call of start() (or of the   *)
(* setup() before it), a callback, or an event of the GPU.  The GPU runs   *)
(* the commands of a device in the order they were submitted, so what a    *)
(* dispatch will find is computed when it is submitted.  A key is a small  *)
(* number and the target a key, not a hash of one.                         *)
(*                                                                         *)
(* What WebGPU promises of objects of different devices, of buffers that   *)
(* are being mapped and of lost devices is external.                       *)
(***************************************************************************)
EXTENDS DispatchSize, FiniteSets

CONSTANTS
    Loop,           \* calls of start() by the page
    Device,         \* GPU devices
    NoDevice,
    RangeStart,
    RangeEnd

ASSUME CoordinatorAssumption ==
    /\ NoDevice \notin Device
    /\ RangeStart \in Nat /\ RangeEnd \in Nat /\ 0 < RangeStart /\ RangeStart <= RangeEnd

KeyRange == RangeStart..RangeEnd

NoStride == 0   \* no offset table, or one that is all zeros

NoBuffers == [dev |-> NoDevice, table |-> NoStride, hits |-> {}, mapping |-> FALSE]

VARIABLES
    target,         \* the key that is searched for
    moduleDevice,   \* _device of webgpu.js
    lost,           \* devices that are lost
    unreported,     \* lost devices whose lost promise has yet to run its callback
    device,         \* this.device
    buffers,        \* this.paramsBuf, outputBuf, outputReadBuf, bindGroup
    uploaded,       \* this.uploadedStride
    keys,           \* this.keysPerDispatch
    saved,          \* the calibration in localStorage
    running,
    losses,         \* this.consecutiveLosses
    active,         \* calls of start() in progress
    pc,             \* the await a call is at
    job             \* the local variables of a call

gpu == <<moduleDevice, lost, unreported>>
pipeline == <<device, buffers, uploaded>>
size == <<keys, saved>>
control == <<running, losses, active>>
vars == <<target, gpu, pipeline, size, control, pc, job>>

NoJob == [chunk |-> 0, stride |-> NoStride, groups |-> 0, dev |-> NoDevice,
          rejects |-> FALSE, stale |-> FALSE, hits |-> {}]

\* The place in range where the keys of a dispatch start: anywhere such that it
\* meets the range, or at its start if it can cover all of it.
ChunkStarts(d) ==
    IF RangeEnd - RangeStart + 1 <= d
    THEN {RangeStart}
    ELSE (RangeStart - d + 1)..RangeEnd

\* The key that start() reconstructs from a hit.
Reconstruct(j, h) == j.chunk + h[1] * j.stride + h[2]

Candidates(j, hits) == {Reconstruct(j, h) : h \in hits} \cap KeyRange

Fresh(d) ==
    d \notin {moduleDevice, device, buffers.dev} \cup unreported \cup {job[l].dev : l \in Loop}

-----------------------------------------------------------------------------

Init ==
    /\ target \in KeyRange
    /\ moduleDevice \in Device
    /\ lost = {}
    /\ unreported = {}
    /\ device = NoDevice
    /\ buffers = NoBuffers
    /\ uploaded = NoStride
    /\ saved = 0
    /\ keys = Restored(saved)
    /\ running = FALSE
    /\ losses = 0
    /\ active = {}
    /\ pc = [l \in Loop |-> "idle"]
    /\ job = [l \in Loop |-> NoJob]

Goto(l, place) == pc' = [pc EXCEPT ![l] = place]

\* initWebGPU, from the first request to the last.
InitWebGPU(d) ==
    /\ Fresh(d)
    /\ moduleDevice' = d
    /\ lost' = lost \ {d}
    /\ UNCHANGED unreported

\* setup up to its first await: the module's device, if there is one.
Setup(l) ==
    /\ pc[l] = "setup"
    /\ IF moduleDevice # NoDevice
       THEN /\ device' = moduleDevice
            /\ job' = [job EXCEPT ![l].dev = moduleDevice]
            /\ Goto(l, "compiling")
       ELSE /\ Goto(l, "reacquiring")
            /\ UNCHANGED <<device, job>>
    /\ UNCHANGED <<target, gpu, buffers, uploaded, size, control>>

\* setup's own initWebGPU ends.
Reacquire(l) ==
    /\ pc[l] = "reacquiring"
    /\ \E d \in Device :
          /\ InitWebGPU(d)
          /\ device' = d
          /\ job' = [job EXCEPT ![l].dev = d]
    /\ Goto(l, "compiling")
    /\ UNCHANGED <<target, buffers, uploaded, size, control>>

\* Mutant: the new buffers are taken to hold the old table.
CompiledKeepsStride(l) ==
    /\ pc[l] = "compiling"
    /\ buffers' = [NoBuffers EXCEPT !.dev = job[l].dev]
    /\ job' = [k \in Loop |->
                 IF k = l THEN NoJob
                 ELSE [job[k] EXCEPT !.stale = @ \/ pc[k] = "mapping"]]
    /\ Goto(l, IF l \in active THEN "top" ELSE "ready")
    /\ UNCHANGED <<target, gpu, device, uploaded, size, control>>

\* The pipeline is there: setup makes new buffers and forgets the old table.
Compiled(l) ==
    /\ pc[l] = "compiling"
    /\ buffers' = [NoBuffers EXCEPT !.dev = job[l].dev]
    /\ uploaded' = NoStride
    /\ job' = [k \in Loop |->
                 IF k = l THEN NoJob
                 ELSE [job[k] EXCEPT !.stale = @ \/ pc[k] = "mapping"]]
    /\ Goto(l, IF l \in active THEN "top" ELSE "ready")
    /\ UNCHANGED <<target, gpu, device, size, control>>

\* No device or no pipeline: a search ends, the page's setup() throws.
SetupFails(l) ==
    /\ pc[l] \in {"acquiring", "reacquiring", "compiling"}
    /\ job' = [job EXCEPT ![l] = NoJob]
    /\ IF l \in active
       THEN running' = FALSE /\ active' = active \ {l} /\ Goto(l, "done")
       ELSE Goto(l, "failed") /\ UNCHANGED <<running, active>>
    /\ UNCHANGED <<target, gpu, pipeline, size, losses>>

\* start(), up to the first await.
Start(l) ==
    /\ pc[l] = "ready"
    /\ ~running
    /\ running' = TRUE
    /\ losses' = 0
    /\ active' = active \cup {l}
    /\ Goto(l, "top")
    /\ UNCHANGED <<target, gpu, pipeline, size, job>>

\* start() while a search is running.
StartReturns(l) ==
    /\ pc[l] = "ready"
    /\ running
    /\ Goto(l, "done")
    /\ UNCHANGED <<target, gpu, pipeline, size, control, job>>

\* The catch of the loop: shrink, remember, and recover or give up.
Lose(l) ==
    /\ losses' = losses + 1
    /\ keys' = Shrunk(keys)
    /\ saved' = Shrunk(keys)
    /\ job' = [job EXCEPT ![l] = NoJob]
    /\ IF losses + 1 > MAX_RECOVERY_ATTEMPTS
       THEN running' = FALSE /\ active' = active \ {l} /\ Goto(l, "done")
       ELSE Goto(l, "acquiring") /\ UNCHANGED <<running, active>>
    /\ UNCHANGED <<target, gpu, pipeline>>

\* Mutant: the table is uploaded once for each pipeline.
TableAfterOnce(s) ==
    IF uploaded = NoStride /\ device = buffers.dev THEN s ELSE buffers.table

\* ensureOffsetTable: the table in the buffers after a dispatch with stride s.
\* A write to the buffer of another device does nothing.
TableAfter(s) ==
    IF uploaded # s /\ device = buffers.dev THEN s ELSE buffers.table

\* Mutant: the loop goes on when it was stopped.
DispatchIgnoresStop(l) ==
    /\ pc[l] = "top"
    /\ buffers # NoBuffers
    /\ uploaded' = KeysPerThread(keys)
    /\ buffers' = [buffers EXCEPT !.mapping = TRUE]
    /\ job' = [job EXCEPT ![l] = [NoJob EXCEPT !.rejects = buffers.mapping]]
    /\ Goto(l, "mapping")
    /\ UNCHANGED <<target, gpu, device, size, control>>

\* An iteration of the loop up to the await of mapAsync.  Commands for another
\* device, or that use a buffer which is being mapped, are not executed; a
\* second mapAsync of a buffer is rejected.
Dispatch(l) ==
    /\ pc[l] = "top"
    /\ running
    /\ buffers # NoBuffers
    /\ \E c \in ChunkStarts(keys) :
          LET chunk == IF c = 0 THEN 1 ELSE c
              stride == KeysPerThread(keys)
              runs == device = buffers.dev /\ ~buffers.mapping
          IN  /\ uploaded' = stride
              /\ buffers' = [buffers EXCEPT
                    !.table = TableAfter(stride),
                    !.hits = IF runs
                             THEN Scan(target, chunk, TableAfter(stride), stride, Workgroups(keys))
                             ELSE @,
                    !.mapping = TRUE]
              /\ job' = [job EXCEPT ![l] =
                    [NoJob EXCEPT !.chunk = chunk, !.stride = stride,
                        !.groups = Workgroups(keys), !.rejects = buffers.mapping]]
    /\ Goto(l, "mapping")
    /\ UNCHANGED <<target, gpu, device, size, control>>

\* A search that starts before any setup() has finished, as callers that do not
\* wait for each other can make happen.
DispatchThrows(l) ==
    /\ pc[l] = "top"
    /\ running
    /\ buffers = NoBuffers
    /\ Lose(l)

\* The loop sees that the search was stopped.
Ends(l) ==
    /\ pc[l] = "top"
    /\ ~running
    /\ active' = active \ {l}
    /\ Goto(l, "done")
    /\ UNCHANGED <<target, gpu, pipeline, size, running, losses, job>>

Recalibrate == \E k \in Recalibrated(keys) : keys' = k /\ saved' = IF k = keys THEN saved ELSE k

\* The dispatch is done: its results are read, and unless some key has to be
\* checked the loop goes on to the next.
Completes(l) ==
    /\ pc[l] = "mapping"
    /\ ~job[l].rejects /\ ~job[l].stale
    /\ buffers.dev \notin lost
    /\ buffers' = [buffers EXCEPT !.mapping = FALSE]
    /\ losses' = 0
    /\ IF Candidates(job[l], buffers.hits) = {}
       THEN /\ Recalibrate
            /\ job' = [job EXCEPT ![l] = NoJob]
            /\ Goto(l, "top")
       ELSE /\ job' = [job EXCEPT ![l].hits = buffers.hits]
            /\ Goto(l, "checking")
            /\ UNCHANGED size
    /\ UNCHANGED <<target, gpu, device, uploaded, running, active>>

\* mapAsync is rejected, or this.outputReadBuf is no longer the mapped one.
Fails(l) ==
    /\ pc[l] = "mapping"
    /\ job[l].rejects \/ job[l].stale \/ buffers.dev \in lost
    /\ Lose(l)

\* The CPU has derived the candidates again: the right one ends the search.
Checked(l) ==
    /\ pc[l] = "checking"
    /\ job' = [job EXCEPT ![l] = NoJob]
    /\ IF target \in Candidates(job[l], job[l].hits)
       THEN /\ running' = FALSE
            /\ active' = active \ {l}
            /\ Goto(l, "done")
            /\ UNCHANGED size
       ELSE /\ Recalibrate
            /\ Goto(l, "top")
            /\ UNCHANGED <<running, active>>
    /\ UNCHANGED <<target, gpu, pipeline, losses>>

\* recover's initWebGPU ends.
Acquire(l) ==
    /\ pc[l] = "acquiring"
    /\ \E d \in Device : InitWebGPU(d)
    /\ Goto(l, "setup")
    /\ UNCHANGED <<target, pipeline, size, control, job>>

\* stop().
Stop ==
    /\ running' = FALSE
    /\ UNCHANGED <<target, gpu, pipeline, size, losses, active, pc, job>>

\* A device is lost: the watchdog resets it, or the browser reclaims it.
LoseDevice(d) ==
    /\ d \in {moduleDevice, device, buffers.dev} \ ({NoDevice} \cup lost)
    /\ lost' = lost \cup {d}
    /\ unreported' = unreported \cup {d}
    /\ UNCHANGED <<target, moduleDevice, pipeline, size, control, pc, job>>

\* The callback of the lost promise, which need not come before the rejection
\* of mapAsync, nor before the next device is there.
LostCallback(d) ==
    /\ d \in unreported
    /\ unreported' = unreported \ {d}
    /\ moduleDevice' = NoDevice
    /\ UNCHANGED <<target, lost, pipeline, size, control, pc, job>>

\* The page is loaded again; only localStorage is left.
Reload ==
    /\ moduleDevice' \in Device
    /\ lost' = {}
    /\ unreported' = {}
    /\ device' = NoDevice
    /\ buffers' = NoBuffers
    /\ uploaded' = NoStride
    /\ keys' = Restored(saved)
    /\ running' = FALSE
    /\ losses' = 0
    /\ active' = {}
    /\ pc' = [l \in Loop |-> "idle"]
    /\ job' = [l \in Loop |-> NoJob]
    /\ UNCHANGED <<target, saved>>

\* What goes on in a call, and around all of them, without the page.
Advance(l) ==
    \/ Setup(l) \/ Acquire(l) \/ Reacquire(l) \/ Compiled(l) \/ SetupFails(l)
    \/ Dispatch(l) \/ Completes(l) \/ Fails(l) \/ Checked(l) \/ Ends(l)

Environment == \E d \in Device : LoseDevice(d) \/ LostCallback(d)

-----------------------------------------------------------------------------

\* A caller that waits for the last start() to return before it calls the next,
\* as a page does whose Start button is disabled meanwhile.
Begin(l) ==
    /\ \A k \in Loop : pc[k] \in {"idle", "done", "failed"}
    /\ Goto(l, IF buffers = NoBuffers THEN "setup" ELSE "ready")
    /\ UNCHANGED <<target, gpu, pipeline, size, control, job>>

Next ==
    \/ \E l \in Loop : Begin(l) \/ Start(l) \/ Advance(l)
    \/ Stop
    \/ Environment
    \/ Reload

Spec == Init /\ [][Next]_vars

\* Every promise a call waits for is settled sooner or later, and a visible tab
\* gets its animation frames.
FairSpec == Spec /\ \A l \in Loop : WF_vars(Advance(l))

-----------------------------------------------------------------------------

Places == {"idle", "setup", "acquiring", "reacquiring", "compiling", "ready", "top",
           "mapping", "checking", "done", "failed"}

Buffers == [dev : Device \cup {NoDevice}, table : 0..KEYS_PER_THREAD,
            hits : SUBSET (Nat \X Nat), mapping : BOOLEAN]

Job == [chunk : Int, stride : 0..KEYS_PER_THREAD, groups : Nat,
        dev : Device \cup {NoDevice}, rejects : BOOLEAN, stale : BOOLEAN,
        hits : SUBSET (Nat \X Nat)]

TypeOK ==
    /\ target \in KeyRange
    /\ moduleDevice \in Device \cup {NoDevice}
    /\ lost \subseteq Device /\ unreported \subseteq lost
    /\ device \in Device \cup {NoDevice}
    /\ buffers \in Buffers
    /\ uploaded \in 0..KEYS_PER_THREAD
    /\ running \in BOOLEAN
    /\ losses \in Nat /\ (running => losses <= MAX_RECOVERY_ATTEMPTS)
    /\ pc \in [Loop -> Places] /\ job \in [Loop -> Job]
    /\ active \subseteq Loop /\ \A l \in active : pc[l] \notin {"idle", "ready", "done", "failed"}

\* The ceiling holds wherever a size can come from, and under it every thread
\* of a dispatch has an id that the offset table resolves and every key of the
\* dispatch has a thread.
SizeInBounds ==
    /\ keys \in 1..MAX_KEYS_PER_DISPATCH
    /\ saved \in 0..MAX_KEYS_PER_DISPATCH
    /\ Workgroups(keys) * WORKGROUP_SIZE <= TableThreads
    /\ TotalKeys(keys) >= keys

\* Table, header and reconstruction step by the same stride: when the table is
\* taken to be uploaded it is there, also after the buffers were replaced, and
\* the commands of a dispatch go to the device the buffers belong to.  Only
\* after a recovery that failed half-way are the buffers those of a lost device.
StridesAgree ==
    buffers.dev \notin lost =>
        /\ uploaded # NoStride => buffers.table = uploaded /\ device = buffers.dev
        /\ \A l \in Loop : pc[l] = "mapping" => job[l].stride = buffers.table

\* The results read after a dispatch are exactly those of the keys it stands
\* for: none is missed and none is reported that the CPU would have to reject.
HitsExact ==
    [][\A l \in Loop :
          pc[l] = "mapping" /\ pc'[l] \in {"top", "checking"} =>
              {Reconstruct(job[l], h) : h \in buffers.hits}
                  = {target} \cap (job[l].chunk ..
                        (job[l].chunk + job[l].groups * WORKGROUP_SIZE * job[l].stride - 1))]_vars

\* A search that was stopped, found the key or gave up comes to its end.
StoppedEnds == \A l \in Loop : l \in active /\ ~running ~> l \notin active
=============================================================================
