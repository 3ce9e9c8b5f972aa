-------------------------- MODULE CapabilityCheck ---------------------------
(***************************************************************************)
(* The capability check of the search page: the suite of demo/krackpot/src *)
(* tests.js, its watchdog, and the device handling of webgpu.js with the   *)
(* caches of shader modules and pipelines.                                 *)
(*                                                                         *)
(* A test makes one call of runComputeOnce, or two in a row.  It cannot be *)
(* stopped: when it times out or the user cancels the check, its call      *)
(* stays in flight, still writes the caches and the phase when the driver  *)
(* answers it, and is followed by the second one.                          *)
(* A check ends with the first test that fails, so it leaves the calls of  *)
(* one test in flight at most: calls[r] are those of check r.              *)
(* A cached object is represented by the device it was made on.            *)
(***************************************************************************)
EXTENDS Integers, Sequences, FiniteSets

CONSTANTS
    TESTS,              \* the suite, a sequence of [source, entries, triage, diagnostic]
    Device, NoDevice,   \* numbers, in the order the browser hands them out
    Check,              \* numbers of the checks in order: nothing keeps two from overlapping
    Recheck,            \* those a click on Re-check GPU began: they run every test
    TEST_TIMEOUT,       \* the budgets of the watchdog, in ticks
    COMPILE_BUDGET,
    TEST_CEILING,
    MaxLosses           \* bound on the devices that are lost

Test == {TESTS[i] : i \in DOMAIN TESTS}
Blocking == {t \in Test : ~t.diagnostic}
Source == {t.source : t \in Test}
Key(t, n) == <<t.source, t.entries[n]>>
Keys == UNION {{Key(t, n) : n \in DOMAIN t.entries} : t \in Test}
Phase == {"idle", "getCompilationInfo", "createComputePipelineAsync", "mapAsync"}
Await == Phase \ {"idle"}
COMPILE_PHASES == {"getCompilationInfo", "createComputePipelineAsync"}

ASSUME CheckAssumption ==
    /\ Device \subseteq Nat /\ Check \subseteq Nat /\ NoDevice \notin Device
    /\ Recheck \subseteq Check
    /\ {TEST_TIMEOUT, COMPILE_BUDGET, TEST_CEILING, MaxLosses} \subseteq Nat

\* The names of the triage are not those of diagnostic tests.
ASSUME SuiteAssumption ==
    /\ TESTS \in Seq(Test)
    /\ \A t \in Test : t.entries \in Seq({t.entries[n] : n \in DOMAIN t.entries}) /\ t.entries # <<>>
    /\ \A t \in Test : {t.triage, t.diagnostic} \subseteq BOOLEAN /\ ~(t.triage /\ t.diagnostic)
    /\ Blocking # {}

VARIABLES
    current,        \* _device
    unused,         \* devices the browser has not handed out
    alive,          \* devices handed out and not lost
    unheard,        \* lost devices whose callback has not run
    cacheDevice,    \* _cacheDevice
    modules,        \* _moduleCache
    pipelines,      \* _pipelineCache
    phase,          \* _phase
    calls,          \* what the test a check has, or left, in flight waits for
    runs,           \* the runs of runAllTests, one per check
    cancellable,    \* the Cancel button can be clicked
    mixed           \* history: a call started while one of another device was in flight

gpu == <<current, unused, alive, unheard>>
caches == <<cacheDevice, modules, pipelines>>
page == <<runs, cancellable>>
vars == <<gpu, caches, phase, calls, page, mixed>>

Free == [at |-> "free"]
NoModules == [s \in Source |-> NoDevice]
NoPipelines == [k \in Keys |-> NoDevice]
InFlight == {c \in Check : calls[c].at # "free"}
NoTime == [a \in Await |-> 0]
NoWatch == [phase |-> "idle", inPhase |-> 0, overall |-> 0, spent |-> NoTime, alone |-> TRUE]
At(stage) == {r \in Check : runs[r].stage = stage}

Init ==
    /\ current = NoDevice
    /\ unused = Device
    /\ alive = {}
    /\ unheard = {}
    /\ cacheDevice = NoDevice
    /\ modules = NoModules
    /\ pipelines = NoPipelines
    /\ phase = "idle"
    /\ calls = [c \in Check |-> Free]
    /\ runs = [r \in Check |-> [stage |-> "none"]]
    /\ cancellable = FALSE
    /\ mixed = FALSE

-----------------------------------------------------------------------------
(* Devices                                                                 *)

InitWebGPU(d) ==
    /\ d \in unused
    /\ \A x \in unused : d <= x
    /\ current' = d
    /\ unused' = unused \ {d}
    /\ alive' = alive \cup {d}
    /\ UNCHANGED unheard

DeviceDies(d) ==
    /\ Cardinality(Device \ (unused \cup alive)) < MaxLosses
    /\ d \in alive
    /\ alive' = alive \ {d}
    /\ unheard' = unheard \cup {d}
    /\ UNCHANGED <<current, unused, caches, phase, calls, page, mixed>>

\* The callback of device.lost, which does not ask which device is current.
Lost(d) ==
    /\ d \in unheard
    /\ unheard' = unheard \ {d}
    /\ current' = NoDevice
    /\ cacheDevice' = NoDevice
    /\ modules' = NoModules
    /\ pipelines' = NoPipelines
    /\ UNCHANGED <<unused, alive, phase, calls, page, mixed>>

\* The page takes a device when it loads, and a search that runs beside a
\* re-check another one; either replaces the current device, lost or not.
PageAcquires(d) ==
    /\ InitWebGPU(d)
    /\ UNCHANGED <<caches, phase, calls, page, mixed>>

-----------------------------------------------------------------------------
(* runComputeOnce, one step from await to await                            *)

\* Call n of test t waits, on device d, with the object it uses next.
Awaits(c, at, t, n, d, object) ==
    /\ calls' = [calls EXCEPT ![c] = [at |-> at, test |-> t, n |-> n, device |-> d, object |-> object]]
    /\ phase' = at

\* With module m: the pipeline is taken from the cache ps or made.
WithModule(c, t, n, d, m, ps) ==
    /\ pipelines' = ps
    /\ IF ps[Key(t, n)] = NoDevice
       THEN Awaits(c, "createComputePipelineAsync", t, n, d, m)
       ELSE Awaits(c, "mapAsync", t, n, d, ps[Key(t, n)])

\* Mutant: the caches are not dropped for another device.
RunComputeOnceKeeps(c, t, n) ==
    /\ cacheDevice' = current
    /\ modules' = modules
    /\ IF modules[t.source] = NoDevice
       THEN pipelines' = pipelines /\ Awaits(c, "getCompilationInfo", t, n, current, current)
       ELSE WithModule(c, t, n, current, modules[t.source], pipelines)

RunComputeOnce(c, t, n) ==
    LET kept == cacheDevice = current
        ms == IF kept THEN modules ELSE NoModules
        ps == IF kept THEN pipelines ELSE NoPipelines
    IN  /\ cacheDevice' = current
        /\ modules' = ms
        /\ IF ms[t.source] = NoDevice
           THEN pipelines' = ps /\ Awaits(c, "getCompilationInfo", t, n, current, current)
           ELSE WithModule(c, t, n, current, ms[t.source], ps)

\* History: a call starts on the current device while another call is out.
Mixes(c) == mixed' = (mixed \/ \E o \in InFlight \ {c} : calls[o].device # current)

-----------------------------------------------------------------------------
(* runAllTests                                                             *)

\* The tests of a check, by their index in the suite.
Pool(includeDiagnostics) == {i \in DOMAIN TESTS : includeDiagnostics \/ ~TESTS[i].diagnostic}

\* Mutant: after the two of the triage the tests are run as listed.
RankTriageOnly(t) == IF t.triage THEN 0 ELSE 1

\* The triage first, and every blocking test before a diagnostic one.
Rank(t) == IF t.triage THEN 0 ELSE IF ~t.diagnostic THEN 1 ELSE 2

\* Tests of equal rank stay as they are listed.
Before(i, j) ==
    \/ Rank(TESTS[i]) < Rank(TESTS[j])
    \/ Rank(TESTS[i]) = Rank(TESTS[j]) /\ i < j

\* A test comes after those that are before it.
Place(includeDiagnostics, i) == Cardinality({j \in Pool(includeDiagnostics) : Before(j, i)}) + 1

Ordered(includeDiagnostics) ==
    [n \in 1..Cardinality(Pool(includeDiagnostics)) |->
        TESTS[CHOOSE i \in Pool(includeDiagnostics) : Place(includeDiagnostics, i) = n]]

budgetForPhase(p) == IF p \in COMPILE_PHASES THEN COMPILE_BUDGET ELSE TEST_TIMEOUT

\* Check r is the next one.
Begins(r) == runs[r].stage = "none" /\ \A q \in Check : q < r => runs[q].stage # "none"

\* A check starts: it needs a device, the current one or a new one.
CheckStarts(r) ==
    /\ Begins(r)
    /\ IF current = NoDevice THEN \E d \in Device : InitWebGPU(d) ELSE UNCHANGED gpu
    /\ runs' = [runs EXCEPT ![r] =
                 [stage |-> "frame", order |-> Ordered(r \in Recheck), i |-> 1,
                  answered |-> {}, watch |-> NoWatch]]
    /\ cancellable' = TRUE
    /\ UNCHANGED <<caches, phase, calls, mixed>>

\* There is no device and none to be had.
CheckHasNoDevice(r) ==
    /\ Begins(r)
    /\ current = NoDevice
    /\ runs' = [runs EXCEPT ![r] = [stage |-> "no device"]]
    /\ cancellable' = FALSE
    /\ UNCHANGED <<gpu, caches, phase, calls, mixed>>

\* History: a test that another one joined is not alone any more.
Disturbed(w) ==
    IF w.stage = "testing" THEN [w EXCEPT !.watch.alone = FALSE, !.watch.spent = NoTime] ELSE w

\* runAllTests returns and runCapabilityCheck goes on in the same turn of the
\* event loop: only blocking failures refuse the GPU.
CheckEnds(r, blockingFail, answered) ==
    /\ runs' = [runs EXCEPT ![r] = IF blockingFail = 0 /\ answered # {}
                                   THEN [stage |-> "passed", answered |-> answered]
                                   ELSE [stage |-> "failed"]]
    /\ cancellable' = FALSE

\* The first failure ends the run.
TestFails(r) ==
    CheckEnds(r, IF runs[r].order[runs[r].i].diagnostic THEN 0 ELSE 1, runs[r].answered)

TestPasses(r) ==
    LET answered == runs[r].answered \cup {runs[r].order[runs[r].i]}
    IN  IF runs[r].i = Len(runs[r].order)
        THEN CheckEnds(r, 0, answered)
        ELSE /\ runs' = [runs EXCEPT ![r].stage = "frame", ![r].i = @ + 1,
                                     ![r].answered = answered, ![r].watch = NoWatch]
             /\ UNCHANGED cancellable

TestStarts(r) ==
    /\ runs[r].stage = "frame"
    /\ current # NoDevice
    /\ RunComputeOnce(r, runs[r].order[runs[r].i], 1)
    /\ runs' = [q \in Check |->
                 IF q = r
                 THEN [runs[r] EXCEPT !.stage = "testing",
                                      !.watch = [phase |-> phase', inPhase |-> 0, overall |-> 0,
                                                 spent |-> NoTime, alone |-> InFlight = {}]]
                 ELSE Disturbed(runs[q])]
    /\ Mixes(r)
    /\ UNCHANGED <<gpu, cancellable>>

\* getDevice throws.
TestHasNoDevice(r) ==
    /\ runs[r].stage = "frame"
    /\ current = NoDevice
    /\ TestFails(r)
    /\ UNCHANGED <<gpu, caches, phase, calls, mixed>>

\* The calls in flight of check r are over; the check may have given them up.
Ends(r, ok) ==
    /\ calls' = [calls EXCEPT ![r] = Free]
    /\ IF runs[r].stage # "testing" THEN UNCHANGED page
       ELSE IF ok THEN TestPasses(r) ELSE TestFails(r)
    /\ UNCHANGED <<gpu, mixed>>

\* The driver's answers.
Compiled(r) ==
    LET call == calls[r]
    IN  /\ call.at = "getCompilationInfo"
        /\ modules' = [modules EXCEPT ![call.test.source] = call.device]
        /\ WithModule(r, call.test, call.n, call.device, call.device, pipelines)
        /\ UNCHANGED <<gpu, cacheDevice, page, mixed>>

PipelineMade(r) ==
    LET call == calls[r]
    IN  /\ call.at = "createComputePipelineAsync"
        /\ call.object = call.device
        /\ pipelines' = [pipelines EXCEPT ![Key(call.test, call.n)] = call.device]
        /\ Awaits(r, "mapAsync", call.test, call.n, call.device, call.device)
        /\ UNCHANGED <<gpu, cacheDevice, modules, page, mixed>>

\* A compile error, a pipeline that cannot be made (never with a module of
\* another device), or a buffer of a device that is lost.
CallThrows(r) ==
    /\ \/ calls[r].at \in COMPILE_PHASES
       \/ calls[r].at = "mapAsync" /\ calls[r].device \notin alive
    /\ Ends(r, FALSE)
    /\ UNCHANGED <<caches, phase>>

\* The result of a call is read back.
ReadBack(r) == calls[r].at = "mapAsync" /\ calls[r].device \in alive

\* The test makes another call with it, in the same turn of the event loop,
\* whether or not anybody still waits for the test.
MappedAndCallsAgain(r) ==
    LET call == calls[r]
    IN  /\ ReadBack(r)
        /\ call.n < Len(call.test.entries)
        /\ current # NoDevice
        /\ RunComputeOnce(r, call.test, call.n + 1)
        /\ Mixes(r)
        /\ UNCHANGED <<gpu, page>>

\* It was the test's last call, or getDevice throws for the next one; the
\* pipeline of another device computes nothing.
Mapped(r, ok) ==
    LET call == calls[r]
    IN  /\ ReadBack(r)
        /\ (call.n < Len(call.test.entries)) => (current = NoDevice /\ ~ok)
        /\ ok => call.object = call.device
        /\ phase' = "idle"
        /\ Ends(r, ok)
        /\ UNCHANGED caches

\* What the watchdog of check r sees at a tick; "spent" is history, the ticks
\* that fell into the awaits of each kind of a test that is alone.
SeenIn(r, inPhase) ==
    [runs[r].watch EXCEPT !.phase = phase, !.inPhase = inPhase, !.overall = @ + 1,
                          !.spent[calls[r].at] = IF runs[r].watch.alone THEN @ + 1 ELSE @]

\* Mutant: the clock is not reset when the phase changes.
SeenOneClock(r) == SeenIn(r, runs[r].watch.inPhase + 1)

Seen(r) == SeenIn(r, IF phase = runs[r].watch.phase THEN runs[r].watch.inPhase + 1 ELSE 0)

TimedOut(w) == w.inPhase > budgetForPhase(w.phase) \/ w.overall > TEST_CEILING

\* Mutant: the watchdog of a test that compiles waits for it.
TickUnlessCompiling(r) ==
    /\ runs[r].stage = "testing"
    /\ phase \notin COMPILE_PHASES
    /\ IF TimedOut(Seen(r))
       THEN TestFails(r)
       ELSE runs' = [runs EXCEPT ![r].watch = Seen(r)] /\ UNCHANGED cancellable
    /\ UNCHANGED <<gpu, caches, phase, calls, mixed>>

Tick(r) ==
    /\ runs[r].stage = "testing"
    /\ IF TimedOut(Seen(r))
       THEN TestFails(r)
       ELSE runs' = [runs EXCEPT ![r].watch = Seen(r)] /\ UNCHANGED cancellable
    /\ UNCHANGED <<gpu, caches, phase, calls, mixed>>

\* A click on Cancel aborts every check in progress.
Cancel ==
    /\ cancellable
    /\ cancellable' = FALSE
    /\ runs' = [r \in Check |-> IF r \in At("frame") \cup At("testing")
                               THEN [stage |-> "cancelled"] ELSE runs[r]]
    /\ UNCHANGED <<gpu, caches, phase, calls, mixed>>

Driver(r) ==
    \/ Compiled(r)
    \/ PipelineMade(r)
    \/ CallThrows(r)
    \/ MappedAndCallsAgain(r)
    \/ \E ok \in BOOLEAN : Mapped(r, ok)

Runner(r) == TestStarts(r) \/ TestHasNoDevice(r) \/ Tick(r)

Next ==
    \/ \E d \in Device : DeviceDies(d) \/ Lost(d) \/ PageAcquires(d)
    \/ \E r \in Check : CheckStarts(r) \/ CheckHasNoDevice(r) \/ Runner(r) \/ Driver(r)
    \/ Cancel

Spec == Init /\ [][Next]_vars

\* The page's timers and frames come, and with them the steps of a check; the
\* driver need not answer, and a device need not be lost.
FairSpec == Spec /\ \A r \in Check : WF_vars(Runner(r))

-----------------------------------------------------------------------------

TypeOK ==
    /\ current \in Device \cup {NoDevice}
    /\ unused \subseteq Device
    /\ alive \subseteq Device
    /\ unheard \subseteq Device
    /\ cacheDevice \in Device \cup {NoDevice}
    /\ modules \in [Source -> Device \cup {NoDevice}]
    /\ pipelines \in [Keys -> Device \cup {NoDevice}]
    /\ phase \in Phase
    /\ calls \in [Check -> {Free} \cup [at : Await, test : Test, n : Nat, device : Device, object : Device]]
    /\ \A c \in InFlight : calls[c].n \in DOMAIN calls[c].test.entries
    /\ {cancellable, mixed} \subseteq BOOLEAN
    /\ \A r \in Check :
        /\ runs[r].stage \in {"none", "frame", "testing", "passed", "failed", "cancelled", "no device"}
        /\ runs[r].stage \in {"frame", "testing"} => runs[r].i \in DOMAIN runs[r].order
        /\ runs[r].stage = "testing" => r \in InFlight

\* What the caches hold is of device d.
Holds(d) ==
    /\ \A s \in Source : modules[s] \in {NoDevice, d}
    /\ \A k \in DOMAIN pipelines : pipelines[k] \in {NoDevice, d}

\* What a call computes with was made on its own device, and so is what the
\* caches hold for it, over losses and new devices, as long as no call starts
\* while another device still owes one an answer (webgpu.js, the caches).
UsesOwnObjects ==
    ~mixed =>
        \A c \in InFlight :
            /\ calls[c].object = calls[c].device
            /\ Holds(calls[c].device)

\* Why: the calls in flight are of one device, the caches hold only objects of
\* theirs, and of the device they are stamped with if they are stamped.
OneDevice ==
    ~mixed =>
        /\ \A c, o \in InFlight : calls[c].device = calls[o].device
        /\ \A c \in InFlight : cacheDevice \in {NoDevice, calls[c].device}
        /\ cacheDevice # NoDevice => Holds(cacheDevice)

\* A check passes only if every test of the production path has answered right
\* in that run, whatever the diagnostic ones did (tests.js, the order).
PassMeansTested == \A r \in At("passed") : Blocking \subseteq runs[r].answered

\* A check that has begun ends, though the driver never answers a call of it,
\* whoever else writes the phase its watchdog reads, or takes its device away.
ChecksEnd ==
    \A r \in Check :
        runs[r].stage = "frame" ~> runs[r].stage \in {"passed", "failed", "cancelled"}

\* A test that was alone on the GPU times out only if its calls, together, sat
\* longer in awaits of one kind than the budget of that kind, or longer in all
\* than the ceiling; a test of one call, then, only if one await was too long.
TimeoutJustified ==
    [][\A r \in At("testing") :
         runs[r].watch.alone /\ runs'[r].stage \in {"passed", "failed"} /\ calls'[r] = calls[r] =>
             \/ \E a \in Await : Seen(r).spent[a] > budgetForPhase(a)
             \/ Seen(r).overall > TEST_CEILING]_vars
=============================================================================
