----------------------------- MODULE SearchPage ------------------------------
(***************************************************************************)
(* The page around the coordinator, demo/krackpot/src/main.js: the Start   *)
(* and Stop buttons, the capability check that gates the search, the       *)
(* re-check, and the autostart of a shared link.                           *)
(*                                                                         *)
(* The tests of a capability check are abstracted to their verdict.        *)
(***************************************************************************)
EXTENDS SearchCoordinator

CONSTANT MaxRechecks    \* bound on the re-checks in progress at a time

ASSUME PageAssumption == MaxRechecks \in Nat

VARIABLES
    autostart,      \* the link asks for an autostart
    startDisabled,  \* the Start button
    stopDisabled,   \* the Stop button
    exists,         \* there is a coordinator
    handler,        \* the await a call of the start handler is at
    boot,           \* how far main() is
    timer,          \* the autostart timer is set
    rechecking,     \* the re-checks in progress
    rechecked,      \* history: a re-check was asked for since the page loaded
    stored,         \* localStorage holds a valid pass of the check
    failed          \* history: the last capability check failed, or its pass was not stored

buttons == <<startDisabled, stopDisabled>>
gate == <<stored, failed>>
page == <<autostart, buttons, exists, handler, boot, timer, rechecking, rechecked, gate>>
pageVars == <<vars, page>>

PageInit ==
    /\ Init
    /\ autostart \in BOOLEAN
    /\ startDisabled = TRUE
    /\ stopDisabled = TRUE
    /\ exists = FALSE
    /\ handler = [l \in Loop |-> "none"]
    /\ boot = "start"
    /\ timer = FALSE
    /\ rechecking = 0
    /\ rechecked = FALSE
    /\ stored \in BOOLEAN
    /\ failed = FALSE

Handle(l, place) == handler' = [handler EXCEPT ![l] = place]

\* How a capability check ends: with a pass or a failure, or by throwing after a
\* pass that localStorage refuses to hold.
Ending == {"passed", "failed", "unstored"}

\* It acquires a device first, if the page has none at that moment.
Verdict(v) ==
    /\ stored' = (stored \/ v = "passed")
    /\ failed' = (v # "passed")
    /\ IF moduleDevice = NoDevice
       THEN (\E d \in Device : InitWebGPU(d)) \/ (v = "failed" /\ UNCHANGED gpu)
       ELSE UNCHANGED gpu

\* main() after the adapter is there: a stored pass opens the gate at once.
Boot ==
    /\ boot = "start"
    /\ IF stored
       THEN startDisabled' = FALSE /\ boot' = "ready" /\ timer' = autostart
       ELSE startDisabled' = TRUE /\ boot' = "checking" /\ UNCHANGED timer
    /\ UNCHANGED <<vars, autostart, stopDisabled, exists, handler, rechecking, rechecked, gate>>

\* The check of the first visit ends.  If it throws, so does main(), before the
\* links of the re-check and the autostart are wired.
Booted(v) ==
    /\ boot = "checking"
    /\ Verdict(v)
    /\ startDisabled' = (v # "passed")
    /\ boot' = IF v = "unstored" THEN "broken" ELSE "ready"
    /\ timer' = (autostart /\ v # "unstored")
    /\ UNCHANGED <<target, pipeline, size, control, pc, job>>
    /\ UNCHANGED <<autostart, stopDisabled, exists, handler, rechecking, rechecked>>

\* The start handler up to its first await.
EnterStart(l) ==
    /\ handler[l] = "none"
    /\ startDisabled' = TRUE
    /\ stopDisabled' = TRUE
    /\ Handle(l, "preflight")
    /\ UNCHANGED <<vars, autostart, exists, boot, rechecking, rechecked, gate>>

\* Mutant: the button can be clicked until the preflight is over.
ClickStartOpen(l) ==
    /\ ~startDisabled
    /\ handler[l] = "none"
    /\ stopDisabled' = TRUE
    /\ Handle(l, "preflight")
    /\ UNCHANGED <<vars, autostart, startDisabled, exists, boot, timer, rechecking, rechecked, gate>>

ClickStart(l) == ~startDisabled /\ EnterStart(l) /\ UNCHANGED timer

\* The timer of the autostart calls the handler, whatever the button says.
AutostartFires(l) == timer /\ EnterStart(l) /\ timer' = FALSE

\* The preflight is over: a page without a coordinator makes one and sets it
\* up, another one calls its start().
Proceed(l) ==
    /\ Handle(l, "search")
    /\ exists' = TRUE
    /\ Goto(l, IF exists THEN "ready" ELSE "setup")

\* ensurePreflightPassed finds a stored pass.
PreflightStored(l) ==
    /\ handler[l] = "preflight"
    /\ stored
    /\ Proceed(l)
    /\ UNCHANGED <<target, gpu, pipeline, size, control, job>>
    /\ UNCHANGED <<autostart, buttons, boot, timer, rechecking, rechecked, gate>>

\* ensurePreflightPassed finds none and runs the capability check.
PreflightChecks(l) ==
    /\ handler[l] = "preflight"
    /\ ~stored
    /\ Handle(l, "checking")
    /\ startDisabled' = TRUE
    /\ UNCHANGED <<vars, autostart, stopDisabled, exists, boot, timer, rechecking, rechecked, gate>>

\* That check ends.  If it throws, so does the handler, its buttons as they are.
PreflightVerdict(l, v) ==
    /\ handler[l] = "checking"
    /\ Verdict(v)
    /\ IF v = "passed"
       THEN Proceed(l)
       ELSE Handle(l, "none") /\ UNCHANGED <<exists, pc>>
    /\ startDisabled' = (startDisabled /\ v # "failed")
    /\ UNCHANGED <<target, pipeline, size, control, job>>
    /\ UNCHANGED <<autostart, stopDisabled, boot, timer, rechecking, rechecked>>

\* setup() threw: the coordinator is given up.  That this happens while another
\* call searches with it is left out.
SetupThrew(l) ==
    /\ handler[l] = "search"
    /\ pc[l] = "failed"
    /\ active = {}
    /\ exists' = FALSE
    /\ device' = NoDevice
    /\ buffers' = NoBuffers
    /\ uploaded' = NoStride
    /\ keys' = Restored(saved)
    /\ running' = FALSE
    /\ losses' = 0
    /\ startDisabled' = FALSE
    /\ Handle(l, "none")
    /\ Goto(l, "idle")
    /\ UNCHANGED <<target, gpu, saved, active, job>>
    /\ UNCHANGED <<autostart, stopDisabled, boot, timer, rechecking, rechecked, gate>>

\* The handler offers Stop and calls start().
CallStart(l) ==
    /\ Start(l) \/ StartReturns(l)
    /\ stopDisabled' = FALSE
    /\ UNCHANGED <<autostart, startDisabled, exists, handler, boot, timer, rechecking, rechecked, gate>>

\* Mutant: the buttons are not reset after a search.
StartReturnedKeepsButtons(l) ==
    /\ handler[l] = "search"
    /\ pc[l] = "done"
    /\ Handle(l, "none")
    /\ Goto(l, "idle")
    /\ UNCHANGED <<target, gpu, pipeline, size, control, job>>
    /\ UNCHANGED <<autostart, buttons, exists, boot, timer, rechecking, rechecked, gate>>

\* start() returned, for whatever reason: the finally of the handler.
StartReturned(l) ==
    /\ handler[l] = "search"
    /\ pc[l] = "done"
    /\ startDisabled' = FALSE
    /\ stopDisabled' = TRUE
    /\ Handle(l, "none")
    /\ Goto(l, "idle")
    /\ UNCHANGED <<target, gpu, pipeline, size, control, job>>
    /\ UNCHANGED <<autostart, exists, boot, timer, rechecking, rechecked, gate>>

ClickStop == ~stopDisabled /\ Stop /\ UNCHANGED page

\* triggerRecheck, from the footer, where nothing keeps a second one from
\* starting while one runs, or from the test panel.
ClickRecheck ==
    /\ boot = "ready"
    /\ rechecking < MaxRechecks
    /\ rechecking' = rechecking + 1
    /\ rechecked' = TRUE
    /\ startDisabled' = TRUE
    /\ UNCHANGED <<vars, autostart, stopDisabled, exists, handler, boot, timer, gate>>

\* One of them ends; Start is offered again if the check passed.
Rechecked(v) ==
    /\ rechecking > 0
    /\ Verdict(v)
    /\ rechecking' = rechecking - 1
    /\ startDisabled' = (startDisabled /\ v # "passed")
    /\ UNCHANGED <<target, pipeline, size, control, pc, job>>
    /\ UNCHANGED <<autostart, stopDisabled, exists, handler, boot, timer, rechecked>>

ReloadPage ==
    /\ Reload
    /\ startDisabled' = TRUE
    /\ stopDisabled' = TRUE
    /\ exists' = FALSE
    /\ handler' = [l \in Loop |-> "none"]
    /\ boot' = "start"
    /\ timer' = FALSE
    /\ rechecking' = 0
    /\ rechecked' = FALSE
    /\ failed' = FALSE
    /\ UNCHANGED <<autostart, stored>>

\* What the handler of l does without the user.
HandlerStep(l) ==
    \/ PreflightStored(l)
    \/ PreflightChecks(l)
    \/ \E v \in Ending : PreflightVerdict(l, v)
    \/ SetupThrew(l)
    \/ CallStart(l)
    \/ StartReturned(l)
    \/ Advance(l) /\ UNCHANGED page
    \/ DispatchThrows(l) /\ UNCHANGED page

PageNext ==
    \/ Boot
    \/ \E v \in Ending : Booted(v) \/ Rechecked(v)
    \/ \E l \in Loop : ClickStart(l) \/ AutostartFires(l) \/ HandlerStep(l)
    \/ ClickStop
    \/ ClickRecheck
    \/ Environment /\ UNCHANGED page
    \/ ReloadPage

PageSpec == PageInit /\ [][PageNext]_pageVars

-----------------------------------------------------------------------------

\* The calls of start() that search, or set up the GPU, on the one coordinator.
Busy == {l \in Loop : pc[l] \notin {"idle", "ready", "done", "failed"}}

\* Nobody asked for a re-check or an autostart, the two ways to the start
\* handler that do not go through an enabled Start button.
ButtonsOnly == ~rechecked /\ ~autostart

\* The coordinator's code assumes that one loop at a time uses its buffers.
OneSearch == ButtonsOnly => Cardinality(Busy) <= 1

\* A search can be stopped while it runs, and Stop is not offered otherwise.
\* The finally of a handler whose search has just ended may be still to run.
StopMatchesSearch == (\A l \in Loop : pc[l] # "done") => (active # {} <=> ~stopDisabled)

\* main.js: "A search is running exactly when Stop is available."
StopAvailable == ButtonsOnly => StopMatchesSearch

\* When nothing is in progress any more, Start can be clicked, whichever way the
\* search, the set-up and the checks that overlapped ended, unless the check that
\* ended last did not pass or could not store its pass.
StartOffered ==
    boot = "ready" /\ rechecking = 0 /\ (\A l \in Loop : handler[l] = "none")
        => ~startDisabled \/ failed
=============================================================================
