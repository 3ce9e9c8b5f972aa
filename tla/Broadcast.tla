------------------------------ MODULE Broadcast ------------------------------
(***************************************************************************)
(* How the demo page, demo/index.html, publishes its events: one queue of  *)
(* jobs and one drain, jobs that no relay took again after a while, and    *)
(* the rounds of acknowledgements that follow a reset and wait for their   *)
(* jobs.                                                                   *)
(*                                                                         *)
(* A job stands for its events, which name it: no two jobs have the same.  *)
(* What an acknowledgement round makes canonical is in module Dag: here    *)
(* it is everything in the replica of that moment.                         *)
(***************************************************************************)
EXTENDS Naturals, Sequences, FiniteSets

CONSTANTS
    Click,          \* jobs of the buttons
    Resets,         \* bound on the resets of the replica
    maxRounds,      \* of bootstrapCanonicality
    Relay,
    Events,         \* how many events a job has
    MaxRelayLists   \* bound on the changes of the set of relays

ASSUME BroadcastAssumption ==
    /\ {Resets, MaxRelayLists} \subseteq Nat
    /\ maxRounds \in Nat \ {0}

Reset == 1..Resets

\* The events of a reset are published in one job here, its rounds in one each.
Job == (Click \X {0}) \cup (Reset \X (0..maxRounds))

ASSUME EventsAssumption == Events \in [Job -> Nat \ {0}]

VARIABLES
    broadcastQueue,         \* jobs, each with whether its caller waits
    broadcastQueueRunning,
    drain,                  \* the local variables of drainBroadcastQueue
    retryTimers,            \* the map of scheduleRetry, in the order the timers were set
    broadcastRelays,
    call,                   \* what has become of the first queueBroadcast of a job
    heard,                  \* history: jobs of which a relay took an event
    dag,                    \* the number of resets
    round,                  \* bootstrapCanonicality of every reset
    lists                   \* changes of the set of relays

queue == <<broadcastQueue, broadcastQueueRunning, drain, retryTimers>>
vars == <<queue, broadcastRelays, call, heard, dag, round, lists>>

NoDrain == [job |-> <<>>, waits |-> FALSE, events |-> 0, relays |-> {}, published |-> FALSE]

Init ==
    /\ broadcastQueue = <<>>
    /\ broadcastQueueRunning = FALSE
    /\ drain = NoDrain
    /\ retryTimers = <<>>
    /\ broadcastRelays = Relay
    /\ call = [j \in Job |-> "no"]
    /\ heard = {}
    /\ dag = 0
    /\ round = [r \in Reset |-> [at |-> "no", n |-> 0]]
    /\ lists = 0

-----------------------------------------------------------------------------
(* The queue                                                               *)

Taken(entry) == [job |-> entry.job, waits |-> entry.waits, events |-> Events[entry.job],
                 relays |-> broadcastRelays, published |-> FALSE]

\* Jobs join the queue; the drain takes the first of them at once if it was idle.
Queued(entries) ==
    LET all == broadcastQueue \o entries
    IN  IF broadcastQueueRunning
        THEN broadcastQueue' = all /\ UNCHANGED <<broadcastQueueRunning, drain>>
        ELSE /\ broadcastQueueRunning' = TRUE
             /\ broadcastQueue' = Tail(all)
             /\ drain' = Taken(Head(all))

\* The drain goes on with the next job, or ends.
NextJob ==
    IF broadcastQueue = <<>>
    THEN /\ broadcastQueueRunning' = FALSE
         /\ drain' = NoDrain
         /\ UNCHANGED broadcastQueue
    ELSE /\ broadcastQueue' = Tail(broadcastQueue)
         /\ UNCHANGED broadcastQueueRunning
         /\ drain' = Taken(Head(broadcastQueue))

\* A relay takes the event, or not; the drain sleeps and goes on.
Published(relay, ok) ==
    /\ broadcastQueueRunning
    /\ relay \in drain.relays
    /\ drain' = [drain EXCEPT !.relays = @ \ {relay}, !.published = @ \/ ok]
    /\ heard' = IF ok THEN heard \cup {drain.job} ELSE heard
    /\ UNCHANGED <<broadcastQueue, broadcastQueueRunning, retryTimers, broadcastRelays, call, dag, round, lists>>

\* The next event of the job, for the relays of that moment.
NextEvent ==
    /\ broadcastQueueRunning
    /\ drain.relays = {}
    /\ drain.events > 1
    /\ drain' = [drain EXCEPT !.events = @ - 1, !.relays = broadcastRelays]
    /\ UNCHANGED <<broadcastQueue, broadcastQueueRunning, retryTimers, broadcastRelays, call, heard, dag, round, lists>>

\* Mutant: the key of a retry is the label of the job.
KeyIsLabel(j) == j[2]

\* The label and the ids of the events.
Key(j) == <<j[2], j>>

scheduleRetry(j) ==
    IF \E i \in DOMAIN retryTimers : retryTimers[i].key = Key(j)
    THEN UNCHANGED retryTimers
    ELSE retryTimers' = Append(retryTimers, [key |-> Key(j), job |-> j])

\* Mutant: a caller only goes on when its events were published.
JobEndsUnresolved ==
    /\ broadcastQueueRunning
    /\ drain.relays = {} /\ drain.events = 1
    /\ IF drain.published THEN UNCHANGED retryTimers ELSE scheduleRetry(drain.job)
    /\ call' = [call EXCEPT ![drain.job] = IF drain.published THEN "resolved" ELSE @]
    /\ NextJob
    /\ UNCHANGED <<broadcastRelays, heard, dag, round, lists>>

\* After the last event: a job that no relay took any event of is tried again
\* later.  Its promise is resolved in either case.
JobEnds ==
    /\ broadcastQueueRunning
    /\ drain.relays = {} /\ drain.events = 1
    /\ IF drain.published THEN UNCHANGED retryTimers ELSE scheduleRetry(drain.job)
    /\ call' = [call EXCEPT ![drain.job] = IF drain.waits THEN "resolved" ELSE @]
    /\ NextJob
    /\ UNCHANGED <<broadcastRelays, heard, dag, round, lists>>

\* Mutant: a retry joins the queue and starts no drain.
RetryOnlyQueues ==
    /\ retryTimers # <<>>
    /\ broadcastQueue' = Append(broadcastQueue, [job |-> Head(retryTimers).job, waits |-> FALSE])
    /\ retryTimers' = Tail(retryTimers)
    /\ UNCHANGED <<broadcastQueueRunning, drain, broadcastRelays, call, heard, dag, round, lists>>

\* All timers are set for the same time, so the oldest is the next to fire.
Retry ==
    /\ retryTimers # <<>>
    /\ Queued(<<[job |-> Head(retryTimers).job, waits |-> FALSE]>>)
    /\ retryTimers' = Tail(retryTimers)
    /\ UNCHANGED <<broadcastRelays, call, heard, dag, round, lists>>

-----------------------------------------------------------------------------
(* Its callers                                                             *)

Entries(jobs) == [i \in DOMAIN jobs |-> [job |-> jobs[i], waits |-> TRUE]]

Publish(jobs) ==
    /\ Queued(Entries(jobs))
    /\ call' = [j \in Job |-> IF \E i \in DOMAIN jobs : jobs[i] = j THEN "waiting" ELSE call[j]]
    /\ UNCHANGED retryTimers

\* createEvent, seedGenesis, runAckRound.
Clicked(c) ==
    /\ call[<<c, 0>>] = "no"
    /\ Publish(<<<<c, 0>>>>)
    /\ UNCHANGED <<broadcastRelays, heard, dag, round, lists>>

\* resetDag and publishProfiles, up to the await of the first round.
ResetDag ==
    /\ dag < Resets
    /\ dag' = dag + 1
    /\ round' = [round EXCEPT ![dag'] = [at |-> "publishing", n |-> 1]]
    /\ Publish(<< <<dag', 0>>, <<dag', 1>> >>)
    /\ UNCHANGED <<broadcastRelays, heard, lists>>

\* Every participant has acknowledged what was in the replica.
Canonical(r) == dag = r

RoundPublished(r) ==
    /\ round[r].at = "publishing"
    /\ call[<<r, round[r].n>>] = "resolved"
    /\ round' = [round EXCEPT ![r].at = IF Canonical(r) THEN "done" ELSE "sleeping"]
    /\ UNCHANGED <<queue, broadcastRelays, call, heard, dag, lists>>

\* Targets that a later reset took out of the replica never become canonical.
NextRound(r) ==
    /\ round[r].at = "sleeping"
    /\ IF round[r].n = maxRounds \/ Canonical(r)
       THEN /\ round' = [round EXCEPT ![r].at = "done"]
            /\ UNCHANGED <<queue, call>>
       ELSE /\ round' = [round EXCEPT ![r] = [at |-> "publishing", n |-> @.n + 1]]
            /\ Publish(<< <<r, round[r].n + 1>> >>)
    /\ UNCHANGED <<broadcastRelays, heard, dag, lists>>

\* A relay is learned from an event, or a snapshot replaces them all.
RelaysChange ==
    /\ lists < MaxRelayLists
    /\ lists' = lists + 1
    /\ broadcastRelays' \in SUBSET Relay
    /\ UNCHANGED <<queue, call, heard, dag, round>>

Drains == (\E relay \in Relay, ok \in BOOLEAN : Published(relay, ok)) \/ NextEvent \/ JobEnds

Rounds(r) == RoundPublished(r) \/ NextRound(r)

Next ==
    \/ Drains
    \/ Retry
    \/ \E c \in Click : Clicked(c)
    \/ ResetDag
    \/ \E r \in Reset : Rounds(r)
    \/ RelaysChange

Spec == Init /\ [][Next]_vars

\* A publication settles, if only by its timeout, and timers fire.
FairSpec ==
    /\ Spec
    /\ WF_vars(Drains)
    /\ WF_vars(Retry)
    /\ \A r \in Reset : WF_vars(Rounds(r))

-----------------------------------------------------------------------------

InQueue == {broadcastQueue[i].job : i \in DOMAIN broadcastQueue}
Drained == IF broadcastQueueRunning THEN {drain.job} ELSE {}
Timed == {retryTimers[i].job : i \in DOMAIN retryTimers}

\* A job that no relay has taken is queued, being published or due to be tried
\* again, and what is queued has a drain (index.html, Step 22).
NothingForgotten ==
    /\ \A j \in Job : call[j] # "no" /\ j \notin heard => j \in InQueue \cup Drained \cup Timed
    /\ broadcastQueue # <<>> => broadcastQueueRunning

\* A reset comes to the end of its rounds whether or not a relay takes their
\* events, past the jobs and the retries of others, also when a later reset has
\* made them pointless.
RoundsEnd == <>[](\A r \in Reset : round[r].at \in {"no", "done"})

\* If the page has relays and they take events again and again, each job is
\* taken by one of them in the end, however often it was refused before.
HeardInTheEnd ==
    /\ <>[](broadcastRelays # {})
    /\ SF_vars(\E relay \in Relay : Published(relay, TRUE))
    => <>[](\A j \in Job : call[j] # "no" => j \in heard)
=============================================================================
