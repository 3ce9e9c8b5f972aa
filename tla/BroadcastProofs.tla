--------------------------- MODULE BroadcastProofs ---------------------------
(***************************************************************************)
(* Proof that the demo page forgets no job it is to publish, for any       *)
(* number of clicks, resets, rounds, relays and events.                    *)
(*                                                                         *)
(* A job moves between the queue, the drain and the timers, so the proof   *)
(* follows the jobs of the two sequences (JobsOf).  NothingForgotten is    *)
(* not inductive: a drain that has published counts its job as heard, and  *)
(* a job that ends unpublished is only safe if a timer with its key holds  *)
(* that very job.                                                          *)
(***************************************************************************)
EXTENDS Broadcast, TLAPS

Queueable == [job : Job, waits : BOOLEAN]
Timer == [key : {Key(j) : j \in Job}, job : Job]

Types ==
    /\ broadcastQueue \in Seq(Queueable)
    /\ retryTimers \in Seq(Timer)
    /\ broadcastQueueRunning \in BOOLEAN
    /\ broadcastQueueRunning => drain.job \in Job
    /\ DOMAIN call = Job

\* A timer is found by its key only, which names its job.
TimersNamed == \A i \in DOMAIN retryTimers : retryTimers[i].key = Key(retryTimers[i].job)

Counted ==
    /\ dag \in 0..Resets
    /\ round \in [Reset -> [at : {"no", "publishing", "sleeping", "done"}, n : 0..maxRounds]]

DrainTold == broadcastQueueRunning /\ drain.published => drain.job \in heard

Inv == Types /\ TimersNamed /\ DrainTold /\ NothingForgotten

JobsOf(q) == {q[i].job : i \in DOMAIN q}

\* What is queued with others is among the jobs of the longer queue.
LEMMA JobsOfConcat ==
    ASSUME NEW S, NEW q \in Seq(S), NEW r \in Seq(S)
    PROVE  JobsOf(q \o r) = JobsOf(q) \cup JobsOf(r)
<1>1. ASSUME NEW j \in JobsOf(q \o r) PROVE j \in JobsOf(q) \cup JobsOf(r)
  <2>1. PICK i \in 1..(Len(q) + Len(r)) : j = (q \o r)[i].job
    BY <1>1 DEF JobsOf
  <2>2. CASE i <= Len(q)
    BY <2>1, <2>2 DEF JobsOf
  <2>3. CASE i > Len(q)
    <3>1. (q \o r)[i] = r[i - Len(q)] /\ i - Len(q) \in 1..Len(r)
      BY <2>1, <2>3
    <3> QED  BY <2>1, <3>1 DEF JobsOf
  <2> QED  BY <2>1, <2>2, <2>3
<1>2. ASSUME NEW j \in JobsOf(q) PROVE j \in JobsOf(q \o r)
  <2>1. PICK i \in 1..Len(q) : j = q[i].job
    BY <1>2 DEF JobsOf
  <2>2. (q \o r)[i] = q[i] /\ i \in DOMAIN (q \o r)
    BY <2>1
  <2> QED  BY <2>1, <2>2 DEF JobsOf
<1>3. ASSUME NEW j \in JobsOf(r) PROVE j \in JobsOf(q \o r)
  <2>1. PICK i \in 1..Len(r) : j = r[i].job
    BY <1>3 DEF JobsOf
  <2>2. (q \o r)[i + Len(q)] = r[i] /\ i + Len(q) \in DOMAIN (q \o r)
    BY <2>1
  <2> QED  BY <2>1, <2>2 DEF JobsOf
<1> QED  BY <1>1, <1>2, <1>3

\* Taking the first of a queue moves one job and keeps the others.
LEMMA JobsOfTail ==
    ASSUME NEW S, NEW q \in Seq(S), q # <<>>
    PROVE  JobsOf(q) = {Head(q).job} \cup JobsOf(Tail(q))
<1>1. ASSUME NEW j \in JobsOf(q) PROVE j \in {Head(q).job} \cup JobsOf(Tail(q))
  <2>1. PICK i \in 1..Len(q) : j = q[i].job
    BY <1>1 DEF JobsOf
  <2>2. CASE i = 1
    BY <2>1, <2>2
  <2>3. CASE i # 1
    <3>1. i - 1 \in DOMAIN Tail(q) /\ Tail(q)[i - 1] = q[i]
      BY <2>1, <2>3
    <3> QED  BY <2>1, <3>1 DEF JobsOf
  <2> QED  BY <2>2, <2>3
<1>2. Head(q).job \in JobsOf(q)
  <2>1. 1 \in DOMAIN q /\ Head(q) = q[1]
    OBVIOUS
  <2> QED  BY <2>1 DEF JobsOf
<1>3. ASSUME NEW j \in JobsOf(Tail(q)) PROVE j \in JobsOf(q)
  <2>1. PICK i \in 1..Len(Tail(q)) : j = Tail(q)[i].job
    BY <1>3 DEF JobsOf
  <2>2. i + 1 \in 1..Len(q) /\ Tail(q)[i] = q[i + 1]
    BY <2>1
  <2> QED  BY <2>1, <2>2 DEF JobsOf
<1> QED  BY <1>1, <1>2, <1>3

-----------------------------------------------------------------------------

\* Jobs that join the queue are in it or in the drain, like all that were.
LEMMA QueuedKeeps ==
    ASSUME Types, NEW entries \in Seq(Queueable), entries # <<>>, Queued(entries)
    PROVE  /\ broadcastQueue' \in Seq(Queueable)
           /\ broadcastQueueRunning' = TRUE /\ drain'.job \in Job
           /\ (InQueue \cup Drained)' = InQueue \cup Drained \cup JobsOf(entries)
           /\ (drain' = drain /\ broadcastQueueRunning) \/ ~drain'.published
<1> DEFINE all == broadcastQueue \o entries
<1>1. all \in Seq(Queueable) /\ all # <<>> /\ Head(all) \in Queueable /\ Tail(all) \in Seq(Queueable)
  BY DEF Types
<1>2. JobsOf(all) = JobsOf(broadcastQueue) \cup JobsOf(entries)
  BY JobsOfConcat DEF Types
<1>3. JobsOf(all) = {Head(all).job} \cup JobsOf(Tail(all))
  BY <1>1, JobsOfTail
<1>4. CASE broadcastQueueRunning
  <2>1. broadcastQueue' = all /\ broadcastQueueRunning' = TRUE /\ drain' = drain
    BY <1>4 DEF Queued, Types
  <2>2. InQueue' = InQueue \cup JobsOf(entries) /\ Drained' = Drained
    BY <1>2, <1>4, <2>1 DEF InQueue, Drained, JobsOf
  <2> QED  BY <1>1, <1>4, <2>1, <2>2 DEF Types
<1>5. CASE ~broadcastQueueRunning
  <2>1. broadcastQueue' = Tail(all) /\ broadcastQueueRunning' = TRUE /\ drain' = Taken(Head(all))
    BY <1>5 DEF Queued
  <2>2. drain'.job = Head(all).job /\ ~drain'.published
    BY <2>1 DEF Taken
  <2>3. Head(all).job \in Job
    BY <1>1 DEF Queueable
  <2>4. (InQueue \cup Drained)' = JobsOf(all) /\ Drained = {}
    BY <1>3, <1>5, <2>1, <2>2 DEF InQueue, Drained, JobsOf
  <2>5. (InQueue \cup Drained)' = InQueue \cup Drained \cup JobsOf(entries)
    BY <1>2, <2>4 DEF InQueue, JobsOf
  <2> HIDE DEF all
  <2> QED  BY <1>1, <2>1, <2>2, <2>3, <2>5
<1> QED  BY <1>4, <1>5

\* A drain that goes on loses no other job than the one it ended.
LEMMA NextJobKeeps ==
    ASSUME Types, broadcastQueueRunning, NextJob
    PROVE  /\ broadcastQueue' \in Seq(Queueable) /\ broadcastQueueRunning' \in BOOLEAN
           /\ broadcastQueueRunning' => drain'.job \in Job /\ ~drain'.published
           /\ (InQueue \cup Drained)' = InQueue
           /\ broadcastQueue' # <<>> => broadcastQueueRunning'
<1>1. CASE broadcastQueue = <<>>
  BY <1>1 DEF NextJob, Types, InQueue, Drained
<1>2. CASE broadcastQueue # <<>>
  <2>1. /\ broadcastQueue' = Tail(broadcastQueue) /\ broadcastQueueRunning' = broadcastQueueRunning
        /\ drain' = Taken(Head(broadcastQueue))
    BY <1>2 DEF NextJob
  <2>2. Head(broadcastQueue) \in Queueable /\ Tail(broadcastQueue) \in Seq(Queueable)
    BY <1>2 DEF Types
  <2>3. drain'.job = Head(broadcastQueue).job /\ ~drain'.published /\ drain'.job \in Job
    BY <2>1, <2>2 DEF Taken, Queueable
  <2>4. JobsOf(broadcastQueue) = {Head(broadcastQueue).job} \cup JobsOf(Tail(broadcastQueue))
    BY <1>2, JobsOfTail DEF Types
  <2>5. (InQueue \cup Drained)' = InQueue
    BY <2>1, <2>3, <2>4 DEF InQueue, Drained, JobsOf
  <2> QED  BY <2>1, <2>2, <2>3, <2>5 DEF Types
<1> QED  BY <1>1, <1>2

\* After scheduleRetry the job has a timer, and no other lost its own.
LEMMA RetryScheduled ==
    ASSUME Types, TimersNamed, NEW j \in Job, scheduleRetry(j)
    PROVE  retryTimers' \in Seq(Timer) /\ TimersNamed' /\ Timed' = Timed \cup {j}
<1>1. CASE \E i \in DOMAIN retryTimers : retryTimers[i].key = Key(j)
  <2>1. PICK i \in DOMAIN retryTimers : retryTimers[i].key = Key(j)
    BY <1>1
  <2>2. retryTimers[i].job = j
    BY <2>1 DEF TimersNamed, Key
  <2> QED  BY <1>1, <2>2 DEF scheduleRetry, Types, TimersNamed, Timed
<1>2. CASE ~\E i \in DOMAIN retryTimers : retryTimers[i].key = Key(j)
  <2> DEFINE timer == [key |-> Key(j), job |-> j]
  <2>1. retryTimers' = Append(retryTimers, timer) /\ timer \in Timer
    BY <1>2 DEF scheduleRetry, Timer
  <2>2. retryTimers \in Seq(Timer) /\ retryTimers' \in Seq(Timer)
    BY <2>1 DEF Types
  <2>3. \A i \in DOMAIN retryTimers' :
           \/ i \in DOMAIN retryTimers /\ retryTimers'[i] = retryTimers[i]
           \/ retryTimers'[i] = timer
    BY <2>1, <2>2
  <2>4. \A i \in DOMAIN retryTimers : i \in DOMAIN retryTimers' /\ retryTimers'[i] = retryTimers[i]
    BY <2>1, <2>2
  <2>5. \E i \in DOMAIN retryTimers' : retryTimers'[i] = timer
    <3>1. Len(retryTimers) + 1 \in DOMAIN retryTimers' /\ retryTimers'[Len(retryTimers) + 1] = timer
      BY <2>1, <2>2
    <3> QED  BY <3>1
  <2>6. TimersNamed'
    BY <2>3 DEF TimersNamed
  <2>7. Timed' = Timed \cup {j}
    BY <2>3, <2>4, <2>5 DEF Timed
  <2> QED  BY <2>2, <2>6, <2>7
<1> QED  BY <1>1, <1>2

-----------------------------------------------------------------------------

LEMMA InitInv == Init => Inv /\ Counted
<1> SUFFICES ASSUME Init PROVE Inv /\ Counted
  OBVIOUS
<1>1. Types
  <2>1. <<>> \in Seq(Queueable) /\ <<>> \in Seq(Timer)
    OBVIOUS
  <2> QED  BY <2>1 DEF Init, Types
<1>2. TimersNamed /\ DrainTold
  BY DEF Init, TimersNamed, DrainTold
<1>3. NothingForgotten
  BY DEF Init, NothingForgotten
<1>4. Counted
  BY BroadcastAssumption DEF Init, Counted
<1> QED  BY <1>1, <1>2, <1>3, <1>4 DEF Inv

\* Jobs that callers hand to the queue are kept.
LEMMA PublishKeeps ==
    ASSUME Inv, NEW jobs \in Seq(Job), jobs # <<>>, Publish(jobs), heard' = heard
    PROVE  Inv'
<1> DEFINE entries == Entries(jobs)
<1>1. entries \in Seq(Queueable) /\ entries # <<>>
  <2>1. entries \in [1..Len(jobs) -> Queueable] /\ Len(jobs) \in Nat \ {0}
    BY DEF Entries, Queueable
  <2>2. entries \in Seq(Queueable)
    BY <2>1
  <2>3. 1 \in DOMAIN entries
    BY <2>1
  <2> QED  BY <2>2, <2>3
<1>2. \A j \in Job : (\E i \in DOMAIN jobs : jobs[i] = j) => j \in JobsOf(entries)
  BY DEF JobsOf, Entries
<1>3. Queued(entries) /\ retryTimers' = retryTimers
  BY DEF Publish
<1> HIDE DEF entries
<1>4. /\ broadcastQueue' \in Seq(Queueable)
      /\ broadcastQueueRunning' = TRUE /\ drain'.job \in Job
      /\ (InQueue \cup Drained)' = InQueue \cup Drained \cup JobsOf(entries)
      /\ (drain' = drain /\ broadcastQueueRunning) \/ ~drain'.published
  BY <1>1, <1>3, QueuedKeeps DEF Inv
<1>5. /\ DOMAIN call' = Job
      /\ \A j \in Job : (\E i \in DOMAIN jobs : jobs[i] = j) \/ call'[j] = call[j]
  BY DEF Publish
<1>6. Types'
  BY <1>3, <1>4, <1>5 DEF Inv, Types
<1>7. TimersNamed' /\ DrainTold' /\ Timed' = Timed
  BY <1>3, <1>4 DEF Inv, TimersNamed, DrainTold, Timed
<1>8. NothingForgotten'
  BY <1>2, <1>4, <1>5, <1>7 DEF Inv, NothingForgotten
<1> QED  BY <1>6, <1>7, <1>8 DEF Inv

\* The first timer fires: its job moves to the queue.
LEMMA RetryKeeps == ASSUME Inv, Retry PROVE Inv'
<1> DEFINE entry == [job |-> Head(retryTimers).job, waits |-> FALSE]
           entries == <<entry>>
<1>1. retryTimers # <<>> /\ retryTimers' = Tail(retryTimers) /\ Queued(entries)
  BY DEF Retry
<1>2. retryTimers \in Seq(Timer) /\ Head(retryTimers) \in Timer /\ retryTimers' \in Seq(Timer)
  BY <1>1 DEF Inv, Types
<1>3. entry \in Queueable
  BY <1>2 DEF Queueable, Timer
<1>4. entries \in Seq(Queueable) /\ entries # <<>> /\ JobsOf(entries) = {Head(retryTimers).job}
  BY <1>3 DEF JobsOf
<1> HIDE DEF entries
<1>5. /\ broadcastQueue' \in Seq(Queueable)
      /\ broadcastQueueRunning' = TRUE /\ drain'.job \in Job
      /\ (InQueue \cup Drained)' = InQueue \cup Drained \cup JobsOf(entries)
      /\ (drain' = drain /\ broadcastQueueRunning) \/ ~drain'.published
  BY <1>1, <1>4, QueuedKeeps DEF Inv
<1>6. Timed = {Head(retryTimers).job} \cup Timed'
  <2>1. JobsOf(retryTimers) = {Head(retryTimers).job} \cup JobsOf(Tail(retryTimers))
    BY <1>1, <1>2, JobsOfTail
  <2>2. Timed = JobsOf(retryTimers) /\ Timed' = JobsOf(Tail(retryTimers))
    BY <1>1 DEF Timed, JobsOf
  <2> QED  BY <2>1, <2>2
<1>7. TimersNamed'
  <2>1. \A i \in DOMAIN retryTimers' : i + 1 \in DOMAIN retryTimers /\ retryTimers'[i] = retryTimers[i + 1]
    BY <1>1, <1>2
  <2> QED  BY <2>1 DEF Inv, TimersNamed
<1>8. call' = call /\ heard' = heard
  BY DEF Retry
<1>9. Types' /\ DrainTold'
  BY <1>2, <1>5, <1>8 DEF Inv, Types, DrainTold
<1>10. NothingForgotten'
  BY <1>4, <1>5, <1>6, <1>8 DEF Inv, NothingForgotten
<1> QED  BY <1>7, <1>9, <1>10 DEF Inv

\* A job ends: it has been heard, or a timer has it.
LEMMA JobEndsKeeps == ASSUME Inv, JobEnds PROVE Inv'
<1>1. /\ broadcastQueueRunning /\ drain.job \in Job /\ NextJob /\ heard' = heard
      /\ IF drain.published THEN UNCHANGED retryTimers ELSE scheduleRetry(drain.job)
      /\ call' = [call EXCEPT ![drain.job] = IF drain.waits THEN "resolved" ELSE @]
  BY DEF JobEnds, Inv, Types
<1>2. /\ broadcastQueue' \in Seq(Queueable) /\ broadcastQueueRunning' \in BOOLEAN
      /\ broadcastQueueRunning' => drain'.job \in Job /\ ~drain'.published
      /\ (InQueue \cup Drained)' = InQueue
      /\ broadcastQueue' # <<>> => broadcastQueueRunning'
  BY <1>1, NextJobKeeps DEF Inv
<1>3. /\ retryTimers' \in Seq(Timer) /\ TimersNamed' /\ Timed \subseteq Timed'
      /\ drain.job \in heard \/ drain.job \in Timed'
  <2>1. CASE drain.published
    BY <1>1, <2>1 DEF Inv, Types, TimersNamed, DrainTold, Timed
  <2>2. CASE ~drain.published
    BY <1>1, <2>2, RetryScheduled DEF Inv
  <2> QED  BY <2>1, <2>2
<1>4. DOMAIN call' = Job /\ \A j \in Job \ {drain.job} : call'[j] = call[j]
  BY <1>1 DEF Inv, Types
<1>5. Types' /\ DrainTold'
  BY <1>2, <1>3, <1>4 DEF Types, DrainTold
<1>6. NothingForgotten'
  BY <1>1, <1>2, <1>3, <1>4 DEF Inv, NothingForgotten, Drained
<1> QED  BY <1>3, <1>5, <1>6 DEF Inv

LEMMA StepInv == Inv /\ Counted /\ [Next]_vars => Inv'
<1> SUFFICES ASSUME Inv, Counted, [Next]_vars PROVE Inv'
  OBVIOUS
<1>1. ASSUME NEW relay \in Relay, NEW ok \in BOOLEAN, Published(relay, ok) PROVE Inv'
  <2>1. /\ broadcastQueueRunning /\ UNCHANGED <<broadcastQueue, broadcastQueueRunning, retryTimers, call>>
        /\ drain' = [drain EXCEPT !.relays = @ \ {relay}, !.published = @ \/ ok]
        /\ heard' = IF ok THEN heard \cup {drain.job} ELSE heard
    BY <1>1 DEF Published
  <2>2. drain'.job = drain.job /\ (drain'.published => drain.published \/ ok)
    BY <2>1 DEF Inv, Types
  <2>3. Types' /\ TimersNamed'
    BY <2>1, <2>2 DEF Inv, Types, TimersNamed
  <2>4. DrainTold' /\ heard \subseteq heard'
    BY <2>1, <2>2 DEF Inv, DrainTold
  <2>5. InQueue' = InQueue /\ Drained' = Drained /\ Timed' = Timed
    BY <2>1, <2>2 DEF InQueue, Drained, Timed
  <2>6. NothingForgotten'
    BY <2>1, <2>4, <2>5 DEF Inv, NothingForgotten
  <2> QED  BY <2>3, <2>4, <2>6 DEF Inv
<1>2. CASE NextEvent
  <2>1. /\ UNCHANGED <<broadcastQueue, broadcastQueueRunning, retryTimers, call, heard>>
        /\ drain' = [drain EXCEPT !.events = @ - 1, !.relays = broadcastRelays]
    BY <1>2 DEF NextEvent
  <2>2. drain'.job = drain.job /\ drain'.published = drain.published
    BY <2>1
  <2> QED  BY <2>1, <2>2 DEF Inv, Types, TimersNamed, DrainTold, NothingForgotten, InQueue, Drained, Timed
<1>3. CASE JobEnds
  BY <1>3, JobEndsKeeps
<1>4. CASE Retry
  BY <1>4, RetryKeeps
<1>5. ASSUME NEW c \in Click, Clicked(c) PROVE Inv'
  <2>1. <<c, 0>> \in Job
    BY DEF Job
  <2> QED  BY <1>5, <2>1, PublishKeeps DEF Clicked
<1>6. CASE ResetDag
  <2>1. dag' \in Reset
    BY <1>6, BroadcastAssumption DEF ResetDag, Counted, Reset
  <2>2. <<dag', 0>> \in Job /\ <<dag', 1>> \in Job
    BY <2>1, BroadcastAssumption DEF Job
  <2> DEFINE jobs == << <<dag', 0>>, <<dag', 1>> >>
  <2>3. jobs \in Seq(Job) /\ jobs # <<>>
    BY <2>2
  <2>4. Publish(jobs) /\ heard' = heard
    BY <1>6 DEF ResetDag
  <2> HIDE DEF jobs
  <2> QED  BY <2>3, <2>4, PublishKeeps
<1>7. ASSUME NEW r \in Reset, Rounds(r) PROVE Inv'
  <2>1. CASE RoundPublished(r)
    BY <2>1 DEF RoundPublished, queue, Inv, Types, TimersNamed, DrainTold, NothingForgotten, InQueue, Drained, Timed
  <2>2. CASE NextRound(r) /\ UNCHANGED <<queue, call>>
    BY <2>2 DEF NextRound, queue, Inv, Types, TimersNamed, DrainTold, NothingForgotten, InQueue, Drained, Timed
  <2>3. CASE NextRound(r) /\ round[r].n # maxRounds /\ Publish(<< <<r, round[r].n + 1>> >>)
    <3>1. <<r, round[r].n + 1>> \in Job
      BY <2>3, BroadcastAssumption DEF Counted, Job
    <3> QED  BY <2>3, <3>1, PublishKeeps DEF NextRound
  <2> QED  BY <1>7, <2>1, <2>2, <2>3 DEF Rounds, NextRound
<1>8. CASE RelaysChange
  BY <1>8 DEF RelaysChange, queue, Inv, Types, TimersNamed, DrainTold, NothingForgotten, InQueue, Drained, Timed
<1>9. CASE UNCHANGED vars
  BY <1>9 DEF vars, queue, Inv, Types, TimersNamed, DrainTold, NothingForgotten, InQueue, Drained, Timed
<1> QED
  BY <1>1, <1>2, <1>3, <1>4, <1>5, <1>6, <1>7, <1>8, <1>9 DEF Next, Drains

LEMMA StepCounted == Counted /\ [Next]_vars => Counted'
<1> SUFFICES ASSUME Counted, [Next]_vars PROVE Counted'
  OBVIOUS
<1>1. CASE ResetDag
  BY <1>1, BroadcastAssumption DEF ResetDag, Counted, Reset
<1>2. ASSUME NEW r \in Reset, Rounds(r) PROVE Counted'
  BY <1>2, BroadcastAssumption DEF Rounds, RoundPublished, NextRound, Counted
<1>3. CASE UNCHANGED <<dag, round>>
  BY <1>3 DEF Counted
<1> QED
  BY <1>1, <1>2, <1>3
  DEF Next, Drains, Published, NextEvent, JobEnds, Retry, Clicked, RelaysChange, vars

LEMMA IsInvariant == Spec => [](Inv /\ Counted)
  BY InitInv, StepInv, StepCounted, PTL DEF Spec

\* Between the queue, the drain and the timers no job is lost that no relay has
\* taken, and what is queued has a drain (index.html, queueBroadcast and
\* drainBroadcastQueue).
THEOREM NoJobForgotten == Spec => []NothingForgotten
<1>1. Inv /\ Counted => NothingForgotten
  BY DEF Inv
<1> QED  BY <1>1, IsInvariant, PTL
=============================================================================
