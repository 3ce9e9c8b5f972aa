---------------------------- MODULE CheckProofs ------------------------------
(***************************************************************************)
(* Theorems about CapabilityCheck, for every suite of tests, number of     *)
(* devices, overlapping checks and calls of a test, and every budget.      *)
(***************************************************************************)
EXTENDS CapabilityCheck, FiniteSetTheorems, TLAPS

-----------------------------------------------------------------------------
(* The order of the tests                                                  *)

LEMMA SuiteFacts ==
    /\ Len(TESTS) \in Nat /\ DOMAIN TESTS = 1..Len(TESTS)
    /\ \A i \in DOMAIN TESTS : TESTS[i] \in Test /\ Rank(TESTS[i]) \in 0..2
    /\ \A d \in BOOLEAN : Pool(d) \subseteq DOMAIN TESTS /\ IsFiniteSet(Pool(d))
<1>1. Len(TESTS) \in Nat /\ DOMAIN TESTS = 1..Len(TESTS)
  BY SuiteAssumption
<1>2. \A i \in DOMAIN TESTS : TESTS[i] \in Test /\ Rank(TESTS[i]) \in 0..2
  BY DEF Test, Rank
<1>3. IsFiniteSet(DOMAIN TESTS)
  BY <1>1, FS_Interval
<1>4. \A d \in BOOLEAN : Pool(d) \subseteq DOMAIN TESTS /\ IsFiniteSet(Pool(d))
  BY <1>3, FS_Subset DEF Pool
<1> QED  BY <1>1, <1>2, <1>4

\* Before orders the tests of a check, so that each has a place of its own.
LEMMA BeforeOrders ==
    ASSUME NEW d \in BOOLEAN
    PROVE  \A i, j, l \in Pool(d) :
              /\ ~Before(i, i)
              /\ Before(i, j) /\ Before(j, l) => Before(i, l)
              /\ i # j => Before(i, j) \/ Before(j, i)
<1> SUFFICES ASSUME NEW i \in Pool(d), NEW j \in Pool(d), NEW l \in Pool(d)
             PROVE  /\ ~Before(i, i)
                    /\ Before(i, j) /\ Before(j, l) => Before(i, l)
                    /\ i # j => Before(i, j) \/ Before(j, i)
  OBVIOUS
<1>1. {i, j, l} \subseteq Nat /\ {Rank(TESTS[i]), Rank(TESTS[j]), Rank(TESTS[l])} \subseteq Nat
  BY SuiteFacts
<1> QED  BY <1>1 DEF Before

LEMMA PlacesDiffer ==
    ASSUME NEW d \in BOOLEAN, NEW i \in Pool(d), NEW j \in Pool(d), Before(i, j)
    PROVE  Place(d, i) < Place(d, j)
<1> DEFINE B(x) == {y \in Pool(d) : Before(y, x)}
<1>1. \A x \in Pool(d) : IsFiniteSet(B(x)) /\ Cardinality(B(x)) \in Nat
  BY SuiteFacts, FS_Subset, FS_CardinalityType
<1>2. B(i) \subseteq B(j) /\ i \in B(j) /\ i \notin B(i)
  BY BeforeOrders
<1>3. B(i) \in SUBSET B(j) /\ B(i) # B(j)
  BY <1>2
<1>4. Cardinality(B(i)) <= Cardinality(B(j)) /\ Cardinality(B(i)) # Cardinality(B(j))
  BY <1>1, <1>3, FS_Subset
<1>5. Place(d, i) = Cardinality(B(i)) + 1 /\ Place(d, j) = Cardinality(B(j)) + 1
  BY DEF Place
<1> HIDE DEF B
<1> QED  BY <1>1, <1>4, <1>5

\* Every place is taken, by one test.
LEMMA PlacesTaken ==
    ASSUME NEW d \in BOOLEAN
    PROVE  /\ \A i \in Pool(d) : Place(d, i) \in 1..Cardinality(Pool(d))
           /\ \A n \in 1..Cardinality(Pool(d)) : \E i \in Pool(d) : Place(d, i) = n
<1> DEFINE P == Pool(d)
           N == Cardinality(P)
           place == [i \in P |-> Place(d, i)]
<1>1. IsFiniteSet(P) /\ N \in Nat
  BY SuiteFacts, FS_CardinalityType
<1>2. ASSUME NEW i \in P PROVE Place(d, i) \in 1..N
  <2> DEFINE B == {y \in P : Before(y, i)}
  <2>1. B \in SUBSET P /\ B # P
    BY <1>2, BeforeOrders
  <2>2. Cardinality(B) \in Nat /\ Cardinality(B) <= N /\ Cardinality(B) # N
    BY <1>1, <2>1, FS_Subset, FS_CardinalityType
  <2>3. Place(d, i) = Cardinality(B) + 1
    BY DEF Place
  <2> HIDE DEF B, N
  <2> QED  BY <1>1, <2>2, <2>3
<1>3. \A i, j \in P : Place(d, i) = Place(d, j) => i = j
  <2> SUFFICES ASSUME NEW i \in P, NEW j \in P, i # j PROVE Place(d, i) # Place(d, j)
    OBVIOUS
  <2>1. Before(i, j) \/ Before(j, i)
    BY BeforeOrders
  <2>2. Place(d, i) \in Nat /\ Place(d, j) \in Nat
    <3> HIDE DEF N
    <3> QED  BY <1>1, <1>2
  <2> QED  BY <2>1, <2>2, PlacesDiffer
<1>4. place \in Injection(P, 1..N)
  BY <1>2, <1>3 DEF Injection, IsInjective
<1>5. IsFiniteSet(1..N) /\ Cardinality(1..N) = N
  BY <1>1, FS_Interval
<1>6. place \in Surjection(P, 1..N)
  BY <1>4, <1>5, FS_Injection
<1> QED  BY <1>2, <1>6 DEF Surjection

\* A check runs each of its tests, at its place.
LEMMA OrderedFacts ==
    ASSUME NEW d \in BOOLEAN
    PROVE  /\ DOMAIN Ordered(d) = 1..Cardinality(Pool(d))
           /\ \A i \in Pool(d) : Place(d, i) \in DOMAIN Ordered(d) /\ Ordered(d)[Place(d, i)] = TESTS[i]
           /\ \A n \in DOMAIN Ordered(d) : \E i \in Pool(d) : Place(d, i) = n
<1>1. DOMAIN Ordered(d) = 1..Cardinality(Pool(d))
  BY DEF Ordered
<1>2. ASSUME NEW i \in Pool(d)
      PROVE  Place(d, i) \in DOMAIN Ordered(d) /\ Ordered(d)[Place(d, i)] = TESTS[i]
  <2> DEFINE j == CHOOSE x \in Pool(d) : Place(d, x) = Place(d, i)
  <2>1. j \in Pool(d) /\ Place(d, j) = Place(d, i)
    OBVIOUS
  <2>2. Place(d, i) \in 1..Cardinality(Pool(d))
    BY PlacesTaken
  <2>3. Ordered(d)[Place(d, i)] = TESTS[j]
    BY <2>2 DEF Ordered
  <2> HIDE DEF j
  <2>4. j = i
    <3>1. Place(d, i) \in Int
      BY <2>2, FS_CardinalityType, SuiteFacts
    <3> QED  BY <2>1, <3>1, BeforeOrders, PlacesDiffer
  <2> QED  BY <1>1, <2>2, <2>3, <2>4
<1> QED  BY <1>1, <1>2, PlacesTaken

LEMMA OrderedType == \A d \in BOOLEAN : Ordered(d) \in Seq(Test) \ {<<>>}
<1> SUFFICES ASSUME NEW d \in BOOLEAN PROVE Ordered(d) \in Seq(Test) /\ Ordered(d) # <<>>
  OBVIOUS
<1>1. Cardinality(Pool(d)) \in Nat
  BY SuiteFacts, FS_CardinalityType
<1>2. \A n \in DOMAIN Ordered(d) : Ordered(d)[n] \in Test
  BY OrderedFacts, SuiteFacts
<1>3. Ordered(d) \in [1..Cardinality(Pool(d)) -> Test]
  BY <1>2, OrderedFacts DEF Ordered
<1>4. Pool(d) # {}
  BY SuiteAssumption DEF Blocking, Pool, Test
<1>5. \E n : n \in DOMAIN Ordered(d)
  BY <1>4, OrderedFacts
<1> HIDE DEF Ordered
<1>6. Ordered(d) \in Seq(Test)
  BY <1>1, <1>3
<1> QED  BY <1>5, <1>6

\* That of a check or of a re-check.
LEMMA OrderedFor ==
    ASSUME NEW r
    PROVE  /\ Ordered(r \in Recheck) \in {Ordered(b) : b \in BOOLEAN}
           /\ Ordered(r \in Recheck) \in Seq(Test) \ {<<>>}
<1>1. \A b \in BOOLEAN : Ordered(b) \in {Ordered(x) : x \in BOOLEAN} /\ Ordered(b) \in Seq(Test) \ {<<>>}
  BY OrderedType
<1>2. (r \in Recheck) = TRUE \/ (r \in Recheck) = FALSE
  OBVIOUS
<1>3. CASE (r \in Recheck) = TRUE
  BY <1>1, <1>3
<1>4. CASE (r \in Recheck) = FALSE
  BY <1>1, <1>4
<1> QED  BY <1>2, <1>3, <1>4

\* Each blocking test comes before every diagnostic one.
BlockingFirst ==
    \A b \in BOOLEAN : \A t \in Blocking :
        \E j \in DOMAIN Ordered(b) :
            /\ Ordered(b)[j] = t
            /\ \A k \in DOMAIN Ordered(b) : Ordered(b)[k].diagnostic => j < k

\* The ranks see to that (tests.js:763-767).
LEMMA BlockingComesFirst == BlockingFirst
<1> SUFFICES ASSUME NEW b \in BOOLEAN, NEW t \in Blocking
             PROVE  \E j \in DOMAIN Ordered(b) :
                        /\ Ordered(b)[j] = t
                        /\ \A k \in DOMAIN Ordered(b) : Ordered(b)[k].diagnostic => j < k
  BY DEF BlockingFirst
<1>1. PICK i \in DOMAIN TESTS : TESTS[i] = t /\ ~t.diagnostic /\ t \in Test
  BY DEF Blocking, Test
<1>2. i \in Pool(b)
  BY <1>1 DEF Pool
<1>3. Place(b, i) \in DOMAIN Ordered(b) /\ Ordered(b)[Place(b, i)] = t
  BY <1>1, <1>2, OrderedFacts
<1>4. ASSUME NEW k \in DOMAIN Ordered(b), Ordered(b)[k].diagnostic PROVE Place(b, i) < k
  <2>1. PICK l \in Pool(b) : Place(b, l) = k
    BY OrderedFacts
  <2>2. TESTS[l].diagnostic /\ TESTS[l] \in Test
    BY <1>4, <2>1, OrderedFacts, SuiteFacts
  <2>3. Rank(TESTS[i]) < Rank(TESTS[l])
    BY <1>1, <2>2, SuiteAssumption DEF Rank
  <2> QED  BY <1>2, <2>1, <2>3, PlacesDiffer DEF Before
<1> QED  BY <1>3, <1>4

-----------------------------------------------------------------------------
Cached == Device \cup {NoDevice}
InCall == [at : Await, test : Test, n : Nat, device : Device, object : Device]
Going == {"frame", "testing"}

Watch == [phase : Phase, inPhase : Nat, overall : Nat, spent : [Await -> Nat], alone : BOOLEAN]
Unfinished ==
    [stage : Going, order : Seq(Test) \ {<<>>}, i : Nat, answered : SUBSET Test, watch : Watch]
Run ==
    [stage : {"none", "cancelled", "failed", "no device"}]
    \cup [stage : {"passed"}, answered : SUBSET Test]
    \cup Unfinished

\* A call in flight is one of those its test makes.
CallsOK ==
    /\ calls \in [Check -> {Free} \cup InCall]
    /\ \A c \in InFlight : calls[c].n \in DOMAIN calls[c].test.entries

\* The devices, the caches and the calls have their types.
GpuOK ==
    /\ current \in Cached
    /\ unused \subseteq Device
    /\ alive \subseteq Device
    /\ unheard \subseteq Device
    /\ cacheDevice \in Cached
    /\ modules \in [Source -> Cached]
    /\ pipelines \in [Keys -> Cached]
    /\ phase \in Phase
    /\ CallsOK
    /\ mixed \in BOOLEAN

\* Every run has a test to run until it is over, and a call out while it tests.
RunsOK ==
    /\ runs \in [Check -> Run]
    /\ \A r \in Check : runs[r].stage \in Going => runs[r].i \in DOMAIN runs[r].order
    /\ At("testing") \subseteq InFlight

OwnInv == GpuOK /\ UsesOwnObjects /\ OneDevice

-----------------------------------------------------------------------------
(* The operators                                                           *)

LEMMA TestParts ==
    ASSUME NEW t \in Test
    PROVE  /\ t.source \in Source
           /\ \A n \in DOMAIN t.entries : n \in Nat /\ Key(t, n) \in Keys
           /\ 1 \in DOMAIN t.entries
<1>1. t.entries \in Seq({t.entries[n] : n \in DOMAIN t.entries}) /\ t.entries # <<>>
  BY SuiteAssumption
<1>2. DOMAIN t.entries = 1..Len(t.entries) /\ Len(t.entries) \in Nat /\ Len(t.entries) # 0
  BY <1>1
<1>3. \A n \in DOMAIN t.entries : Key(t, n) \in Keys
  BY DEF Keys
<1> QED  BY <1>2, <1>3 DEF Source

LEMMA NothingCached ==
    /\ NoModules \in [Source -> Cached]
    /\ NoPipelines \in [Keys -> Cached]
    /\ \A s \in Source : NoModules[s] = NoDevice
    /\ \A k \in DOMAIN NoPipelines : NoPipelines[k] = NoDevice
  BY DEF NoModules, NoPipelines, Cached

\* What a call that goes on is afterwards.
LEMMA AwaitsFacts ==
    ASSUME CallsOK,
           NEW c \in Check, NEW at \in Await, NEW t \in Test, NEW n \in DOMAIN t.entries,
           NEW d \in Device, NEW o \in Device, Awaits(c, at, t, n, d, o)
    PROVE  /\ CallsOK'
           /\ phase' = at /\ phase' \in Phase
           /\ calls'[c].at = at /\ calls'[c].device = d /\ calls'[c].object = o
           /\ \A e \in Check : e # c => calls'[e] = calls[e]
           /\ InFlight' = InFlight \cup {c}
<1> DEFINE x == [at |-> at, test |-> t, n |-> n, device |-> d, object |-> o]
<1>1. x \in InCall /\ x.device = d /\ x.object = o /\ x.at = at /\ x.test = t /\ x.n = n
  BY TestParts DEF InCall
<1> HIDE DEF x
<1>2. calls' = [calls EXCEPT ![c] = x] /\ phase' = at
  BY DEF Awaits, x
<1>3. calls' \in [Check -> {Free} \cup InCall] /\ calls'[c] = x
  BY <1>1, <1>2 DEF CallsOK
<1>4. \A e \in Check : e # c => calls'[e] = calls[e]
  BY <1>2 DEF CallsOK
<1>5. at # "free" /\ at \in Phase
  BY DEF Await, Phase
<1>6. InFlight' = InFlight \cup {c}
  BY <1>1, <1>3, <1>4, <1>5 DEF InFlight
<1>7. \A e \in InFlight' : calls'[e].n \in DOMAIN calls'[e].test.entries
  <2> TAKE e \in InFlight'
  <2>1. CASE e = c
    BY <1>1, <1>3, <2>1
  <2>2. CASE e # c
    BY <1>4, <1>6, <2>2 DEF CallsOK, InFlight
  <2> QED  BY <2>1, <2>2
<1> QED  BY <1>1, <1>2, <1>3, <1>4, <1>5, <1>6, <1>7 DEF CallsOK

\* With a module of device d and a cache of pipelines ps, all of device d or of
\* others, the call computes with an object of d or with one of ps.
LEMMA WithModuleFacts ==
    ASSUME CallsOK,
           NEW c \in Check, NEW t \in Test, NEW n \in DOMAIN t.entries,
           NEW d \in Device, NEW m \in Device,
           NEW ps \in [Keys -> Cached],
           WithModule(c, t, n, d, m, ps)
    PROVE  /\ CallsOK'
           /\ phase' \in Phase /\ calls'[c].at = phase'
           /\ pipelines' = ps
           /\ calls'[c].device = d
           /\ calls'[c].object \in Device
           /\ calls'[c].object = m \/ \E k \in DOMAIN ps : calls'[c].object = ps[k]
           /\ \A e \in Check : e # c => calls'[e] = calls[e]
           /\ InFlight' = InFlight \cup {c}
<1>0. Key(t, n) \in DOMAIN ps
  BY TestParts
<1>1. "createComputePipelineAsync" \in Await /\ "mapAsync" \in Await
  BY DEF Await, Phase
<1>2. CASE ps[Key(t, n)] = NoDevice
  <2>1. Awaits(c, "createComputePipelineAsync", t, n, d, m) /\ pipelines' = ps
    BY <1>2 DEF WithModule
  <2> QED  BY <1>1, <2>1, AwaitsFacts
<1>3. CASE ps[Key(t, n)] # NoDevice
  <2> DEFINE o == ps[Key(t, n)]
  <2>1. Awaits(c, "mapAsync", t, n, d, o) /\ pipelines' = ps
    BY <1>3 DEF WithModule
  <2>2. o \in Device
    BY <1>0, <1>3 DEF Cached
  <2>3. \E k \in DOMAIN ps : o = ps[k]
    BY <1>0
  <2> HIDE DEF o
  <2>4. /\ CallsOK' /\ phase' = "mapAsync" /\ phase' \in Phase
        /\ calls'[c].at = "mapAsync" /\ calls'[c].device = d /\ calls'[c].object = o
        /\ \A e \in Check : e # c => calls'[e] = calls[e]
        /\ InFlight' = InFlight \cup {c}
    BY <1>1, <2>1, <2>2, AwaitsFacts
  <2> QED  BY <2>1, <2>2, <2>3, <2>4
<1> QED  BY <1>2, <1>3

-----------------------------------------------------------------------------
(* The caches                                                              *)

\* A step of a call c on device d keeps the caches to one device if what it
\* leaves in them, and all the other calls in flight, are of d too.
LEMMA GoesOn ==
    ASSUME OwnInv, NEW c \in Check, NEW d \in Device,
           calls'[c].device = d,
           \A e \in Check : e # c => calls'[e] = calls[e],
           InFlight' = InFlight \cup {c},
           ~mixed' =>
               /\ ~mixed
               /\ calls'[c].object = d
               /\ cacheDevice' \in {NoDevice, d}
               /\ \A o \in InFlight \ {c} : calls[o].device = d
               /\ \A s \in Source : modules'[s] \in {NoDevice, d}
               /\ \A k \in DOMAIN pipelines' : pipelines'[k] \in {NoDevice, d}
    PROVE  UsesOwnObjects' /\ OneDevice'
<1> SUFFICES ASSUME ~mixed' PROVE UsesOwnObjects' /\ OneDevice'
  BY DEF UsesOwnObjects, OneDevice
<1>1. Holds(d)'
  BY DEF Holds
<1>2. \A o \in InFlight' : calls'[o].device = d /\ calls'[o].object = d
  <2> TAKE o \in InFlight'
  <2>1. CASE o = c
    BY <2>1
  <2>2. CASE o # c
    BY <2>2 DEF OwnInv, UsesOwnObjects, InFlight
  <2> QED  BY <2>1, <2>2
<1>3. UsesOwnObjects'
  BY <1>1, <1>2 DEF UsesOwnObjects, Holds
<1>4. OneDevice'
  BY <1>1, <1>2 DEF OneDevice, Holds
<1> QED  BY <1>3, <1>4

\* Calls that end, devices that come and go, and runs that go on, leave the
\* caches as they were, or empty.
LEMMA LeavesCaches ==
    ASSUME OwnInv,
           InFlight' \subseteq InFlight,
           \A e \in InFlight' : calls'[e] = calls[e],
           mixed' = mixed,
           \/ UNCHANGED caches
           \/ cacheDevice' = NoDevice /\ modules' = NoModules /\ pipelines' = NoPipelines
    PROVE  UsesOwnObjects' /\ OneDevice'
<1> SUFFICES ASSUME ~mixed PROVE UsesOwnObjects' /\ OneDevice'
  BY DEF UsesOwnObjects, OneDevice
<1>1. CASE UNCHANGED caches
  BY <1>1 DEF OwnInv, UsesOwnObjects, OneDevice, Holds, caches
<1>2. CASE cacheDevice' = NoDevice /\ modules' = NoModules /\ pipelines' = NoPipelines
  <2>1. /\ \A s \in Source : modules'[s] = NoDevice
        /\ \A k \in DOMAIN pipelines' : pipelines'[k] = NoDevice
    BY <1>2, NothingCached
  <2> QED  BY <1>2, <2>1 DEF OwnInv, UsesOwnObjects, OneDevice, Holds
<1> QED  BY <1>1, <1>2

\* A call starts: whatever is of another device is dropped first.
LEMMA StartsOwn ==
    ASSUME OwnInv, NEW c \in Check, NEW t \in Test, NEW n \in DOMAIN t.entries,
           current \in Device, RunComputeOnce(c, t, n), Mixes(c)
    PROVE  /\ UsesOwnObjects' /\ OneDevice'
           /\ cacheDevice' \in Cached
           /\ modules' \in [Source -> Cached]
           /\ pipelines' \in [Keys -> Cached]
           /\ phase' \in Phase /\ calls'[c].at = phase'
           /\ CallsOK'
           /\ mixed' \in BOOLEAN
           /\ InFlight' = InFlight \cup {c}
           /\ \A e \in Check : e # c => calls'[e] = calls[e]
<1> DEFINE kept == cacheDevice = current
           ms == IF kept THEN modules ELSE NoModules
           ps == IF kept THEN pipelines ELSE NoPipelines
<1>0. GpuOK /\ mixed' = (mixed \/ \E o \in InFlight \ {c} : calls[o].device # current)
  BY DEF OwnInv, Mixes
<1>1. /\ ms \in [Source -> Cached]
      /\ ps \in [Keys -> Cached]
  BY <1>0, NothingCached DEF GpuOK
<1>2. ~mixed => /\ \A s \in Source : ms[s] \in {NoDevice, current}
                /\ \A k \in DOMAIN ps : ps[k] \in {NoDevice, current}
  <2>1. CASE ~kept
    BY <2>1, NothingCached
  <2>2. CASE kept
    BY <2>2, CheckAssumption DEF OwnInv, OneDevice, Holds
  <2> QED  BY <2>1, <2>2
<1>3. cacheDevice' = current /\ modules' = ms
  BY DEF RunComputeOnce
<1>4. t.source \in Source
  BY TestParts
<1>5. ms[t.source] \in Device \/ ms[t.source] = NoDevice
  BY <1>1, <1>4 DEF Cached
<1>6. CASE ms[t.source] = NoDevice
  <2>1. pipelines' = ps /\ Awaits(c, "getCompilationInfo", t, n, current, current)
    BY <1>6 DEF RunComputeOnce
  <2>2. "getCompilationInfo" \in Await
    BY DEF Await, Phase
  <2>3. /\ CallsOK'
        /\ phase' \in Phase /\ calls'[c].at = phase'
        /\ calls'[c].device = current /\ calls'[c].object = current
        /\ \A e \in Check : e # c => calls'[e] = calls[e]
        /\ InFlight' = InFlight \cup {c}
    BY <1>0, <2>1, <2>2, AwaitsFacts DEF GpuOK
  <2>4. UsesOwnObjects' /\ OneDevice'
    <3> HIDE DEF ms, ps
    <3> QED  BY <1>0, <1>2, <1>3, <2>1, <2>3, GoesOn
  <2> HIDE DEF ms, ps
  <2> QED  BY <1>0, <1>1, <1>3, <2>1, <2>3, <2>4 DEF GpuOK, Cached
<1>7. CASE ms[t.source] \in Device
  <2>1. WithModule(c, t, n, current, ms[t.source], ps)
    BY <1>7, CheckAssumption DEF RunComputeOnce
  <2> HIDE DEF ms, ps
  <2>2. /\ CallsOK'
        /\ phase' \in Phase /\ calls'[c].at = phase'
        /\ pipelines' = ps
        /\ calls'[c].device = current
        /\ calls'[c].object \in Device
        /\ calls'[c].object = ms[t.source] \/ \E k \in DOMAIN ps : calls'[c].object = ps[k]
        /\ \A e \in Check : e # c => calls'[e] = calls[e]
        /\ InFlight' = InFlight \cup {c}
    BY <1>0, <1>1, <1>7, <2>1, WithModuleFacts DEF GpuOK
  <2>3. ~mixed => calls'[c].object = current
    BY <1>2, <1>4, <2>2, CheckAssumption
  <2>4. UsesOwnObjects' /\ OneDevice'
    BY <1>0, <1>2, <1>3, <2>2, <2>3, GoesOn
  <2> QED  BY <1>0, <1>1, <1>3, <2>2, <2>4 DEF GpuOK, Cached
<1> QED  BY <1>5, <1>6, <1>7

\* A call in flight is a record of its test, device and object.
LEMMA CallParts ==
    ASSUME CallsOK, NEW c \in InFlight
    PROVE  /\ c \in Check
           /\ calls[c].at \in Await /\ calls[c].test \in Test
           /\ calls[c].n \in DOMAIN calls[c].test.entries
           /\ calls[c].device \in Device /\ calls[c].object \in Device
  BY DEF CallsOK, InFlight, Free, InCall

\* A call that has compiled its module goes on to its pipeline.
LEMMA CompiledOwn ==
    ASSUME OwnInv, NEW c \in Check, Compiled(c)
    PROVE  OwnInv' /\ InFlight' = InFlight /\ calls'[c].at = phase'
<1> DEFINE t == calls[c].test
           n == calls[c].n
           d == calls[c].device
<1>0. GpuOK /\ CallsOK /\ c \in InFlight
  BY DEF OwnInv, GpuOK, Compiled, InFlight
<1>1. t \in Test /\ n \in DOMAIN t.entries /\ d \in Device
  BY <1>0, CallParts
<1>2. /\ modules' = [modules EXCEPT ![t.source] = d]
      /\ WithModule(c, t, n, d, d, pipelines)
      /\ UNCHANGED <<gpu, cacheDevice, mixed>>
  BY DEF Compiled
<1> HIDE DEF t, n
<1>3. /\ CallsOK'
      /\ phase' \in Phase /\ calls'[c].at = phase'
      /\ pipelines' = pipelines
      /\ calls'[c].device = d
      /\ calls'[c].object \in Device
      /\ calls'[c].object = d \/ \E k \in DOMAIN pipelines : calls'[c].object = pipelines[k]
      /\ \A e \in Check : e # c => calls'[e] = calls[e]
      /\ InFlight' = InFlight \cup {c}
  <2> HIDE DEF d
  <2> QED  BY <1>0, <1>1, <1>2, WithModuleFacts DEF GpuOK
<1>4. modules' \in [Source -> Cached]
  BY <1>0, <1>1, <1>2 DEF GpuOK, Cached
<1>5. GpuOK'
  BY <1>0, <1>2, <1>3, <1>4 DEF GpuOK, gpu
<1>6. ~mixed =>
        /\ cacheDevice \in {NoDevice, d}
        /\ \A o \in InFlight : calls[o].device = d
        /\ Holds(d)
  BY <1>0 DEF OwnInv, OneDevice, UsesOwnObjects
<1>7. ~mixed => /\ calls'[c].object = d
                /\ \A s \in Source : modules'[s] \in {NoDevice, d}
  <2> HIDE DEF d
  <2> QED  BY <1>0, <1>1, <1>2, <1>3, <1>6, CheckAssumption DEF Holds, GpuOK
<1>8. UsesOwnObjects' /\ OneDevice'
  <2> HIDE DEF d
  <2> QED  BY <1>1, <1>2, <1>3, <1>6, <1>7, GoesOn DEF Holds
<1> QED  BY <1>0, <1>3, <1>5, <1>8 DEF OwnInv

LEMMA PipelineMadeOwn ==
    ASSUME OwnInv, NEW c \in Check, PipelineMade(c)
    PROVE  OwnInv' /\ InFlight' = InFlight /\ calls'[c].at = phase'
<1> DEFINE t == calls[c].test
           n == calls[c].n
           d == calls[c].device
<1>0. GpuOK /\ CallsOK /\ c \in InFlight
  BY DEF OwnInv, GpuOK, PipelineMade, InFlight
<1>1. t \in Test /\ n \in DOMAIN t.entries /\ d \in Device
  BY <1>0, CallParts
<1>2. /\ pipelines' = [pipelines EXCEPT ![Key(t, n)] = d]
      /\ Awaits(c, "mapAsync", t, n, d, d)
      /\ UNCHANGED <<gpu, cacheDevice, modules, mixed>>
  BY DEF PipelineMade
<1> HIDE DEF t, n
<1>3. /\ CallsOK'
      /\ phase' \in Phase /\ calls'[c].at = phase'
      /\ calls'[c].device = d /\ calls'[c].object = d
      /\ \A e \in Check : e # c => calls'[e] = calls[e]
      /\ InFlight' = InFlight \cup {c}
  <2> HIDE DEF d
  <2>1. "mapAsync" \in Await
    BY DEF Await, Phase
  <2> QED  BY <1>0, <1>1, <1>2, <2>1, AwaitsFacts
<1>4. pipelines' \in [Keys -> Cached]
  BY <1>0, <1>1, <1>2 DEF GpuOK, Cached
<1>5. GpuOK'
  BY <1>0, <1>2, <1>3, <1>4 DEF GpuOK, gpu
<1>6. ~mixed =>
        /\ cacheDevice \in {NoDevice, d}
        /\ \A o \in InFlight : calls[o].device = d
        /\ Holds(d)
  BY <1>0 DEF OwnInv, OneDevice, UsesOwnObjects
<1>7. ~mixed => \A k \in DOMAIN pipelines' : pipelines'[k] \in {NoDevice, d}
  <2> HIDE DEF d
  <2> QED  BY <1>0, <1>2, <1>6 DEF Holds, GpuOK
<1>8. UsesOwnObjects' /\ OneDevice'
  <2> HIDE DEF d
  <2> QED  BY <1>1, <1>2, <1>3, <1>6, <1>7, GoesOn DEF Holds
<1> QED  BY <1>0, <1>3, <1>5, <1>8 DEF OwnInv

\* A test that goes on to its next call starts it as the first one.
LEMMA CallsAgainOwn ==
    ASSUME OwnInv, NEW c \in Check, MappedAndCallsAgain(c)
    PROVE  OwnInv' /\ InFlight' = InFlight /\ calls'[c].at = phase'
<1> DEFINE t == calls[c].test
           n == calls[c].n + 1
<1>0. GpuOK /\ CallsOK /\ c \in InFlight
  BY DEF OwnInv, GpuOK, MappedAndCallsAgain, ReadBack, InFlight
<1>1. t \in Test /\ calls[c].n \in DOMAIN t.entries /\ calls[c].n < Len(t.entries)
  BY <1>0, CallParts DEF MappedAndCallsAgain
<1>2. n \in DOMAIN t.entries
  <2>1. t.entries \in Seq({t.entries[m] : m \in DOMAIN t.entries})
    BY <1>1, SuiteAssumption
  <2> HIDE DEF t
  <2> QED  BY <1>1, <2>1
<1>3. RunComputeOnce(c, t, n) /\ Mixes(c) /\ UNCHANGED gpu /\ current \in Device
  BY <1>0 DEF MappedAndCallsAgain, GpuOK, Cached
<1> HIDE DEF t, n
<1>4. /\ UsesOwnObjects' /\ OneDevice'
      /\ cacheDevice' \in Cached
      /\ modules' \in [Source -> Cached]
      /\ pipelines' \in [Keys -> Cached]
      /\ phase' \in Phase /\ calls'[c].at = phase'
      /\ CallsOK'
      /\ mixed' \in BOOLEAN
      /\ InFlight' = InFlight \cup {c}
  BY <1>1, <1>2, <1>3, StartsOwn
<1> QED  BY <1>0, <1>3, <1>4 DEF OwnInv, GpuOK, gpu

LEMMA EndsOwn ==
    ASSUME OwnInv, NEW c \in Check, NEW ok, Ends(c, ok), UNCHANGED caches, phase' \in Phase
    PROVE  OwnInv' /\ InFlight' = InFlight \ {c}
<1>0. GpuOK /\ CallsOK
  BY DEF OwnInv, GpuOK
<1>1. /\ calls' = [calls EXCEPT ![c] = Free]
      /\ UNCHANGED <<gpu, mixed>>
  BY DEF Ends
<1>2. calls' \in [Check -> {Free} \cup InCall]
  BY <1>0, <1>1 DEF CallsOK
<1>3. InFlight' = InFlight \ {c} /\ \A e \in InFlight' : calls'[e] = calls[e]
  BY <1>0, <1>1 DEF CallsOK, InFlight, Free
<1>4. CallsOK'
  BY <1>0, <1>2, <1>3 DEF CallsOK
<1>5. GpuOK'
  BY <1>0, <1>1, <1>4 DEF GpuOK, gpu, caches
<1>6. UsesOwnObjects' /\ OneDevice'
  BY <1>1, <1>3, LeavesCaches
<1> QED  BY <1>3, <1>5, <1>6 DEF OwnInv

-----------------------------------------------------------------------------
(* The runs                                                                *)

\* The parts of a run with tests to go.
LEMMA RunParts ==
    ASSUME RunsOK, NEW r \in Check, runs[r].stage \in Going
    PROVE  /\ runs[r] \in Unfinished
           /\ runs[r].i \in DOMAIN runs[r].order
           /\ runs[r].order[runs[r].i] \in Test
<1>1. runs[r] \in Unfinished /\ runs[r].i \in DOMAIN runs[r].order
  BY DEF RunsOK, Run, Going
<1>2. runs[r].order \in Seq(Test)
  BY <1>1 DEF Unfinished
<1> QED  BY <1>1, <1>2

LEMMA NoWatchType == NoWatch \in Watch
  BY DEF NoWatch, NoTime, Watch, Phase

\* A step that gives one run another record, not of a test under way, and takes
\* no call from the others.
LEMMA OneRunOK ==
    ASSUME RunsOK, NEW r \in Check, NEW x \in Run,
           runs' = [runs EXCEPT ![r] = x],
           x.stage # "testing",
           x.stage \in Going => x.i \in DOMAIN x.order,
           InFlight \ {r} \subseteq InFlight'
    PROVE  RunsOK' /\ runs'[r] = x /\ \A q \in Check : q # r => runs'[q] = runs[q]
<1>1. /\ runs' \in [Check -> Run]
      /\ runs'[r] = x
      /\ \A q \in Check : q # r => runs'[q] = runs[q]
  BY DEF RunsOK
<1>2. \A q \in Check : runs'[q].stage \in Going => runs'[q].i \in DOMAIN runs'[q].order
  BY <1>1 DEF RunsOK
<1>3. At("testing")' \subseteq InFlight'
  BY <1>1 DEF RunsOK, At
<1> QED  BY <1>1, <1>2, <1>3 DEF RunsOK

\* A check that ends has a verdict, for what it has answered.
LEMMA CheckEndsOK ==
    ASSUME RunsOK, NEW r \in Check, NEW b \in Nat, NEW a \in SUBSET Test, CheckEnds(r, b, a),
           InFlight \ {r} \subseteq InFlight'
    PROVE  /\ RunsOK'
           /\ \A q \in Check : q # r => runs'[q] = runs[q]
           /\ \/ runs'[r].stage = "passed" /\ runs'[r].answered = a /\ b = 0
              \/ runs'[r].stage = "failed"
<1> DEFINE x == IF b = 0 /\ a # {} THEN [stage |-> "passed", answered |-> a] ELSE [stage |-> "failed"]
<1>1. runs' = [runs EXCEPT ![r] = x]
  BY DEF CheckEnds
<1>2. x \in Run /\ x.stage \in {"passed", "failed"}
  BY DEF Run
<1>3. (x.stage = "passed" /\ x.answered = a /\ b = 0) \/ x.stage = "failed"
  OBVIOUS
<1> HIDE DEF x
<1>4. RunsOK' /\ runs'[r] = x /\ \A q \in Check : q # r => runs'[q] = runs[q]
  BY <1>1, <1>2, OneRunOK DEF Going
<1> QED  BY <1>3, <1>4

LEMMA TestFailsOK ==
    ASSUME RunsOK, NEW r \in Check, runs[r].stage \in Going, TestFails(r),
           InFlight \ {r} \subseteq InFlight'
    PROVE  /\ RunsOK'
           /\ \A q \in Check : q # r => runs'[q] = runs[q]
           /\ \/ /\ runs'[r].stage = "passed" /\ runs'[r].answered = runs[r].answered
                 /\ runs[r].order[runs[r].i].diagnostic
              \/ runs'[r].stage = "failed"
<1> DEFINE b == IF runs[r].order[runs[r].i].diagnostic THEN 0 ELSE 1
<1>1. runs[r].answered \in SUBSET Test
  BY RunParts DEF Unfinished
<1>2. CheckEnds(r, b, runs[r].answered)
  BY DEF TestFails
<1>3. b \in Nat /\ (b = 0 => runs[r].order[runs[r].i].diagnostic)
  OBVIOUS
<1> HIDE DEF b
<1> QED  BY <1>1, <1>2, <1>3, CheckEndsOK

\* The test that answered right is one of those that have, and the next one is
\* due or the check is over.
LEMMA TestPassesOK ==
    ASSUME RunsOK, NEW r \in Check, runs[r].stage \in Going, TestPasses(r),
           InFlight \ {r} \subseteq InFlight'
    PROVE  /\ RunsOK'
           /\ \A q \in Check : q # r => runs'[q] = runs[q]
           /\ LET a == runs[r].answered \cup {runs[r].order[runs[r].i]}
              IN  \/ /\ runs'[r].stage = "frame" /\ runs'[r].order = runs[r].order
                     /\ runs'[r].i = runs[r].i + 1 /\ runs'[r].answered = a
                  \/ /\ runs'[r].stage = "passed" /\ runs'[r].answered = a
                     /\ runs[r].i = Len(runs[r].order)
                  \/ runs'[r].stage = "failed"
<1> DEFINE a == runs[r].answered \cup {runs[r].order[runs[r].i]}
           n == runs[r].i + 1
           x == [runs[r] EXCEPT !.stage = "frame", !.i = n, !.answered = a, !.watch = NoWatch]
<1>1. /\ runs[r] \in Unfinished
      /\ runs[r].i \in DOMAIN runs[r].order
      /\ runs[r].order[runs[r].i] \in Test
  BY RunParts
<1>2. a \in SUBSET Test
  BY <1>1 DEF Unfinished
<1>3. CASE runs[r].i = Len(runs[r].order)
  <2>1. CheckEnds(r, 0, a)
    BY <1>3 DEF TestPasses
  <2> HIDE DEF a
  <2>2. /\ RunsOK'
        /\ \A q \in Check : q # r => runs'[q] = runs[q]
        /\ \/ runs'[r].stage = "passed" /\ runs'[r].answered = a
           \/ runs'[r].stage = "failed"
    BY <1>2, <2>1, CheckEndsOK
  <2> QED  BY <1>3, <2>2 DEF a
<1>4. CASE runs[r].i # Len(runs[r].order)
  <2>1. runs' = [runs EXCEPT ![r] = x]
    BY <1>1, <1>4 DEF TestPasses, RunsOK, Unfinished
  <2>2. n \in DOMAIN runs[r].order /\ n \in Nat
    <3>1. runs[r].order \in Seq(Test)
      BY <1>1 DEF Unfinished
    <3> QED  BY <1>1, <1>4, <3>1
  <2> HIDE DEF a, n
  <2>3. x \in Unfinished
    BY <1>1, <1>2, <2>2, NoWatchType DEF Unfinished, Going
  <2>4. x.stage = "frame" /\ x.i = n /\ x.order = runs[r].order /\ x.answered = a
    BY <1>1 DEF Unfinished
  <2> HIDE DEF x
  <2>5. RunsOK' /\ runs'[r] = x /\ \A q \in Check : q # r => runs'[q] = runs[q]
    BY <2>1, <2>2, <2>3, <2>4, OneRunOK DEF Run
  <2> QED  BY <2>4, <2>5 DEF a, n
<1> QED  BY <1>3, <1>4

\* Run q goes on with its test, at the same place, or is as it was.
GoesOnWith(q) ==
    IF runs[q].stage \in Going
    THEN /\ runs'[q] \in Unfinished
         /\ runs'[q].i = runs[q].i /\ runs'[q].order = runs[q].order
         /\ runs'[q].answered = runs[q].answered
    ELSE runs'[q] = runs[q]

LEMMA RunsGoOnOK ==
    ASSUME RunsOK, runs' \in [Check -> Run], \A q \in Check : GoesOnWith(q),
           At("testing")' \subseteq InFlight'
    PROVE  RunsOK'
<1>1. \A q \in Check : runs'[q].stage \in Going => runs'[q].i \in DOMAIN runs'[q].order
  BY DEF RunsOK, GoesOnWith
<1> QED  BY <1>1 DEF RunsOK

LEMMA WatchedFacts ==
    ASSUME NEW x \in Unfinished, NEW w \in Watch
    PROVE  LET y == [x EXCEPT !.stage = "testing", !.watch = w]
           IN  /\ y \in Unfinished /\ y.stage = "testing" /\ y.watch = w
               /\ y.i = x.i /\ y.order = x.order /\ y.answered = x.answered
  BY DEF Unfinished, Going

\* A test that is disturbed goes on, but not alone.
LEMMA DisturbedFacts ==
    ASSUME NEW x \in Run
    PROVE  /\ Disturbed(x).stage = x.stage
           /\ x.stage \in Going =>
                /\ Disturbed(x) \in Unfinished
                /\ Disturbed(x).i = x.i /\ Disturbed(x).order = x.order
                /\ Disturbed(x).answered = x.answered
           /\ x.stage = "testing" => ~Disturbed(x).watch.alone
           /\ x.stage \notin Going => Disturbed(x) = x
<1>1. CASE x.stage # "testing"
  BY <1>1 DEF Disturbed, Run, Going
<1>2. CASE x.stage = "testing"
  <2> DEFINE w == [x.watch EXCEPT !.alone = FALSE, !.spent = NoTime]
             y == [x EXCEPT !.stage = "testing", !.watch = w]
  <2>1. x \in Unfinished
    BY <1>2 DEF Run
  <2>2. w \in Watch /\ ~w.alone
    BY <2>1 DEF Unfinished, Watch, NoTime
  <2>3. Disturbed(x) = y
    BY <1>2, <2>1 DEF Disturbed, Unfinished, Watch
  <2> HIDE DEF w
  <2>4. /\ y \in Unfinished /\ y.stage = "testing" /\ y.watch = w
        /\ y.i = x.i /\ y.order = x.order /\ y.answered = x.answered
    BY <2>1, <2>2, WatchedFacts
  <2> HIDE DEF y
  <2> QED  BY <1>2, <2>2, <2>3, <2>4 DEF Going
<1> QED  BY <1>1, <1>2

LEMMA TestStartsOK ==
    ASSUME OwnInv, RunsOK, NEW r \in Check, TestStarts(r)
    PROVE  /\ OwnInv' /\ RunsOK'
           /\ \A q \in Check : GoesOnWith(q)
           /\ calls'[r].at = phase' /\ InFlight' = InFlight \cup {r}
           /\ LET w == runs'[r].watch
              IN  w.phase = phase' /\ w.inPhase = 0 /\ w.spent = NoTime /\ (w.alone => InFlight = {})
           /\ \A q \in Check : q # r => runs'[q] = Disturbed(runs[q])
<1> DEFINE t == runs[r].order[runs[r].i]
           w == [phase |-> phase', inPhase |-> 0, overall |-> 0, spent |-> NoTime,
                 alone |-> InFlight = {}]
           x == [runs[r] EXCEPT !.stage = "testing", !.watch = w]
<1>0. GpuOK /\ runs[r].stage = "frame" /\ current \in Device
  BY DEF OwnInv, TestStarts, GpuOK, Cached
<1>1. runs[r] \in Unfinished /\ t \in Test /\ runs[r].i \in DOMAIN runs[r].order
  BY <1>0, RunParts DEF Going
<1>2. /\ RunComputeOnce(r, t, 1)
      /\ Mixes(r)
      /\ UNCHANGED gpu
      /\ runs' = [q \in Check |-> IF q = r THEN x ELSE Disturbed(runs[q])]
  BY DEF TestStarts
<1> HIDE DEF t
<1>3. /\ UsesOwnObjects' /\ OneDevice'
      /\ cacheDevice' \in Cached
      /\ modules' \in [Source -> Cached]
      /\ pipelines' \in [Keys -> Cached]
      /\ phase' \in Phase /\ calls'[r].at = phase'
      /\ CallsOK'
      /\ mixed' \in BOOLEAN
      /\ InFlight' = InFlight \cup {r}
  BY <1>0, <1>1, <1>2, TestParts, StartsOwn
<1>4. OwnInv'
  BY <1>0, <1>2, <1>3 DEF OwnInv, GpuOK, gpu
<1>5. w \in Watch
  BY <1>3 DEF Watch, NoTime
<1>6. w.phase = phase' /\ w.inPhase = 0 /\ w.spent = NoTime /\ (w.alone => InFlight = {})
  OBVIOUS
<1> HIDE DEF w
<1>7. /\ x \in Unfinished /\ x.stage = "testing" /\ x.watch = w
      /\ x.i = runs[r].i /\ x.order = runs[r].order /\ x.answered = runs[r].answered
  BY <1>1, <1>5, WatchedFacts
<1> HIDE DEF x
<1>8. runs'[r] = x /\ \A q \in Check : q # r => runs'[q] = Disturbed(runs[q])
  BY <1>2
<1>9. \A q \in Check : GoesOnWith(q)
  <2> TAKE q \in Check
  <2>1. CASE q = r
    BY <1>0, <1>7, <1>8, <2>1 DEF GoesOnWith, Going
  <2>2. CASE q # r
    BY <1>8, <2>2, DisturbedFacts DEF GoesOnWith, RunsOK
  <2> QED  BY <2>1, <2>2
<1>10. runs' \in [Check -> Run]
  <2>1. \A q \in Check : Disturbed(runs[q]) \in Run
    <3> TAKE q \in Check
    <3>1. runs[q] \in Run
      BY DEF RunsOK
    <3>2. Disturbed(runs[q]) \in Unfinished \/ Disturbed(runs[q]) = runs[q]
      BY <3>1, DisturbedFacts
    <3> QED  BY <3>1, <3>2 DEF Run
  <2> QED  BY <1>2, <1>7, <2>1 DEF Run
<1>11. At("testing")' \subseteq InFlight'
  <2> SUFFICES ASSUME NEW q \in Check, runs'[q].stage = "testing" PROVE q \in InFlight'
    BY DEF At
  <2>1. q # r => runs[q].stage = "testing"
    BY <1>8, DisturbedFacts DEF RunsOK
  <2> QED  BY <1>3, <2>1 DEF RunsOK, At
<1>12. RunsOK'
  BY <1>9, <1>10, <1>11, RunsGoOnOK
<1> QED  BY <1>3, <1>4, <1>7, <1>8, <1>9, <1>12, <1>6

\* The calls of a check that end are the test's, or nobody waits for them.
LEMMA EndsOK ==
    ASSUME OwnInv, RunsOK, NEW r \in Check, NEW ok \in BOOLEAN, Ends(r, ok),
           UNCHANGED caches, phase' \in Phase
    PROVE  /\ OwnInv' /\ RunsOK'
           /\ InFlight' = InFlight \ {r}
           /\ \/ UNCHANGED runs /\ runs[r].stage # "testing"
              \/ runs[r].stage = "testing" /\ TestPasses(r)
              \/ runs[r].stage = "testing" /\ TestFails(r)
<1>1. OwnInv' /\ InFlight' = InFlight \ {r}
  BY EndsOwn
<1>2. CASE runs[r].stage # "testing"
  <2>1. UNCHANGED runs
    BY <1>2 DEF Ends, page
  <2>2. RunsOK'
    BY <1>1, <1>2, <2>1 DEF RunsOK, At
  <2> QED  BY <1>1, <1>2, <2>1, <2>2
<1>3. CASE runs[r].stage = "testing"
  <2>1. IF ok THEN TestPasses(r) ELSE TestFails(r)
    BY <1>3 DEF Ends
  <2> QED  BY <1>1, <1>3, <2>1, TestPassesOK, TestFailsOK DEF Going
<1> QED  BY <1>2, <1>3

LEMMA SeenFacts ==
    ASSUME GpuOK, RunsOK, NEW r \in Check, runs[r].stage = "testing"
    PROVE  /\ Seen(r) \in Watch
           /\ Seen(r).phase = phase /\ Seen(r).alone = runs[r].watch.alone
           /\ Seen(r).overall = runs[r].watch.overall + 1
           /\ Seen(r).inPhase = IF phase = runs[r].watch.phase THEN runs[r].watch.inPhase + 1 ELSE 0
           /\ runs[r].watch.alone =>
                Seen(r).spent = [runs[r].watch.spent EXCEPT ![calls[r].at] = @ + 1]
<1> DEFINE w == runs[r].watch
           n == IF phase = w.phase THEN w.inPhase + 1 ELSE 0
           a == calls[r].at
           s == IF w.alone THEN w.spent[a] + 1 ELSE w.spent[a]
           f == [w.spent EXCEPT ![a] = s]
           o == w.overall + 1
           v == [w EXCEPT !.phase = phase, !.inPhase = n, !.overall = o, !.spent = f]
<1>1. w \in Watch /\ r \in InFlight
  BY RunParts DEF Going, Unfinished, RunsOK, At
<1>2. a \in Await /\ phase \in Phase
  BY <1>1, CallParts DEF GpuOK
<1>3. n \in Nat /\ o \in Nat /\ s \in Nat
  BY <1>1, <1>2 DEF Watch
<1>4. f \in [Await -> Nat] /\ (w.alone => f = [w.spent EXCEPT ![a] = @ + 1])
  BY <1>1, <1>2, <1>3 DEF Watch
<1>5. Seen(r) = v
  BY <1>1 DEF Seen, SeenIn, Watch
<1> HIDE DEF n, o, f
<1>6. /\ v \in Watch /\ v.phase = phase /\ v.alone = w.alone /\ v.overall = o
      /\ v.inPhase = n /\ v.spent = f
  BY <1>1, <1>2, <1>3, <1>4 DEF Watch
<1> HIDE DEF v
<1> QED  BY <1>4, <1>5, <1>6 DEF n, o

LEMMA TickOK ==
    ASSUME OwnInv, RunsOK, NEW r \in Check, Tick(r)
    PROVE  /\ OwnInv' /\ RunsOK' /\ InFlight' = InFlight /\ runs[r].stage = "testing"
           /\ \/ TimedOut(Seen(r)) /\ TestFails(r)
              \/ /\ \A q \in Check : GoesOnWith(q)
                 /\ runs'[r].stage = "testing" /\ runs'[r].watch = Seen(r)
                 /\ \A q \in Check : q # r => runs'[q] = runs[q]
<1>0. runs[r].stage = "testing" /\ UNCHANGED <<gpu, caches, phase, calls, mixed>>
  BY DEF Tick
<1>1. OwnInv' /\ InFlight' = InFlight
  BY <1>0 DEF OwnInv, GpuOK, CallsOK, UsesOwnObjects, OneDevice, Holds, InFlight, gpu, caches
<1>2. CASE TimedOut(Seen(r))
  <2>1. TestFails(r)
    BY <1>2 DEF Tick
  <2> QED  BY <1>0, <1>1, <1>2, <2>1, TestFailsOK DEF Going
<1>3. CASE ~TimedOut(Seen(r))
  <2> DEFINE v == Seen(r)
             x == [runs[r] EXCEPT !.stage = "testing", !.watch = v]
  <2>1. runs[r] \in Unfinished /\ v \in Watch
    BY <1>0, RunParts, SeenFacts DEF Going, OwnInv
  <2>2. runs' = [runs EXCEPT ![r].watch = v]
    BY <1>3 DEF Tick
  <2> HIDE DEF v
  <2>3. runs' = [runs EXCEPT ![r] = x]
    BY <1>0, <2>1, <2>2 DEF RunsOK, Unfinished
  <2>4. /\ x \in Unfinished /\ x.stage = "testing" /\ x.watch = v
        /\ x.i = runs[r].i /\ x.order = runs[r].order /\ x.answered = runs[r].answered
    BY <2>1, WatchedFacts
  <2> HIDE DEF x
  <2>5. runs' \in [Check -> Run] /\ runs'[r] = x /\ \A q \in Check : q # r => runs'[q] = runs[q]
    BY <2>3, <2>4 DEF RunsOK, Run
  <2>6. \A q \in Check : GoesOnWith(q)
    <3> TAKE q \in Check
    <3>1. CASE q = r
      BY <1>0, <2>4, <2>5, <3>1 DEF GoesOnWith, Going
    <3>2. CASE q # r
      BY <2>5, <3>2, RunParts DEF GoesOnWith
    <3> QED  BY <3>1, <3>2
  <2>7. At("testing")' \subseteq InFlight'
    BY <1>0, <1>1, <2>5 DEF RunsOK, At
  <2>8. RunsOK'
    BY <2>5, <2>6, <2>7, RunsGoOnOK
  <2> QED  BY <1>0, <1>1, <2>4, <2>5, <2>6, <2>8 DEF v
<1> QED  BY <1>2, <1>3

-----------------------------------------------------------------------------
(* The specification                                                       *)

Inv == OwnInv /\ RunsOK

LEMMA InitInv == Init => Inv
<1> SUFFICES ASSUME Init PROVE Inv
  OBVIOUS
<1>1. CallsOK /\ InFlight = {}
  BY DEF Init, CallsOK, InFlight, Free
<1>2. GpuOK
  BY <1>1, NothingCached DEF Init, GpuOK, Cached, Phase
<1>3. OwnInv
  BY <1>1, <1>2 DEF OwnInv, UsesOwnObjects, OneDevice, Init
<1>4. RunsOK
  BY DEF Init, RunsOK, Run, At, Going
<1> QED  BY <1>3, <1>4 DEF Inv

LEMMA NextInv == Inv /\ [Next]_vars => Inv'
<1> SUFFICES ASSUME OwnInv, RunsOK, [Next]_vars PROVE OwnInv' /\ RunsOK'
  BY DEF Inv
<1>0. GpuOK /\ CallsOK
  BY DEF OwnInv, GpuOK
\* What leaves the calls and the caches alone.
<1>1. ASSUME UNCHANGED <<caches, phase, calls, mixed>>,
             current' \in Cached, unused' \subseteq Device, alive' \subseteq Device, unheard' \subseteq Device
      PROVE  OwnInv' /\ InFlight' = InFlight
  BY <1>0, <1>1 DEF OwnInv, GpuOK, CallsOK, UsesOwnObjects, OneDevice, Holds, InFlight, caches
<1>2. ASSUME UNCHANGED runs, InFlight' = InFlight PROVE RunsOK'
  BY <1>2 DEF RunsOK, At
<1>3. CASE UNCHANGED vars
  BY <1>0, <1>1, <1>2, <1>3 DEF vars, gpu, page, GpuOK
<1>4. ASSUME NEW d \in Device, DeviceDies(d) PROVE OwnInv' /\ RunsOK'
  BY <1>0, <1>1, <1>2, <1>4 DEF DeviceDies, page, GpuOK
<1>5. ASSUME NEW d \in Device, Lost(d) PROVE OwnInv' /\ RunsOK'
  <2>1. /\ cacheDevice' = NoDevice /\ modules' = NoModules /\ pipelines' = NoPipelines
        /\ current' = NoDevice /\ unheard' = unheard \ {d}
        /\ UNCHANGED <<unused, alive, phase, calls, page, mixed>>
    BY <1>5 DEF Lost
  <2>2. InFlight' = InFlight /\ \A e \in InFlight' : calls'[e] = calls[e]
    BY <2>1 DEF InFlight
  <2>3. UsesOwnObjects' /\ OneDevice'
    BY <2>1, <2>2, LeavesCaches
  <2>4. GpuOK'
    BY <1>0, <2>1, <2>2, NothingCached DEF GpuOK, CallsOK, Cached
  <2> QED  BY <1>2, <2>1, <2>2, <2>3, <2>4 DEF OwnInv, page
<1>6. ASSUME NEW d \in Device, PageAcquires(d) PROVE OwnInv' /\ RunsOK'
  BY <1>0, <1>1, <1>2, <1>6 DEF PageAcquires, InitWebGPU, page, GpuOK, Cached
<1>7. ASSUME NEW r \in Check, CheckStarts(r) PROVE OwnInv' /\ RunsOK'
  <2> DEFINE o == Ordered(r \in Recheck)
             x == [stage |-> "frame", order |-> o, i |-> 1, answered |-> {}, watch |-> NoWatch]
  <2>1. OwnInv' /\ InFlight' = InFlight
    BY <1>0, <1>1, <1>7 DEF CheckStarts, InitWebGPU, GpuOK, Cached, gpu
  <2>2. runs' = [runs EXCEPT ![r] = x]
    BY <1>7 DEF CheckStarts
  <2>3. o \in Seq(Test) \ {<<>>}
    BY OrderedFor
  <2> HIDE DEF o
  <2>4. 1 \in DOMAIN o
    BY <2>3
  <2>5. x \in Run /\ x.stage = "frame" /\ x.i = 1 /\ x.order = o
    BY <2>3, NoWatchType DEF Run, Unfinished, Going
  <2> HIDE DEF x
  <2> QED  BY <2>1, <2>2, <2>4, <2>5, OneRunOK
<1>8. ASSUME NEW r \in Check, CheckHasNoDevice(r) PROVE OwnInv' /\ RunsOK'
  <2> DEFINE x == [stage |-> "no device"]
  <2>1. OwnInv' /\ InFlight' = InFlight
    BY <1>0, <1>1, <1>8 DEF CheckHasNoDevice, GpuOK, gpu
  <2>2. runs' = [runs EXCEPT ![r] = x] /\ x \in Run /\ x.stage = "no device"
    BY <1>8 DEF CheckHasNoDevice, Run
  <2> HIDE DEF x
  <2> QED  BY <2>1, <2>2, OneRunOK DEF Going
<1>9. ASSUME NEW r \in Check, TestStarts(r) PROVE OwnInv' /\ RunsOK'
  BY <1>9, TestStartsOK
<1>10. ASSUME NEW r \in Check, TestHasNoDevice(r) PROVE OwnInv' /\ RunsOK'
  <2>1. OwnInv' /\ InFlight' = InFlight
    BY <1>0, <1>1, <1>10 DEF TestHasNoDevice, GpuOK, gpu
  <2> QED  BY <1>10, <2>1, TestFailsOK DEF TestHasNoDevice, Going
<1>11. ASSUME NEW r \in Check, Tick(r) PROVE OwnInv' /\ RunsOK'
  BY <1>11, TickOK
<1>12. ASSUME NEW r \in Check, Driver(r) PROVE OwnInv' /\ RunsOK'
  <2>1. CASE Compiled(r)
    BY <1>2, <2>1, CompiledOwn DEF Compiled, page
  <2>2. CASE PipelineMade(r)
    BY <1>2, <2>2, PipelineMadeOwn DEF PipelineMade, page
  <2>3. CASE CallThrows(r)
    BY <1>0, <2>3, EndsOK DEF CallThrows, GpuOK
  <2>4. CASE MappedAndCallsAgain(r)
    BY <1>2, <2>4, CallsAgainOwn DEF MappedAndCallsAgain, page
  <2>5. ASSUME NEW ok \in BOOLEAN, Mapped(r, ok) PROVE OwnInv' /\ RunsOK'
    BY <2>5, EndsOK DEF Mapped, Phase
  <2> QED  BY <1>12, <2>1, <2>2, <2>3, <2>4, <2>5 DEF Driver
<1>13. CASE Cancel
  <2>1. OwnInv' /\ InFlight' = InFlight
    BY <1>0, <1>1, <1>13 DEF Cancel, GpuOK, gpu
  <2>2. runs' = [r \in Check |-> IF r \in At("frame") \cup At("testing")
                                 THEN [stage |-> "cancelled"] ELSE runs[r]]
    BY <1>13 DEF Cancel
  <2>3. \A r \in Check : /\ runs'[r] \in Run
                        /\ runs'[r].stage \notin Going
    BY <2>2 DEF RunsOK, Run, At, Going
  <2> QED  BY <2>1, <2>2, <2>3 DEF RunsOK, At, Going
<1> QED
  BY <1>3, <1>4, <1>5, <1>6, <1>7, <1>8, <1>9, <1>10, <1>11, <1>12, <1>13 DEF Next, Runner

\* The devices, caches, calls and runs keep their types, the runs their place in
\* the suite and a call of their own (webgpu.js, tests.js).
THEOREM CheckInvariant == Spec => []Inv
  BY InitInv, NextInv, PTL DEF Spec

\* No call computes with an object of another device, over every loss and new
\* device, while no call outlives the device of a later one (webgpu.js:60-65).
THEOREM OwnObjects == Spec => []UsesOwnObjects
<1>1. Inv => UsesOwnObjects
  BY DEF Inv, OwnInv
<1> QED  BY <1>1, CheckInvariant, PTL

LEMMA CancelType == Spec => [](cancellable \in BOOLEAN)
<1>1. Init => cancellable \in BOOLEAN
  BY DEF Init
<1>2. cancellable \in BOOLEAN /\ [Next]_vars => (cancellable \in BOOLEAN)'
  <2> SUFFICES ASSUME [Next]_vars PROVE UNCHANGED cancellable \/ cancellable' \in BOOLEAN
    OBVIOUS
  <2>1. CASE UNCHANGED vars
    BY <2>1 DEF vars, page
  <2>2. ASSUME NEW d \in Device, DeviceDies(d) \/ Lost(d) \/ PageAcquires(d)
        PROVE  UNCHANGED cancellable
    BY <2>2 DEF DeviceDies, Lost, PageAcquires, page
  <2>3. ASSUME NEW r \in Check, TestFails(r) \/ TestPasses(r)
        PROVE  UNCHANGED cancellable \/ cancellable' \in BOOLEAN
    BY <2>3 DEF TestFails, TestPasses, CheckEnds
  <2>4. ASSUME NEW r \in Check, CheckStarts(r) \/ CheckHasNoDevice(r) \/ Runner(r)
        PROVE  UNCHANGED cancellable \/ cancellable' \in BOOLEAN
    BY <2>3, <2>4 DEF CheckStarts, CheckHasNoDevice, Runner, TestStarts, TestHasNoDevice, Tick
  <2>5. ASSUME NEW r \in Check, Driver(r)
        PROVE  UNCHANGED cancellable \/ cancellable' \in BOOLEAN
    BY <2>3, <2>5 DEF Driver, Compiled, PipelineMade, CallThrows, MappedAndCallsAgain, Mapped, Ends, page
  <2>6. CASE Cancel
    BY <2>6 DEF Cancel
  <2> QED  BY <2>1, <2>2, <2>4, <2>5, <2>6 DEF Next
<1> QED  BY <1>1, <1>2, PTL DEF Spec

\* TypeOK, for the model as it is checked.
THEOREM CheckTypes == Spec => []TypeOK
<1>1. Inv /\ cancellable \in BOOLEAN => TypeOK
  <2> SUFFICES ASSUME Inv, cancellable \in BOOLEAN PROVE TypeOK
    OBVIOUS
  <2>1. GpuOK /\ CallsOK /\ RunsOK
    BY DEF Inv, OwnInv, GpuOK
  <2>2. \A r \in Check : runs[r].stage \in {"none", "frame", "testing", "passed", "failed", "cancelled", "no device"}
    BY <2>1 DEF RunsOK, Run, Unfinished, Going
  <2>3. \A r \in Check : runs[r].stage \in {"frame", "testing"} => runs[r].i \in DOMAIN runs[r].order
    BY <2>1 DEF RunsOK, Going
  <2>4. \A r \in Check : runs[r].stage = "testing" => r \in InFlight
    BY <2>1 DEF RunsOK, At
  <2> QED  BY <2>1, <2>2, <2>3, <2>4 DEF GpuOK, CallsOK, Cached, InCall, TypeOK
<1> QED  BY <1>1, CancelType, CheckInvariant, PTL

-----------------------------------------------------------------------------
(* What a verdict is worth                                                 *)

\* What a run has asked so far has been answered right, and a run that passed
\* has asked every blocking test.
Earned(x) ==
    /\ x.stage \in Going =>
         /\ x.order \in {Ordered(b) : b \in BOOLEAN}
         /\ \A j \in DOMAIN x.order : j < x.i => x.order[j] \in x.answered
    /\ x.stage = "passed" => Blocking \subseteq x.answered

Verdicts == \A r \in Check : Earned(runs[r])

\* A run that fails at a diagnostic test has passed all the blocking ones.
LEMMA FailEarned ==
    ASSUME RunsOK, NEW r \in Check, runs[r].stage \in Going, Earned(runs[r]),
           runs[r].order[runs[r].i].diagnostic
    PROVE  Blocking \subseteq runs[r].answered
<1> SUFFICES ASSUME NEW t \in Blocking PROVE t \in runs[r].answered
  OBVIOUS
<1>1. PICK b \in BOOLEAN : runs[r].order = Ordered(b)
  BY DEF Earned
<1>2. PICK j \in DOMAIN runs[r].order : runs[r].order[j] = t /\ j < runs[r].i
  BY <1>1, RunParts, BlockingComesFirst DEF BlockingFirst
<1> QED  BY <1>2 DEF Earned

\* So has one that passes its last test.
LEMMA PassEarned ==
    ASSUME RunsOK, NEW r \in Check, runs[r].stage \in Going, Earned(runs[r])
    PROVE  LET a == runs[r].answered \cup {runs[r].order[runs[r].i]}
           IN  /\ \A j \in DOMAIN runs[r].order : j < runs[r].i + 1 => runs[r].order[j] \in a
               /\ runs[r].i = Len(runs[r].order) => Blocking \subseteq a
<1> DEFINE a == runs[r].answered \cup {runs[r].order[runs[r].i]}
<1>1. runs[r].order \in Seq(Test) /\ runs[r].i \in Nat
  BY RunParts DEF Unfinished
<1>2. \A j \in DOMAIN runs[r].order : j < runs[r].i + 1 => runs[r].order[j] \in a
  BY <1>1 DEF Earned
<1>3. ASSUME runs[r].i = Len(runs[r].order), NEW t \in Blocking PROVE t \in a
  <2>1. PICK b \in BOOLEAN : runs[r].order = Ordered(b)
    BY DEF Earned
  <2>2. PICK j \in DOMAIN runs[r].order : runs[r].order[j] = t
    BY <2>1, BlockingComesFirst DEF BlockingFirst
  <2>3. j < runs[r].i + 1
    BY <1>1, <1>3
  <2> QED  BY <1>2, <2>2, <2>3
<1> QED  BY <1>2, <1>3

LEMMA VerdictsNext == ASSUME Inv, Verdicts, Next PROVE Verdicts'
<1>0. OwnInv /\ RunsOK /\ runs \in [Check -> Run]
  BY DEF Inv, RunsOK
<1>1. ASSUME UNCHANGED runs PROVE Verdicts'
  BY <1>1 DEF Verdicts
\* A step of one run.
<1>2. ASSUME NEW r \in Check, Earned(runs'[r]), \A q \in Check : q # r => runs'[q] = runs[q]
      PROVE  Verdicts'
  <2> SUFFICES ASSUME NEW q \in Check PROVE Earned(runs'[q])
    BY DEF Verdicts, Earned
  <2> QED  BY <1>2 DEF Verdicts
<1>3. ASSUME NEW r \in Check, runs[r].stage \in Going, TestFails(r), InFlight \ {r} \subseteq InFlight'
      PROVE  Verdicts'
  <2>1. /\ \A q \in Check : q # r => runs'[q] = runs[q]
        /\ \/ /\ runs'[r].stage = "passed" /\ runs'[r].answered = runs[r].answered
              /\ runs[r].order[runs[r].i].diagnostic
           \/ runs'[r].stage = "failed"
    BY <1>0, <1>3, TestFailsOK
  <2>2. Earned(runs[r])
    BY DEF Verdicts
  <2>3. Earned(runs'[r])
    BY <1>0, <1>3, <2>1, <2>2, FailEarned DEF Earned, Going
  <2> QED  BY <1>2, <2>1, <2>3
<1>4. ASSUME NEW r \in Check, runs[r].stage \in Going, TestPasses(r), InFlight \ {r} \subseteq InFlight'
      PROVE  Verdicts'
  <2> DEFINE a == runs[r].answered \cup {runs[r].order[runs[r].i]}
  <2>1. /\ \A q \in Check : q # r => runs'[q] = runs[q]
        /\ \/ /\ runs'[r].stage = "frame" /\ runs'[r].order = runs[r].order
              /\ runs'[r].i = runs[r].i + 1 /\ runs'[r].answered = a
           \/ /\ runs'[r].stage = "passed" /\ runs'[r].answered = a
              /\ runs[r].i = Len(runs[r].order)
           \/ runs'[r].stage = "failed"
    BY <1>0, <1>4, TestPassesOK
  <2>2. Earned(runs[r])
    BY DEF Verdicts
  <2>3. /\ \A j \in DOMAIN runs[r].order : j < runs[r].i + 1 => runs[r].order[j] \in a
        /\ runs[r].i = Len(runs[r].order) => Blocking \subseteq a
    BY <1>0, <1>4, <2>2, PassEarned
  <2> HIDE DEF a
  <2>4. Earned(runs'[r])
    BY <1>4, <2>1, <2>2, <2>3 DEF Earned, Going
  <2> QED  BY <1>2, <2>1, <2>4
\* Steps in which tests start, or are watched.
<1>5. ASSUME \A q \in Check : GoesOnWith(q) PROVE Verdicts'
  <2> SUFFICES ASSUME NEW q \in Check PROVE Earned(runs'[q])
    BY DEF Verdicts, Earned
  <2>1. CASE runs[q].stage \in Going
    BY <1>5, <2>1 DEF Verdicts, Earned, GoesOnWith, Unfinished, Going
  <2>2. CASE runs[q].stage \notin Going
    BY <1>5, <2>2 DEF Verdicts, GoesOnWith
  <2> QED  BY <2>1, <2>2
<1>6. ASSUME NEW d \in Device, DeviceDies(d) \/ Lost(d) \/ PageAcquires(d) PROVE Verdicts'
  BY <1>1, <1>6 DEF DeviceDies, Lost, PageAcquires, page
<1>7. ASSUME NEW r \in Check, CheckStarts(r) PROVE Verdicts'
  <2> DEFINE o == Ordered(r \in Recheck)
             x == [stage |-> "frame", order |-> o, i |-> 1, answered |-> {}, watch |-> NoWatch]
  <2>1. runs' = [runs EXCEPT ![r] = x]
    BY <1>7 DEF CheckStarts
  <2>2. o \in {Ordered(b) : b \in BOOLEAN} /\ o \in Seq(Test)
    BY OrderedFor
  <2> HIDE DEF o
  <2>3. \A j \in DOMAIN o : ~(j < 1)
    BY <2>2
  <2>4. Earned(x)
    BY <2>2, <2>3 DEF Earned, Going
  <2>5. runs'[r] = x /\ \A q \in Check : q # r => runs'[q] = runs[q]
    BY <1>0, <2>1
  <2> HIDE DEF x
  <2> QED  BY <1>2, <2>4, <2>5
<1>8. ASSUME NEW r \in Check, CheckHasNoDevice(r) PROVE Verdicts'
  <2>1. runs'[r].stage = "no device" /\ \A q \in Check : q # r => runs'[q] = runs[q]
    BY <1>0, <1>8 DEF CheckHasNoDevice
  <2> QED  BY <1>2, <2>1 DEF Earned, Going
<1>9. ASSUME NEW r \in Check, TestStarts(r) PROVE Verdicts'
  BY <1>0, <1>5, <1>9, TestStartsOK
<1>10. ASSUME NEW r \in Check, TestHasNoDevice(r) PROVE Verdicts'
  BY <1>3, <1>10 DEF TestHasNoDevice, Going, InFlight
<1>11. ASSUME NEW r \in Check, Tick(r) PROVE Verdicts'
  BY <1>0, <1>3, <1>5, <1>11, TickOK DEF Going
<1>12. ASSUME NEW r \in Check, NEW ok \in BOOLEAN, Ends(r, ok), UNCHANGED caches, phase' \in Phase
       PROVE  Verdicts'
  <2>1. /\ InFlight' = InFlight \ {r}
        /\ \/ UNCHANGED runs
           \/ runs[r].stage = "testing" /\ TestPasses(r)
           \/ runs[r].stage = "testing" /\ TestFails(r)
    BY <1>0, <1>12, EndsOK
  <2> QED  BY <1>1, <1>3, <1>4, <2>1 DEF Going
<1>13. ASSUME NEW r \in Check, Driver(r) PROVE Verdicts'
  <2>1. phase \in Phase /\ "idle" \in Phase
    BY <1>0 DEF OwnInv, GpuOK, Phase
  <2>2. CASE Compiled(r) \/ PipelineMade(r) \/ MappedAndCallsAgain(r)
    BY <1>1, <2>2 DEF Compiled, PipelineMade, MappedAndCallsAgain, page
  <2>3. CASE CallThrows(r)
    BY <1>12, <2>1, <2>3 DEF CallThrows
  <2>4. ASSUME NEW ok \in BOOLEAN, Mapped(r, ok) PROVE Verdicts'
    BY <1>12, <2>1, <2>4 DEF Mapped
  <2> QED  BY <1>13, <2>2, <2>3, <2>4 DEF Driver
<1>14. CASE Cancel
  <2> SUFFICES ASSUME NEW q \in Check PROVE Earned(runs'[q])
    BY DEF Verdicts, Earned
  <2>1. runs'[q] = runs[q] \/ runs'[q].stage = "cancelled"
    BY <1>14 DEF Cancel
  <2> QED  BY <2>1 DEF Verdicts, Earned, Going
<1> QED
  BY <1>6, <1>7, <1>8, <1>9, <1>10, <1>11, <1>13, <1>14 DEF Next, Runner

LEMMA VerdictsInvariant == Spec => []Verdicts
<1>1. Init => Verdicts
  BY DEF Init, Verdicts, Earned, Going
<1>2. Inv /\ Verdicts /\ [Next]_vars => Verdicts'
  <2>1. Verdicts /\ UNCHANGED vars => Verdicts'
    BY DEF vars, page, Verdicts
  <2> QED  BY <2>1, VerdictsNext
<1> QED  BY <1>1, <1>2, CheckInvariant, PTL DEF Spec

\* A passed check has had the right answer of every blocking test, however
\* checks, losses, cancellations and late answers interleave (tests.js:740-941).
THEOREM VerdictsEarned == Spec => []PassMeansTested
<1>1. Verdicts => PassMeansTested
  BY DEF Verdicts, Earned, PassMeansTested, At
<1> QED  BY <1>1, VerdictsInvariant, PTL

-----------------------------------------------------------------------------
(* The watchdog is not too early                                           *)

\* The clock of a test that is alone on the GPU: the phase is its own call's, and
\* the watchdog has not counted more ticks in the phase it last saw than the
\* calls of the test have sat in awaits of that kind.
Steady(r) ==
    LET w == runs[r].watch
    IN  w.alone =>
            /\ InFlight = {r}
            /\ phase = calls[r].at
            /\ w.phase \in Await
            /\ w.inPhase <= w.spent[w.phase]

Clock == \A r \in At("testing") : Steady(r)

\* Every step keeps the clocks of the tests that are alone.
LEMMA ClockNext == ASSUME Inv, Clock, Next PROVE Clock'
<1>0. OwnInv /\ RunsOK /\ GpuOK /\ CallsOK /\ runs \in [Check -> Run]
  BY DEF Inv, OwnInv, RunsOK, GpuOK
\* A test that goes on and sees nothing, beside any that ends.
<1>1. ASSUME UNCHANGED <<calls, phase>>,
             \A q \in Check : runs'[q] = runs[q] \/ runs'[q].stage # "testing"
      PROVE  Clock'
  <2> SUFFICES ASSUME NEW q \in Check, runs'[q] = runs[q], runs[q].stage = "testing"
               PROVE  Steady(q)'
    BY <1>1 DEF Clock, At
  <2> QED  BY <1>1 DEF Clock, Steady, At, InFlight
<1>2. ASSUME NEW r \in Check, runs[r].stage \in Going, TestFails(r), UNCHANGED <<calls, phase>>
      PROVE  Clock'
  <2>1. InFlight' = InFlight
    BY <1>2 DEF InFlight
  <2>2. runs'[r].stage \in {"passed", "failed"} /\ \A q \in Check : q # r => runs'[q] = runs[q]
    BY <1>0, <1>2, <2>1, TestFailsOK
  <2> QED  BY <1>1, <1>2, <2>2
<1>3. ASSUME NEW d \in Device, DeviceDies(d) \/ Lost(d) \/ PageAcquires(d) PROVE Clock'
  BY <1>1, <1>3 DEF DeviceDies, Lost, PageAcquires, page
<1>4. ASSUME NEW r \in Check, CheckStarts(r) PROVE Clock'
  BY <1>0, <1>1, <1>4 DEF CheckStarts
<1>5. ASSUME NEW r \in Check, CheckHasNoDevice(r) PROVE Clock'
  BY <1>0, <1>1, <1>5 DEF CheckHasNoDevice
<1>6. ASSUME NEW r \in Check, TestHasNoDevice(r) PROVE Clock'
  BY <1>2, <1>6 DEF TestHasNoDevice, Going
<1>7. CASE Cancel
  BY <1>0, <1>1, <1>7 DEF Cancel
<1>8. ASSUME NEW r \in Check, Tick(r) PROVE Clock'
  <2> DEFINE w == runs[r].watch
             v == Seen(r)
             a == calls[r].at
  <2>1. runs[r].stage = "testing" /\ UNCHANGED <<calls, phase>> /\ r \in InFlight /\ InFlight' = InFlight
    BY <1>0, <1>8 DEF Tick, RunsOK, At, InFlight
  <2>2. CASE TestFails(r)
    BY <1>2, <2>1, <2>2 DEF Going
  <2>3. CASE /\ runs'[r].stage = "testing" /\ runs'[r].watch = v
             /\ \A q \in Check : q # r => runs'[q] = runs[q]
    <3>1. /\ v.phase = phase /\ v.alone = w.alone
          /\ v.inPhase = IF phase = w.phase THEN w.inPhase + 1 ELSE 0
          /\ w.alone => v.spent = [w.spent EXCEPT ![a] = @ + 1]
      BY <1>0, <2>1, SeenFacts
    <3>2. w.inPhase \in Nat /\ w.spent \in [Await -> Nat]
      BY <2>1, <1>0, RunParts DEF Unfinished, Watch, Going
    <3> HIDE DEF v
    <3> SUFFICES ASSUME NEW q \in Check, runs'[q].stage = "testing" PROVE Steady(q)'
      BY DEF Clock, At
    <3>3. CASE q # r
      BY <2>1, <2>3, <3>3 DEF Clock, Steady, At, InFlight
    <3>4. CASE q = r
      <4> SUFFICES ASSUME w.alone PROVE Steady(r)'
        BY <2>3, <3>1, <3>4 DEF Steady
      <4>1. InFlight = {r} /\ phase = a /\ (w.phase = phase => w.inPhase <= w.spent[a])
        BY <2>1 DEF Clock, Steady, At
      <4>2. a \in Await
        BY <1>0, <2>1, CallParts
      <4> HIDE DEF w, a
      <4>3. v.spent[a] = w.spent[a] + 1 /\ w.spent[a] \in Nat
        BY <3>1, <3>2, <4>2
      <4>4. v.inPhase <= v.spent[a]
        BY <3>1, <3>2, <4>1, <4>3
      <4> QED  BY <2>1, <2>3, <3>1, <4>1, <4>2, <4>4 DEF Steady, a
    <3> QED  BY <3>3, <3>4
  <2> QED  BY <1>0, <1>8, <2>2, <2>3, TickOK
\* A test that starts disturbs the others.
<1>9. ASSUME NEW r \in Check, TestStarts(r) PROVE Clock'
  <2>1. /\ calls'[r].at = phase' /\ InFlight' = InFlight \cup {r}
        /\ LET w == runs'[r].watch
           IN  w.phase = phase' /\ w.inPhase = 0 /\ w.spent = NoTime /\ (w.alone => InFlight = {})
        /\ \A q \in Check : q # r => runs'[q] = Disturbed(runs[q])
        /\ CallsOK'
    BY <1>0, <1>9, TestStartsOK DEF OwnInv, GpuOK
  <2>2. phase' \in Await
    <3>1. calls'[r] \in {Free} \cup InCall /\ calls'[r].at # "free"
      BY <2>1 DEF CallsOK, InFlight
    <3> QED  BY <2>1, <3>1 DEF Free, InCall
  <2> SUFFICES ASSUME NEW q \in Check, runs'[q].stage = "testing" PROVE Steady(q)'
    BY DEF Clock, At
  <2>3. CASE q = r
    <3> DEFINE w == runs'[r].watch
    <3>1. w.phase = phase' /\ w.inPhase = 0 /\ w.spent = NoTime /\ (w.alone => InFlight = {})
      BY <2>1
    <3>2. w.spent[phase'] = 0
      BY <2>2, <3>1 DEF NoTime
    <3> HIDE DEF w
    <3>3. w.alone => InFlight' = {r}
      BY <2>1, <3>1
    <3> QED  BY <2>1, <2>2, <2>3, <3>1, <3>2, <3>3 DEF Steady, w
  <2>4. CASE q # r
    <3>1. runs[q] \in Run /\ runs'[q] = Disturbed(runs[q])
      BY <1>0, <2>1, <2>4
    <3>2. runs[q].stage = "testing" /\ ~runs'[q].watch.alone
      BY <3>1, DisturbedFacts
    <3> QED  BY <3>2 DEF Steady
  <2> QED  BY <2>3, <2>4
\* The calls of a test go on: no other test is alone.
<1>10. ASSUME NEW r \in Check, r \in InFlight, InFlight' = InFlight, calls'[r].at = phase', UNCHANGED runs
       PROVE  Clock'
  <2> SUFFICES ASSUME NEW q \in Check, runs[q].stage = "testing", runs[q].watch.alone PROVE Steady(q)'
    BY <1>10 DEF Clock, Steady, At
  <2>1. Steady(q)
    BY DEF Clock, At
  <2> QED  BY <1>10, <2>1 DEF Steady
\* They end: no other test was alone, and this one is over.
<1>11. ASSUME NEW r \in InFlight, NEW ok \in BOOLEAN, Ends(r, ok), UNCHANGED caches, phase' \in Phase
       PROVE  Clock'
  <2>1. r \in Check
    BY DEF InFlight
  <2>2. /\ InFlight' = InFlight \ {r}
        /\ \/ UNCHANGED runs /\ runs[r].stage # "testing"
           \/ runs[r].stage = "testing" /\ TestPasses(r)
           \/ runs[r].stage = "testing" /\ TestFails(r)
    BY <1>0, <1>11, <2>1, EndsOK
  <2>3. runs'[r].stage # "testing" /\ \A q \in Check : q # r => runs'[q] = runs[q]
    BY <1>0, <2>1, <2>2, TestPassesOK, TestFailsOK DEF Going
  <2> SUFFICES ASSUME NEW q \in Check, runs'[q].stage = "testing", runs'[q].watch.alone PROVE FALSE
    BY DEF Clock, Steady, At
  <2>4. q # r /\ runs'[q] = runs[q]
    BY <2>3
  <2>5. Steady(q) /\ runs[q].watch.alone
    BY <2>4 DEF Clock, At
  <2> QED  BY <2>4, <2>5 DEF Steady
<1>12. ASSUME NEW r \in Check, Driver(r) PROVE Clock'
  <2>1. phase \in Phase /\ "idle" \in Phase
    BY <1>0 DEF GpuOK, Phase
  <2>2. r \in InFlight
    BY <1>12
    DEF Driver, Compiled, PipelineMade, CallThrows, MappedAndCallsAgain, Mapped, ReadBack, InFlight, COMPILE_PHASES
  <2>3. CASE Compiled(r)
    BY <1>0, <1>10, <2>2, <2>3, CompiledOwn DEF Compiled, page
  <2>4. CASE PipelineMade(r)
    BY <1>0, <1>10, <2>2, <2>4, PipelineMadeOwn DEF PipelineMade, page
  <2>5. CASE MappedAndCallsAgain(r)
    BY <1>0, <1>10, <2>2, <2>5, CallsAgainOwn DEF MappedAndCallsAgain, page
  <2>6. CASE CallThrows(r)
    BY <1>11, <2>1, <2>2, <2>6 DEF CallThrows
  <2>7. ASSUME NEW ok \in BOOLEAN, Mapped(r, ok) PROVE Clock'
    BY <1>11, <2>1, <2>2, <2>7 DEF Mapped
  <2> QED  BY <1>12, <2>3, <2>4, <2>5, <2>6, <2>7 DEF Driver
<1> QED
  BY <1>3, <1>4, <1>5, <1>6, <1>7, <1>8, <1>9, <1>12 DEF Next, Runner

\* A step after which a test under way is over, its call still out, is a tick of
\* its own watchdog, which found it too late.
LEMMA GivenUpLate ==
    ASSUME Inv, [Next]_vars, NEW r \in At("testing"),
           runs'[r].stage \in {"passed", "failed"}, calls'[r] = calls[r]
    PROVE  TimedOut(Seen(r))
<1>0. /\ OwnInv /\ RunsOK /\ runs \in [Check -> Run]
      /\ r \in Check /\ runs[r].stage = "testing" /\ r \in InFlight /\ runs'[r] # runs[r]
  BY DEF Inv, RunsOK, At
<1>1. CASE UNCHANGED vars
  BY <1>0, <1>1 DEF vars, page
<1>2. ASSUME NEW d \in Device, DeviceDies(d) \/ Lost(d) \/ PageAcquires(d) PROVE FALSE
  BY <1>0, <1>2 DEF DeviceDies, Lost, PageAcquires, page
<1>3. ASSUME NEW q \in Check, CheckStarts(q) \/ CheckHasNoDevice(q) PROVE FALSE
  BY <1>0, <1>3 DEF CheckStarts, CheckHasNoDevice, Begins
<1>4. ASSUME NEW q \in Check, TestStarts(q) PROVE FALSE
  <2>1. GoesOnWith(r)
    BY <1>0, <1>4, TestStartsOK
  <2> QED  BY <1>0, <2>1 DEF GoesOnWith, Unfinished, Going
<1>5. ASSUME NEW q \in Check, TestHasNoDevice(q) PROVE FALSE
  <2>1. q # r /\ InFlight' = InFlight
    BY <1>0, <1>5 DEF TestHasNoDevice, InFlight
  <2> QED  BY <1>0, <1>5, <2>1, TestFailsOK DEF TestHasNoDevice, Going
<1>6. ASSUME NEW q \in Check, Tick(q) PROVE TimedOut(Seen(r))
  <2>1. CASE q = r
    BY <1>0, <1>6, <2>1, TickOK
  <2>2. CASE q # r
    <3>1. runs[q].stage = "testing" /\ InFlight' = InFlight
      BY <1>0, <1>6, TickOK
    <3>2. CASE TestFails(q)
      BY <1>0, <2>2, <3>1, <3>2, TestFailsOK DEF Going
    <3>3. CASE ~TestFails(q)
      BY <1>0, <1>6, <2>2, <3>3, TickOK
    <3> QED  BY <3>2, <3>3
  <2> QED  BY <2>1, <2>2
<1>7. ASSUME NEW q \in Check, NEW ok \in BOOLEAN, Ends(q, ok), UNCHANGED caches, phase' \in Phase
      PROVE  FALSE
  <2>1. /\ InFlight' = InFlight \ {q}
        /\ \/ UNCHANGED runs
           \/ runs[q].stage = "testing" /\ TestPasses(q)
           \/ runs[q].stage = "testing" /\ TestFails(q)
    BY <1>0, <1>7, EndsOK
  <2>2. q # r
    BY <1>0, <2>1 DEF InFlight
  <2> QED  BY <1>0, <2>1, <2>2, TestPassesOK, TestFailsOK DEF Going
<1>8. ASSUME NEW q \in Check, Driver(q) PROVE FALSE
  <2>1. phase \in Phase /\ "idle" \in Phase
    BY <1>0 DEF OwnInv, GpuOK, Phase
  <2>2. CASE Compiled(q) \/ PipelineMade(q) \/ MappedAndCallsAgain(q)
    BY <1>0, <2>2 DEF Compiled, PipelineMade, MappedAndCallsAgain, page
  <2>3. CASE CallThrows(q)
    BY <1>7, <2>1, <2>3 DEF CallThrows
  <2>4. ASSUME NEW ok \in BOOLEAN, Mapped(q, ok) PROVE FALSE
    BY <1>7, <2>1, <2>4 DEF Mapped
  <2> QED  BY <1>8, <2>2, <2>3, <2>4 DEF Driver
<1>9. CASE Cancel
  BY <1>0, <1>9 DEF Cancel, At
<1> QED
  BY <1>1, <1>2, <1>3, <1>4, <1>5, <1>6, <1>8, <1>9 DEF Next, Runner

\* A test that is alone on the GPU is given up only when its calls, together, have
\* sat in awaits of one kind for longer than the budget of that kind, or the test
\* has reached the ceiling, for every suite and every budget (tests.js:837-866).
THEOREM TimeoutsJustified == Spec => TimeoutJustified
<1>1. Init => Clock
  BY DEF Init, Clock, At
<1>2. Inv /\ Clock /\ [Next]_vars => Clock'
  <2>1. CASE UNCHANGED vars
    BY <2>1 DEF vars, page, Clock, Steady, At, InFlight
  <2> QED  BY <2>1, ClockNext
<1>3. Inv /\ Clock /\ [Next]_vars =>
        [\A r \in At("testing") :
           runs[r].watch.alone /\ runs'[r].stage \in {"passed", "failed"} /\ calls'[r] = calls[r] =>
             \/ \E a \in Await : Seen(r).spent[a] > budgetForPhase(a)
             \/ Seen(r).overall > TEST_CEILING]_vars
  <2> SUFFICES ASSUME Inv, Clock, [Next]_vars, NEW r \in At("testing"), runs[r].watch.alone,
                      runs'[r].stage \in {"passed", "failed"}, calls'[r] = calls[r]
               PROVE  \/ \E a \in Await : Seen(r).spent[a] > budgetForPhase(a)
                      \/ Seen(r).overall > TEST_CEILING
    OBVIOUS
  <2> DEFINE w == runs[r].watch
             v == Seen(r)
             a == calls[r].at
  <2>1. TimedOut(v)
    BY GivenUpLate
  <2>2. GpuOK /\ CallsOK /\ RunsOK /\ r \in Check /\ runs[r].stage = "testing" /\ r \in InFlight
    BY DEF Inv, OwnInv, GpuOK, RunsOK, At
  <2>3. /\ v.phase = phase /\ v.spent = [w.spent EXCEPT ![a] = @ + 1]
        /\ v.inPhase = IF phase = w.phase THEN w.inPhase + 1 ELSE 0
    BY <2>2, SeenFacts
  <2>4. w.inPhase \in Nat /\ w.spent \in [Await -> Nat]
    BY <2>2, RunParts DEF Unfinished, Watch, Going
  <2>5. phase = a /\ (w.phase = phase => w.inPhase <= w.spent[a])
    BY DEF Clock, Steady
  <2>6. a \in Await
    BY <2>2, CallParts
  <2>7. budgetForPhase(a) \in Nat
    BY CheckAssumption DEF budgetForPhase
  <2> HIDE DEF v, w, a
  <2>8. v.spent[a] = w.spent[a] + 1 /\ w.spent[a] \in Nat
    BY <2>3, <2>4, <2>6
  <2>9. v.inPhase > budgetForPhase(a) => v.spent[a] > budgetForPhase(a)
    BY <2>3, <2>4, <2>5, <2>7, <2>8
  <2>10. v.inPhase > budgetForPhase(a) \/ v.overall > TEST_CEILING
    BY <2>1, <2>3, <2>5 DEF TimedOut
  <2> QED  BY <2>6, <2>9, <2>10 DEF v
<1> QED  BY <1>1, <1>2, <1>3, CheckInvariant, PTL DEF Spec, TimeoutJustified
=============================================================================
