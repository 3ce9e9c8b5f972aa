---------------------------- MODULE SearchKernel ----------------------------
(***************************************************************************)
(* One dispatch of the search shader (demo/krackpot/src/shaders/search.js) *)
(* with the parameters runDispatch of coordinator.js writes.  It is what   *)
(* SearchCoordinator takes Scan for.                                       *)
(*                                                                         *)
(* The threads share nothing but the counter and the result slots.  What a *)
(* thread computes alone, up to the hashes of its keys, is one step.  The  *)
(* numbers are reduced ones: Bigint shows that the words agree with them.  *)
(* The two hashes are one function that may take the same value at several *)
(* points, so that a dispatch can have any number of hits.                 *)
(***************************************************************************)
EXTENDS DispatchSize, Curve, FiniteSets

CONSTANTS
    Key,            \* the keys a dispatch may start at
    HASHES,         \* the hashes are 0..HASHES-1
    MAX_HITS,       \* result slots
    Unwritten       \* a word of the results that no thread has written

ASSUME KernelAssumption ==
    /\ Key \subseteq Nat \ {0} /\ HASHES \in Nat \ {0} /\ MAX_HITS \in Nat
    /\ Unwritten \notin Nat
    /\ \A k \in Key : k + TotalKeys(MAX_KEYS_PER_DISPATCH) < N

Hash160(prefix, x) == (prefix + x) % HASHES

\* compressPubkey and the hashes after it, on either side.
HashOf(point) == Hash160(2 + (point[2] % 2), point[1])

privToPkh(k) == HashOf(scalarMul(k))

VARIABLES
    params,         \* the dispatch: its first key, keys_per_thread, workgroups, target_pkh
    found_count,
    results,        \* [thread_id, key_offset] of every slot
    pc,             \* of every thread
    pkhs,           \* the hashes of its keys
    k,              \* the index of the next one to compare
    idx             \* the slot it got

vars == <<params, found_count, results, pc, pkhs, k, idx>>

Thread == 0..(TableThreads - 1)
Dispatched == 0..(params.groups * WORKGROUP_SIZE - 1)

\* partition of a dispatch of any size.
Init ==
    /\ \E base \in Key, d \in 1..MAX_KEYS_PER_DISPATCH, target \in 0..(HASHES - 1) :
        params = [base |-> base, keys |-> KeysPerThread(d), groups |-> Workgroups(d), target |-> target]
    /\ found_count = 0
    /\ results = [i \in 0..(MAX_HITS - 1) |-> [thread_id |-> Unwritten, key_offset |-> Unwritten]]
    /\ pc = [t \in Thread |-> IF t \in Dispatched THEN "start" ELSE "done"]
    /\ pkhs = [t \in Thread |-> <<>>]
    /\ k = [t \in Thread |-> 1]
    /\ idx = [t \in Thread |-> 0]

-----------------------------------------------------------------------------

\* buildOffsetTable, with the stride the header has too.
offset_table(b) == scalarMul(Power(2, b) * params.keys)

\* The first point of thread t, from the table and the first key's.
FirstPoint(t) ==
    LET addEntry == [i \in 1..OFFSET_TABLE_BITS |-> [R \in Jacobian |->
                        IF Bit(t, i - 1) = 1 THEN point_add_mixed(R, offset_table(i - 1)) ELSE R]]
    IN  point_add_mixed(Repeat(point_infinity, addEntry, OFFSET_TABLE_BITS), scalarMul(params.base))

\* The S points from R on.
Walk(first, S) ==
    LET addG == [i \in 1..S |-> [R \in Jacobian |-> point_add_mixed(R, G)]]
    IN  [n \in 1..S |-> Repeat(first, addG, n - 1)]

\* Montgomery's trick: the inverses of the z's by one inversion, walking back
\* over the products of the first ones.
Inverses(z) ==
    LET S == Len(z)
        product(n) == Repeat(z[1], [i \in 1..S |-> [p \in Residue |-> mod(p * z[i + 1])]], n - 1)
        u(n) == Repeat(Inverse(product(S)),
                     [i \in 1..S |-> [v \in Residue |-> mod(v * z[S + 1 - i])]], S - n)
    IN  [n \in 1..S |-> IF n = 1 THEN u(1) ELSE mod(u(n) * product(n - 1))]

\* A thread up to the comparisons.
Hashes(t) ==
    LET S == AtMost(KEYS_PER_THREAD, params.keys)
        points == Walk(FirstPoint(t), S)
        inverses == Inverses([n \in 1..S |-> points[n].z])
    IN  [n \in 1..S |-> HashOf(Affine(points[n], inverses[n]))]

Compute(t) ==
    /\ pc[t] = "start"
    /\ pkhs' = [pkhs EXCEPT ![t] = Hashes(t)]
    /\ pc' = [pc EXCEPT ![t] = "compare"]
    /\ UNCHANGED <<params, found_count, results, k, idx>>

Compared(t) == k' = [k EXCEPT ![t] = @ + 1]

\* Mutant: the counter is not advanced.
HitTwice(t) ==
    /\ pc[t] = "compare"
    /\ k[t] \in DOMAIN pkhs[t]
    /\ pkhs[t][k[t]] = params.target
    /\ idx' = [idx EXCEPT ![t] = found_count]
    /\ found_count' = AtLeast(1, found_count)
    /\ IF found_count < MAX_HITS
       THEN pc' = [pc EXCEPT ![t] = "thread"] /\ UNCHANGED k
       ELSE Compared(t) /\ UNCHANGED pc
    /\ UNCHANGED <<params, results, pkhs>>

\* atomicAdd hands out a slot.
Hit(t) ==
    /\ pc[t] = "compare"
    /\ k[t] \in DOMAIN pkhs[t]
    /\ pkhs[t][k[t]] = params.target
    /\ idx' = [idx EXCEPT ![t] = found_count]
    /\ found_count' = found_count + 1
    /\ IF found_count < MAX_HITS
       THEN pc' = [pc EXCEPT ![t] = "thread"] /\ UNCHANGED k
       ELSE Compared(t) /\ UNCHANGED pc
    /\ UNCHANGED <<params, results, pkhs>>

Miss(t) ==
    /\ pc[t] = "compare"
    /\ k[t] \in DOMAIN pkhs[t]
    /\ pkhs[t][k[t]] # params.target
    /\ Compared(t)
    /\ UNCHANGED <<params, found_count, results, pc, pkhs, idx>>

\* The two words of the slot.
StoreThread(t) ==
    /\ pc[t] = "thread"
    /\ results' = [results EXCEPT ![idx[t]].thread_id = t]
    /\ pc' = [pc EXCEPT ![t] = "offset"]
    /\ UNCHANGED <<params, found_count, pkhs, k, idx>>

StoreOffset(t) ==
    /\ pc[t] = "offset"
    /\ results' = [results EXCEPT ![idx[t]].key_offset = k[t] - 1]
    /\ pc' = [pc EXCEPT ![t] = "compare"]
    /\ Compared(t)
    /\ UNCHANGED <<params, found_count, pkhs, idx>>

Return(t) ==
    /\ pc[t] = "compare"
    /\ k[t] \notin DOMAIN pkhs[t]
    /\ pc' = [pc EXCEPT ![t] = "done"]
    /\ UNCHANGED <<params, found_count, results, pkhs, k, idx>>

Next ==
    \E t \in Thread :
        Compute(t) \/ Hit(t) \/ Miss(t) \/ StoreThread(t) \/ StoreOffset(t) \/ Return(t)

Spec == Init /\ [][Next]_vars

-----------------------------------------------------------------------------

Done == \A t \in Thread : pc[t] = "done"

\* What the CPU reads after the dispatch.
Read == {<<results[i].thread_id, results[i].key_offset>> :
            i \in 0..(AtMost(MAX_HITS, found_count) - 1)}

\* Every hit of the threads.
HitsOf(t) == {j \in DOMAIN pkhs[t] : pkhs[t][j] = params.target}
Hits == UNION {{<<t, j - 1>> : j \in HitsOf(t)} : t \in Thread}

\* The CPU reads hits of the threads, all of them if there are slots for them,
\* and nothing half-written or overwritten, in whatever order the threads get
\* and fill their slots (search.js, atomicAdd; coordinator.js, MAX_HITS).
HitsKept ==
    Done => /\ Read \subseteq Hits
            /\ found_count <= MAX_HITS => Read = Hits

\* The hits are those that SearchCoordinator takes the shader to report: a
\* thread hashes the keys of its place, through doublings and the shared
\* inversion, and hashes them as the CPU does (search.js; coordinator.js).
ThreadsScan ==
    (\A t \in Dispatched : pc[t] = "compare" /\ k[t] = 1) =>
        Hits = UNION {Scan(key, params.base, params.keys, params.keys, params.groups) :
                        key \in {q \in 1..(N - 1) : privToPkh(q) = params.target}}

\* The shader multiplies as the CPU does, and adds a generator and doubles, for
\* the scalar the dispatch starts at (tests.js asks it for a few scalars).
ShaderMultiplies ==
    found_count = 0 /\ Dispatched = {t \in Thread : pc[t] = "start"} =>
        LET R == scalar_mul_g(params.base)
        IN  /\ jacobian_to_affine(R) = scalarMul(params.base)
            /\ jacobian_to_affine(point_add_mixed(R, G)) = scalarMul(params.base + 1)
            /\ jacobian_to_affine(point_double(R)) = scalarMul(2 * params.base)
=============================================================================
