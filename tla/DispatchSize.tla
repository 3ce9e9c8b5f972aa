---------------------------- MODULE DispatchSize ----------------------------
(***************************************************************************)
(* How the search in demo/krackpot/src/coordinator.js divides a dispatch   *)
(* among the threads of the GPU, and how the size of a dispatch follows    *)
(* the time the last one took.                                             *)
(***************************************************************************)
EXTENDS Loops

CONSTANTS
    WORKGROUP_SIZE,         \* threads of a workgroup
    KEYS_PER_THREAD,        \* most keys a thread can scan
    OFFSET_TABLE_BITS,      \* bits of the thread id the shader looks at
    MAX_KEYS_PER_DISPATCH,  \* ceiling of the calibration ramp
    MAX_RECOVERY_ATTEMPTS   \* device losses in a row before the search ends

CeilDiv(a, b) == (a + b - 1) \div b

ASSUME SizeAssumption ==
    /\ WORKGROUP_SIZE \in Nat \ {0}
    /\ KEYS_PER_THREAD \in Nat \ {0}
    /\ MAX_KEYS_PER_DISPATCH \in Nat
    /\ WORKGROUP_SIZE * KEYS_PER_THREAD <= MAX_KEYS_PER_DISPATCH
    /\ MAX_RECOVERY_ATTEMPTS \in Nat

\* The threads the bits of the offset table tell apart.
TableThreads == Power(2, OFFSET_TABLE_BITS)

\* The comment at MAX_KEYS_PER_DISPATCH: the largest dispatch has no more
\* threads than the offset table can tell apart.
ASSUME TableAssumption ==
    /\ OFFSET_TABLE_BITS \in Nat /\ TableThreads \in Nat
    /\ CeilDiv(MAX_KEYS_PER_DISPATCH, WORKGROUP_SIZE * KEYS_PER_THREAD) * WORKGROUP_SIZE
           <= TableThreads

MIN_DISPATCH_KEYS == WORKGROUP_SIZE
DEFAULT_DISPATCH_KEYS == WORKGROUP_SIZE * KEYS_PER_THREAD

AtLeast(bound, n) == IF n < bound THEN bound ELSE n
AtMost(bound, n) == IF n > bound THEN bound ELSE n

\* partition: the workgroups of a dispatch of d keys and the keys of a thread.
Workgroups(d) == AtLeast(1, CeilDiv(d, WORKGROUP_SIZE * KEYS_PER_THREAD))

KeysPerThread(d) ==
    IF Workgroups(d) = 1
    THEN AtLeast(1, AtMost(KEYS_PER_THREAD, CeilDiv(d, WORKGROUP_SIZE)))
    ELSE KEYS_PER_THREAD

\* The keys that are really scanned, at least d.
TotalKeys(d) == Workgroups(d) * WORKGROUP_SIZE * KeysPerThread(d)

\* The results of the shader (shaders/search.js) for a key: thread t starts at t
\* strides of the table and scans as many keys as the header says.
Scan(key, chunk, table, header, groups) ==
    {h \in (0..(groups * WORKGROUP_SIZE - 1)) \X (0..(AtMost(KEYS_PER_THREAD, header) - 1)) :
        chunk + table * (h[1] % TableThreads) + h[2] = key}

\* Mutant: the ramp has no ceiling.
RecalibratedUncapped(d) == {AtLeast(WORKGROUP_SIZE, d \div 2), 2 * d, (5 * d) \div 4, d}

\* The sizes recalibrate may choose: the dispatch was too slow, very fast,
\* fast, or as long as it should be.
Recalibrated(d) ==
    {AtLeast(WORKGROUP_SIZE, d \div 2),
     AtMost(MAX_KEYS_PER_DISPATCH, 2 * d),
     AtMost(MAX_KEYS_PER_DISPATCH, (5 * d) \div 4),
     d}

\* The size after a dispatch failed.
Shrunk(d) == AtLeast(MIN_DISPATCH_KEYS, d \div 8)

\* The size a page starts with, given what localStorage holds.
Restored(s) ==
    IF s > 0 /\ s <= MAX_KEYS_PER_DISPATCH THEN s ELSE DEFAULT_DISPATCH_KEYS
=============================================================================
