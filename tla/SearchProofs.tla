---------------------------- MODULE SearchProofs -----------------------------
(***************************************************************************)
(* Theorems about SearchCoordinator, for every size of workgroup, batch,   *)
(* offset table and ceiling that satisfies the assumptions of DispatchSize,*)
(* and about SearchPage, for any number of calls of its start handler.     *)
(***************************************************************************)
EXTENDS SearchPage, FiniteSetTheorems, TLAPS

\* What division by a positive number rounds to.
LEMMA DivBounds ==
    ASSUME NEW a \in Int, NEW c \in Nat \ {0}
    PROVE  /\ a \div c \in Int
           /\ c * (a \div c) <= a
           /\ a < c * (a \div c) + c
  OBVIOUS

\* Rounding up loses nothing, and a larger number rounds to no less.
LEMMA CeilDivBounds ==
    ASSUME NEW a \in Nat, NEW c \in Nat \ {0}
    PROVE  /\ CeilDiv(a, c) \in Nat
           /\ a <= c * CeilDiv(a, c)
           /\ c * CeilDiv(a, c) < a + c
  BY DivBounds DEF CeilDiv

LEMMA CeilDivMonotone ==
    ASSUME NEW a \in Nat, NEW b \in Nat, NEW c \in Nat \ {0}, a <= b
    PROVE  CeilDiv(a, c) <= CeilDiv(b, c)
<1> DEFINE p == CeilDiv(a, c)
           q == CeilDiv(b, c)
<1>1. p \in Nat /\ q \in Nat /\ c * p < a + c /\ b <= c * q
  BY CeilDivBounds
<1>2. c * p < c * q + c
  BY <1>1
<1> HIDE DEF p, q
<1>3. SUFFICES ASSUME p >= q + 1 PROVE FALSE
  BY <1>1 DEF p, q
<1>4. c * p >= c * (q + 1)
  BY <1>1, <1>3
<1> QED BY <1>1, <1>2, <1>4

\* What a size within the bounds is divided into, and what may follow it.
LEMMA SizeFacts ==
    ASSUME NEW k \in 1..MAX_KEYS_PER_DISPATCH
    PROVE  /\ Workgroups(k) \in Nat \ {0}
           /\ Workgroups(k) * WORKGROUP_SIZE <= TableThreads
           /\ KeysPerThread(k) \in 1..KEYS_PER_THREAD
           /\ TotalKeys(k) >= k
<1> USE SizeAssumption
<1> DEFINE G == WORKGROUP_SIZE * KEYS_PER_THREAD
           W == CeilDiv(k, G)
           T == CeilDiv(k, WORKGROUP_SIZE)
<1>1. G \in Nat \ {0}
  OBVIOUS
<1>2. W \in Nat /\ k <= G * W
  BY <1>1, CeilDivBounds
<1>3. W # 0
  BY <1>1, <1>2
<1>4. W <= CeilDiv(MAX_KEYS_PER_DISPATCH, G)
  BY <1>1, CeilDivMonotone
<1>5. CeilDiv(MAX_KEYS_PER_DISPATCH, G) \in Nat
  BY <1>1, CeilDivBounds
<1>6. T \in Nat /\ k <= WORKGROUP_SIZE * T
  BY CeilDivBounds
<1>7. T # 0
  BY <1>6
<1>8. Workgroups(k) = W
  <2> HIDE DEF W
  <2>1. ~(W < 1)
    BY <1>2, <1>3
  <2> QED BY <2>1 DEF Workgroups, AtLeast, W
<1>9. KeysPerThread(k) = IF W = 1 /\ T <= KEYS_PER_THREAD THEN T ELSE KEYS_PER_THREAD
  <2> HIDE DEF T, W, G
  <2>1. AtMost(KEYS_PER_THREAD, T) = IF T <= KEYS_PER_THREAD THEN T ELSE KEYS_PER_THREAD
    BY <1>6 DEF AtMost
  <2>2. AtLeast(1, AtMost(KEYS_PER_THREAD, T)) = AtMost(KEYS_PER_THREAD, T)
    BY <1>6, <1>7, <2>1 DEF AtLeast
  <2> QED BY <1>8, <2>1, <2>2 DEF KeysPerThread, T
<1>10. W * WORKGROUP_SIZE <= TableThreads
  <2> DEFINE M == CeilDiv(MAX_KEYS_PER_DISPATCH, G)
             P == TableThreads
  <2>1. M * WORKGROUP_SIZE <= P /\ P \in Nat
    BY TableAssumption
  <2> HIDE DEF M, P, W, G
  <2>2. W * WORKGROUP_SIZE <= M * WORKGROUP_SIZE
    BY <1>2, <1>4, <1>5 DEF M
  <2> QED BY <1>2, <1>5, <2>1, <2>2 DEF M, P
<1>11. Workgroups(k) * WORKGROUP_SIZE * KeysPerThread(k) >= k
  <2> HIDE DEF T, W
  <2>1. CASE W = 1 /\ T <= KEYS_PER_THREAD
    BY <1>6, <1>8, <1>9, <2>1
  <2>2. CASE ~(W = 1 /\ T <= KEYS_PER_THREAD)
    BY <1>2, <1>8, <1>9, <2>2
  <2> QED BY <2>1, <2>2
<1> QED BY <1>2, <1>3, <1>6, <1>7, <1>8, <1>9, <1>10, <1>11 DEF TotalKeys

\* No rule for the next size leaves the bounds, and localStorage cannot.
LEMMA SizeStays ==
    ASSUME NEW k \in 1..MAX_KEYS_PER_DISPATCH
    PROVE  /\ Recalibrated(k) \subseteq 1..MAX_KEYS_PER_DISPATCH
           /\ Shrunk(k) \in 1..MAX_KEYS_PER_DISPATCH
<1> USE SizeAssumption
<1>1. WORKGROUP_SIZE \in 1..MAX_KEYS_PER_DISPATCH
  OBVIOUS
<1> QED BY <1>1 DEF Recalibrated, Shrunk, MIN_DISPATCH_KEYS, AtLeast, AtMost

LEMMA RestoredStays ==
    ASSUME NEW s \in 0..MAX_KEYS_PER_DISPATCH
    PROVE  Restored(s) \in 1..MAX_KEYS_PER_DISPATCH
<1>1. DEFAULT_DISPATCH_KEYS \in 1..MAX_KEYS_PER_DISPATCH
  BY SizeAssumption DEF DEFAULT_DISPATCH_KEYS
<1> QED BY <1>1, SizeAssumption DEF Restored

\* A dispatch with one stride in table, header and reconstruction, and threads
\* that the table can tell apart, finds the key it looks for if and only if it is among
\* the keys of the dispatch.
LEMMA ScanExact ==
    ASSUME NEW k \in Int, NEW c \in Int, NEW s \in 1..KEYS_PER_THREAD, NEW g \in Nat,
           g * WORKGROUP_SIZE <= TableThreads
    PROVE  {c + h[1] * s + h[2] : h \in Scan(k, c, s, s, g)}
               = {k} \cap (c .. (c + g * WORKGROUP_SIZE * s - 1))
<1> USE SizeAssumption
<1> DEFINE P == TableThreads
           N == g * WORKGROUP_SIZE
<1>1. k \in Int
  OBVIOUS
<1>2. N \in Nat /\ P \in Nat /\ N <= P
  BY TableAssumption
<1>3. AtMost(KEYS_PER_THREAD, s) = s
  BY DEF AtMost
<1>4. \A t \in 0..(N - 1) : t % P = t
  <2> HIDE DEF P, N
  <2> QED BY <1>2
<1>5. Scan(k, c, s, s, g) = {h \in (0..(N - 1)) \X (0..(s - 1)) : c + s * h[1] + h[2] = k}
  <2>1. \A h \in (0..(N - 1)) \X (0..(s - 1)) : h[1] % P = h[1]
    BY <1>4
  <2> QED BY <1>3, <2>1 DEF Scan
<1> HIDE DEF P, N
<1>6. ASSUME NEW h \in Scan(k, c, s, s, g)
      PROVE  c + h[1] * s + h[2] \in {k} \cap (c .. (c + N * s - 1))
  <2>1. h[1] \in 0..(N - 1) /\ h[2] \in 0..(s - 1) /\ c + s * h[1] + h[2] = k
    BY <1>5
  <2>2. PICK a \in 0..(N - 1), b \in 0..(s - 1) : a = h[1] /\ b = h[2]
    BY <2>1
  <2>3. s * a = a * s
    BY <1>2
  <2>4. 0 <= a * s /\ a * s + s <= N * s
    <3>1. (a + 1) * s <= N * s
      BY <1>2
    <3> QED BY <1>2, <3>1
  <2>5. a * s \in Int /\ N * s \in Int
    BY <1>2
  <2> QED BY <1>2, <2>1, <2>2, <2>3, <2>4, <2>5
<1>7. ASSUME k \in c .. (c + N * s - 1)
      PROVE  \E h \in Scan(k, c, s, s, g) : k = c + h[1] * s + h[2]
  <2> DEFINE x == k - c
             a == x \div s
             b == x - s * a
  <2>1. x \in Nat /\ x < N * s
    BY <1>1, <1>2, <1>7
  <2>2. a \in Int /\ s * a <= x /\ x < s * a + s
    BY <2>1, DivBounds
  <2> HIDE DEF x, a
  <2>3. b \in 0..(s - 1)
    BY <2>1, <2>2
  <2>4. a >= 0
    <3>1. SUFFICES ASSUME a + 1 <= 0 PROVE FALSE
      BY <2>2
    <3>2. s * (a + 1) <= 0
      BY <2>2, <3>1
    <3> QED BY <2>1, <2>2, <3>2
  <2>5. a < N
    <3>1. SUFFICES ASSUME N <= a PROVE FALSE
      BY <1>2, <2>2
    <3>2. N * s <= s * a
      BY <1>2, <2>2, <3>1
    <3> QED BY <1>2, <2>1, <2>2, <3>2
  <2>6. c + s * a + b = k /\ s * a = a * s
    BY <1>1, <2>2 DEF x
  <2>7. <<a, b>> \in (0..(N - 1)) \X (0..(s - 1))
    BY <1>2, <2>2, <2>3, <2>4, <2>5
  <2>8. <<a, b>> \in Scan(k, c, s, s, g)
    BY <1>5, <2>6, <2>7
  <2> QED BY <2>6, <2>8
<1>8. g * WORKGROUP_SIZE * s = N * s
  BY DEF N
<1> QED BY <1>6, <1>7, <1>8

-----------------------------------------------------------------------------

Quiet == {"idle", "done", "failed"}

Renewing == {"acquiring", "setup", "reacquiring", "compiling"}

\* One call at a time.
Serial == \A k, l \in Loop : pc[k] \notin Quiet /\ pc[l] \notin Quiet => k = l

\* Buffers that can still be used belong to this.device, and no call is about
\* to replace them.
BuffersUsable ==
    \/ buffers = NoBuffers
    \/ buffers.dev \in lost
    \/ device = buffers.dev /\ \A l \in Loop : pc[l] \notin Renewing

\* The table is where uploaded says it is.
TableUploaded ==
    /\ buffers = NoBuffers => uploaded = NoStride
    /\ buffers.dev \notin lost /\ uploaded # NoStride => buffers.table = uploaded

\* A dispatch that can complete was executed, with the table of its stride.
DispatchExecuted ==
    \A l \in Loop :
        /\ ~job[l].stale
        /\ pc[l] = "compiling" => job[l].dev = device
        /\ pc[l] = "mapping" =>
              \/ buffers.dev \in lost
              \/ /\ buffers # NoBuffers /\ ~job[l].rejects
                 /\ job[l].stride \in 1..KEYS_PER_THREAD
                 /\ job[l].stride = buffers.table
                 /\ job[l].groups * WORKGROUP_SIZE <= TableThreads
                 /\ buffers.hits =
                       Scan(target, job[l].chunk, job[l].stride, job[l].stride,
                            job[l].groups)

\* The readback buffer is free unless a call waits for it.
ReadbackFree ==
    buffers.mapping => buffers.dev \in lost \/ \E l \in Loop : pc[l] = "mapping"

SearchInv ==
    /\ TypeOK
    /\ SizeInBounds
    /\ Serial
    /\ BuffersUsable
    /\ TableUploaded
    /\ DispatchExecuted
    /\ ReadbackFree

\* The invariant holds at the start.
LEMMA InitSearchInv == Init => SearchInv
<1> SUFFICES ASSUME Init PROVE SearchInv
  OBVIOUS
<1> USE DEF Init
<1>1. /\ NoJob \in Job /\ ~NoJob.stale
      /\ NoBuffers \in Buffers /\ ~NoBuffers.mapping
      /\ KEYS_PER_THREAD \in Nat /\ MAX_RECOVERY_ATTEMPTS \in Nat
  BY SizeAssumption DEF NoJob, Job, NoBuffers, Buffers, NoStride
<1>2. Restored(saved) \in 1..MAX_KEYS_PER_DISPATCH /\ saved \in 0..MAX_KEYS_PER_DISPATCH
  BY RestoredStays, SizeAssumption
<1>3. TypeOK
  <2>1. job \in [Loop -> Job] /\ buffers \in Buffers
    BY <1>1
  <2>2. pc \in [Loop -> Places]
    BY DEF Places
  <2>3. losses \in Nat /\ (running => losses <= MAX_RECOVERY_ATTEMPTS)
    BY <1>1
  <2>4. uploaded \in 0..KEYS_PER_THREAD
    BY <1>1 DEF NoStride
  <2> QED BY <2>1, <2>2, <2>3, <2>4 DEF TypeOK
<1>4. SizeInBounds
  BY <1>2, SizeFacts DEF SizeInBounds
<1>5. Serial /\ BuffersUsable /\ TableUploaded /\ DispatchExecuted /\ ReadbackFree
  BY <1>1 DEF Serial, Quiet, BuffersUsable, TableUploaded, DispatchExecuted, ReadbackFree
<1> QED BY <1>3, <1>4, <1>5 DEF SearchInv

\* Every step preserves it.
LEMMA NextSearchInv == SearchInv /\ [Next]_vars => SearchInv'
<1> SUFFICES ASSUME SearchInv, [Next]_vars PROVE SearchInv'
  OBVIOUS
<1> USE DEF SearchInv, Goto, gpu, pipeline, size, control
<1>a. /\ NoJob \in Job /\ ~NoJob.stale
      /\ NoBuffers \in Buffers /\ ~NoBuffers.mapping
      /\ KEYS_PER_THREAD \in Nat /\ MAX_RECOVERY_ATTEMPTS \in Nat
      /\ NoDevice \notin Device
  BY SizeAssumption, CoordinatorAssumption DEF NoJob, Job, NoBuffers, Buffers, NoStride
<1>b. ASSUME keys' \in 1..MAX_KEYS_PER_DISPATCH, saved' \in 0..MAX_KEYS_PER_DISPATCH
      PROVE  SizeInBounds'
  <2> DEFINE k == keys'
  <2>1. /\ Workgroups(k) * WORKGROUP_SIZE <= TableThreads
        /\ TotalKeys(k) >= k
    <3> HIDE DEF k
    <3>1. k \in 1..MAX_KEYS_PER_DISPATCH
      BY <1>b DEF k
    <3> QED BY <3>1, SizeFacts
  <2> QED BY <1>b, <2>1 DEF SizeInBounds
<1>c. /\ keys \in 1..MAX_KEYS_PER_DISPATCH /\ saved \in 0..MAX_KEYS_PER_DISPATCH
      /\ MAX_KEYS_PER_DISPATCH \in Nat
  BY SizeAssumption DEF SizeInBounds
<1>d. \A x \in Buffers :
          LET y == [x EXCEPT !.mapping = FALSE]
          IN  y \in Buffers /\ y.dev = x.dev /\ y.table = x.table /\ ~y.mapping
  BY DEF Buffers
<1>e. \A x \in Job : \A d \in Device \cup {NoDevice} :
          LET y == [x EXCEPT !.dev = d]
          IN  y \in Job /\ y.dev = d /\ y.stale = x.stale
  BY DEF Job
<1>g. \A d \in Device \cup {NoDevice} :
          LET y == [NoBuffers EXCEPT !.dev = d]
          IN  y \in Buffers /\ y.dev = d /\ ~y.mapping
  BY <1>a DEF NoBuffers, Buffers
<1>h. \A x \in Job : \A b \in BOOLEAN :
          LET y == [x EXCEPT !.stale = b]
          IN  y \in Job /\ y.stale = b
  BY DEF Job
<1>i. \A x \in Job : \A h \in SUBSET (Nat \X Nat) :
          LET y == [x EXCEPT !.hits = h]
          IN  y \in Job /\ y.stale = x.stale
  BY DEF Job
<1>j. buffers.hits \in SUBSET (Nat \X Nat) /\ buffers.table \in 0..KEYS_PER_THREAD
      /\ buffers.mapping \in BOOLEAN
  BY DEF TypeOK, Buffers
<1>1. ASSUME NEW l \in Loop, Begin(l)
     PROVE  SearchInv'
  <2> USE DEF Begin
  <2>1. TypeOK'
    <3>1. buffers' \in Buffers
      BY <1>1, <1>a, <1>d DEF TypeOK
    <3>2. job' \in [Loop -> Job]
      BY <1>1, <1>a, <1>e DEF TypeOK
    <3> QED BY <1>1, <1>a, <3>1, <3>2 DEF TypeOK, Places, NoStride
  <2>2. SizeInBounds'
    <3>1. keys' \in 1..MAX_KEYS_PER_DISPATCH /\ saved' \in 0..MAX_KEYS_PER_DISPATCH
      BY <1>1, <1>c
    <3> QED BY <1>b, <3>1
  <2>3. Serial'
    BY <1>1 DEF Serial, Quiet, TypeOK
  <2>4. BuffersUsable'
    BY <1>1 DEF BuffersUsable, Renewing, Serial, Quiet, TypeOK, DispatchExecuted
  <2>5. TableUploaded'
    BY <1>1 DEF TableUploaded, TypeOK
  <2>6. DispatchExecuted'
    BY <1>1, <1>a DEF DispatchExecuted, TypeOK, Serial, Quiet
  <2>7. ReadbackFree'
    BY <1>1, <1>a DEF ReadbackFree, TypeOK, Serial, Quiet
  <2> QED BY <2>1, <2>2, <2>3, <2>4, <2>5, <2>6, <2>7
<1>2. ASSUME NEW l \in Loop, Start(l)
     PROVE  SearchInv'
  <2> USE DEF Start
  <2>1. TypeOK'
    <3>1. buffers' \in Buffers
      BY <1>2, <1>a, <1>d DEF TypeOK
    <3>2. job' \in [Loop -> Job]
      BY <1>2, <1>a, <1>e DEF TypeOK
    <3> QED BY <1>2, <1>a, <3>1, <3>2 DEF TypeOK, Places, NoStride
  <2>2. SizeInBounds'
    <3>1. keys' \in 1..MAX_KEYS_PER_DISPATCH /\ saved' \in 0..MAX_KEYS_PER_DISPATCH
      BY <1>2, <1>c
    <3> QED BY <1>b, <3>1
  <2>3. Serial'
    BY <1>2 DEF Serial, Quiet, TypeOK
  <2>4. BuffersUsable'
    BY <1>2 DEF BuffersUsable, Renewing, Serial, Quiet, TypeOK, DispatchExecuted
  <2>5. TableUploaded'
    BY <1>2 DEF TableUploaded, TypeOK
  <2>6. DispatchExecuted'
    BY <1>2, <1>a DEF DispatchExecuted, TypeOK, Serial, Quiet
  <2>7. ReadbackFree'
    BY <1>2, <1>a DEF ReadbackFree, TypeOK, Serial, Quiet
  <2> QED BY <2>1, <2>2, <2>3, <2>4, <2>5, <2>6, <2>7
<1>3. ASSUME NEW l \in Loop, Setup(l)
     PROVE  SearchInv'
  <2> USE DEF Setup
  <2>q. \A k \in Loop \ {l} : pc[k] \in Quiet /\ pc'[k] = pc[k]
    BY <1>3 DEF Serial, Quiet, TypeOK
  <2>1. TypeOK'
    <3>1. buffers' \in Buffers
      BY <1>3, <1>a, <1>d DEF TypeOK
    <3>2. job' \in [Loop -> Job]
      BY <1>3, <1>a, <1>e DEF TypeOK
    <3> QED BY <1>3, <1>a, <3>1, <3>2 DEF TypeOK, Places, NoStride
  <2>2. SizeInBounds'
    <3>1. keys' \in 1..MAX_KEYS_PER_DISPATCH /\ saved' \in 0..MAX_KEYS_PER_DISPATCH
      BY <1>3, <1>c
    <3> QED BY <1>b, <3>1
  <2>3. Serial'
    BY <1>3 DEF Serial, Quiet, TypeOK
  <2>4. BuffersUsable'
    BY <1>3 DEF BuffersUsable, Renewing, Serial, Quiet, TypeOK, DispatchExecuted
  <2>5. TableUploaded'
    BY <1>3 DEF TableUploaded, TypeOK
  <2>6. DispatchExecuted'
    <3>a. \A k \in Loop : job[k] \in Job /\ ~job[k].stale
      BY DEF DispatchExecuted, TypeOK
    <3>b. \/ job' = job /\ pc'[l] = "reacquiring"
          \/ /\ job' = [job EXCEPT ![l] = [@ EXCEPT !.dev = moduleDevice]]
             /\ device' = moduleDevice /\ moduleDevice \in Device
      BY <1>3 DEF TypeOK
    <3>c. \A d \in Device : /\ ~[job[l] EXCEPT !.dev = d].stale
                           /\ [job[l] EXCEPT !.dev = d].dev = d
      BY <1>e, <3>a
    <3>1. \A k \in Loop : ~job'[k].stale
      BY <3>a, <3>b, <3>c DEF TypeOK
    <3>2. \A k \in Loop : pc'[k] # "mapping" /\ (pc'[k] = "compiling" => k = l)
      BY <1>3, <2>q DEF TypeOK, Quiet
    <3>3. pc'[l] = "compiling" => job'[l].dev = device'
      BY <3>b, <3>c DEF TypeOK
    <3> QED BY <3>1, <3>2, <3>3 DEF DispatchExecuted
  <2>7. ReadbackFree'
    BY <1>3, <1>a DEF ReadbackFree, TypeOK, Serial, Quiet
  <2> QED BY <2>1, <2>2, <2>3, <2>4, <2>5, <2>6, <2>7
<1>4. ASSUME NEW l \in Loop, Acquire(l)
     PROVE  SearchInv'
  <2> USE DEF Acquire, InitWebGPU, Fresh
  <2>1. TypeOK'
    <3>1. buffers' \in Buffers
      BY <1>4, <1>a, <1>d DEF TypeOK
    <3>2. job' \in [Loop -> Job]
      BY <1>4, <1>a, <1>e DEF TypeOK
    <3> QED BY <1>4, <1>a, <3>1, <3>2 DEF TypeOK, Places, NoStride
  <2>2. SizeInBounds'
    <3>1. keys' \in 1..MAX_KEYS_PER_DISPATCH /\ saved' \in 0..MAX_KEYS_PER_DISPATCH
      BY <1>4, <1>c
    <3> QED BY <1>b, <3>1
  <2>3. Serial'
    BY <1>4 DEF Serial, Quiet, TypeOK
  <2>4. BuffersUsable'
    BY <1>4 DEF BuffersUsable, Renewing, Serial, Quiet, TypeOK, DispatchExecuted
  <2>5. TableUploaded'
    BY <1>4 DEF TableUploaded, TypeOK
  <2>6. DispatchExecuted'
    BY <1>4, <1>a DEF DispatchExecuted, TypeOK, Serial, Quiet
  <2>7. ReadbackFree'
    BY <1>4, <1>a DEF ReadbackFree, TypeOK, Serial, Quiet
  <2> QED BY <2>1, <2>2, <2>3, <2>4, <2>5, <2>6, <2>7
<1>5. ASSUME NEW l \in Loop, Reacquire(l)
     PROVE  SearchInv'
  <2> USE DEF Reacquire, InitWebGPU, Fresh
  <2>1. TypeOK'
    <3>1. buffers' \in Buffers
      BY <1>5, <1>a, <1>d DEF TypeOK
    <3>2. job' \in [Loop -> Job]
      BY <1>5, <1>a, <1>e DEF TypeOK
    <3> QED BY <1>5, <1>a, <3>1, <3>2 DEF TypeOK, Places, NoStride
  <2>2. SizeInBounds'
    <3>1. keys' \in 1..MAX_KEYS_PER_DISPATCH /\ saved' \in 0..MAX_KEYS_PER_DISPATCH
      BY <1>5, <1>c
    <3> QED BY <1>b, <3>1
  <2>3. Serial'
    BY <1>5 DEF Serial, Quiet, TypeOK
  <2>4. BuffersUsable'
    BY <1>5 DEF BuffersUsable, Renewing, Serial, Quiet, TypeOK, DispatchExecuted
  <2>5. TableUploaded'
    BY <1>5 DEF TableUploaded, TypeOK
  <2>6. DispatchExecuted'
    BY <1>5, <1>a DEF DispatchExecuted, TypeOK, Serial, Quiet
  <2>7. ReadbackFree'
    BY <1>5, <1>a DEF ReadbackFree, TypeOK, Serial, Quiet
  <2> QED BY <2>1, <2>2, <2>3, <2>4, <2>5, <2>6, <2>7
<1>6. ASSUME NEW l \in Loop, Compiled(l)
     PROVE  SearchInv'
  <2> USE DEF Compiled
  <2>q. \A k \in Loop \ {l} : pc[k] \in Quiet /\ pc'[k] = pc[k]
    BY <1>6 DEF Serial, Quiet, TypeOK
  <2>c. job[l].dev \in Device \cup {NoDevice}
    BY <1>6 DEF TypeOK, Job
  <2>1. TypeOK'
    <3>1. buffers' \in Buffers
      BY <1>6, <1>g, <2>c
    <3>2. job' \in [Loop -> Job]
      BY <1>6, <1>a, <1>h DEF TypeOK
    <3> QED BY <1>6, <1>a, <3>1, <3>2 DEF TypeOK, Places, NoStride
  <2>2. SizeInBounds'
    <3>1. keys' \in 1..MAX_KEYS_PER_DISPATCH /\ saved' \in 0..MAX_KEYS_PER_DISPATCH
      BY <1>6, <1>c
    <3> QED BY <1>b, <3>1
  <2>3. Serial'
    BY <1>6 DEF Serial, Quiet, TypeOK
  <2>4. BuffersUsable'
    BY <1>6 DEF BuffersUsable, Renewing, Serial, Quiet, TypeOK, DispatchExecuted
  <2>5. TableUploaded'
    BY <1>6 DEF TableUploaded, TypeOK
  <2>6. DispatchExecuted'
    <3>1. \A k \in Loop : ~job'[k].stale
      BY <1>6, <1>a, <1>h, <2>q DEF DispatchExecuted, TypeOK, Quiet
    <3>2. \A k \in Loop : pc'[k] \notin {"compiling", "mapping"}
      BY <1>6, <2>q DEF TypeOK, Quiet
    <3> QED BY <3>1, <3>2 DEF DispatchExecuted
  <2>7. ReadbackFree'
    BY <1>6, <1>g, <2>c DEF ReadbackFree
  <2> QED BY <2>1, <2>2, <2>3, <2>4, <2>5, <2>6, <2>7
<1>7. ASSUME NEW l \in Loop, SetupFails(l)
     PROVE  SearchInv'
  <2> USE DEF SetupFails
  <2>1. TypeOK'
    <3>1. buffers' \in Buffers
      BY <1>7, <1>a, <1>d DEF TypeOK
    <3>2. job' \in [Loop -> Job]
      BY <1>7, <1>a, <1>e DEF TypeOK
    <3>3. /\ pc' \in [Loop -> Places]
          /\ active' \subseteq Loop
          /\ \A k \in active' : pc'[k] \notin {"idle", "ready", "done", "failed"}
      BY <1>7 DEF TypeOK, Places
    <3>4. losses' \in Nat /\ (running' => losses' <= MAX_RECOVERY_ATTEMPTS) /\ running' \in BOOLEAN
      BY <1>7, <1>a DEF TypeOK
    <3>5. /\ uploaded' \in 0..KEYS_PER_THREAD /\ target' \in KeyRange
          /\ device' \in Device \cup {NoDevice} /\ moduleDevice' \in Device \cup {NoDevice}
          /\ lost' \subseteq Device /\ unreported' \subseteq lost'
      BY <1>7, <1>a DEF TypeOK, NoStride
    <3> QED BY <3>1, <3>2, <3>3, <3>4, <3>5 DEF TypeOK
  <2>2. SizeInBounds'
    <3>1. keys' \in 1..MAX_KEYS_PER_DISPATCH /\ saved' \in 0..MAX_KEYS_PER_DISPATCH
      BY <1>7, <1>c
    <3> QED BY <1>b, <3>1
  <2>3. Serial'
    BY <1>7 DEF Serial, Quiet, TypeOK
  <2>4. BuffersUsable'
    BY <1>7 DEF BuffersUsable, Renewing, Serial, Quiet, TypeOK, DispatchExecuted
  <2>5. TableUploaded'
    BY <1>7 DEF TableUploaded, TypeOK
  <2>6. DispatchExecuted'
    BY <1>7, <1>a DEF DispatchExecuted, TypeOK, Serial, Quiet
  <2>7. ReadbackFree'
    BY <1>7, <1>a DEF ReadbackFree, TypeOK, Serial, Quiet
  <2> QED BY <2>1, <2>2, <2>3, <2>4, <2>5, <2>6, <2>7
<1>8. ASSUME NEW l \in Loop, Dispatch(l)
     PROVE  SearchInv'
  <2> USE DEF Dispatch
  <2>q. \A k \in Loop \ {l} : pc[k] \in Quiet /\ pc'[k] = pc[k]
    BY <1>8 DEF Serial, Quiet, TypeOK
  <2> DEFINE s == KeysPerThread(keys)
             g == Workgroups(keys)
             runs == device = buffers.dev /\ ~buffers.mapping
  <2>a. s \in 1..KEYS_PER_THREAD /\ g \in Nat /\ g * WORKGROUP_SIZE <= TableThreads
    BY <1>c, SizeFacts
  <2>b. PICK chunk \in Int :
          /\ buffers' = [buffers EXCEPT
                !.table = TableAfter(s),
                !.hits = IF runs THEN Scan(target, chunk, TableAfter(s), s, g) ELSE @,
                !.mapping = TRUE]
          /\ job' = [job EXCEPT ![l] =
                [NoJob EXCEPT !.chunk = chunk, !.stride = s, !.groups = g,
                              !.rejects = buffers.mapping]]
    <3>1. ChunkStarts(keys) \subseteq Int
      BY <1>c, CoordinatorAssumption DEF ChunkStarts
    <3>2. PICK c \in ChunkStarts(keys) :
          /\ buffers' = [buffers EXCEPT
                !.table = TableAfter(s),
                !.hits = IF runs
                         THEN Scan(target, IF c = 0 THEN 1 ELSE c, TableAfter(s), s, g)
                         ELSE @,
                !.mapping = TRUE]
          /\ job' = [job EXCEPT ![l] =
                [NoJob EXCEPT !.chunk = IF c = 0 THEN 1 ELSE c, !.stride = s, !.groups = g,
                              !.rejects = buffers.mapping]]
      BY <1>8
    <3>3. (IF c = 0 THEN 1 ELSE c) \in Int
      BY <3>1
    <3> QED BY <3>2, <3>3
  <2>c. TableAfter(s) \in 0..KEYS_PER_THREAD
    BY <1>j, <2>a DEF TableAfter
  <2>d. Scan(target, chunk, TableAfter(s), s, g) \in SUBSET (Nat \X Nat)
    <3>1. g * WORKGROUP_SIZE - 1 \in Int /\ AtMost(KEYS_PER_THREAD, s) - 1 \in Int
      BY <1>a, <2>a, SizeAssumption DEF AtMost
    <3> QED BY <3>1 DEF Scan
  <2> HIDE DEF s, g, runs
  <2>e. /\ pc[l] = "top" /\ pc' = [pc EXCEPT ![l] = "mapping"]
        /\ buffers # NoBuffers /\ uploaded' = s
        /\ UNCHANGED <<target, gpu, device, size, control>>
    BY <1>8 DEF s
  <2>f. /\ buffers'.dev = buffers.dev /\ buffers'.table = TableAfter(s) /\ buffers'.mapping
        /\ buffers'.hits = IF runs THEN Scan(target, chunk, TableAfter(s), s, g) ELSE buffers.hits
        /\ buffers' \in Buffers
    BY <1>j, <2>b, <2>c, <2>d DEF TypeOK, Buffers
  <2>g. /\ job' \in [Loop -> Job]
        /\ \A k \in Loop \ {l} : job'[k] = job[k]
        /\ job'[l].chunk = chunk /\ job'[l].stride = s /\ job'[l].groups = g
        /\ job'[l].rejects = buffers.mapping /\ ~job'[l].stale
    <3> DEFINE j == [NoJob EXCEPT !.chunk = chunk, !.stride = s, !.groups = g,
                                  !.rejects = buffers.mapping]
    <3>0. s \in 0..KEYS_PER_THREAD
      BY <1>a, <2>a
    <3>1. j \in Job
      BY <1>a, <1>j, <2>a, <3>0 DEF NoJob, Job
    <3>2. /\ j.chunk = chunk /\ j.stride = s /\ j.groups = g
          /\ j.rejects = buffers.mapping /\ ~j.stale
      BY DEF NoJob
    <3>3. job' = [job EXCEPT ![l] = j]
      BY <2>b
    <3> HIDE DEF j
    <3> QED BY <3>1, <3>2, <3>3, <1>8 DEF TypeOK
  <2>h. buffers.dev \notin lost => TableAfter(s) = s /\ runs
    BY <2>a, <2>e, <2>q DEF BuffersUsable, TableUploaded, ReadbackFree, TableAfter, runs,
                        NoStride, Quiet
  <2>1. TypeOK'
    <3>1. pc' \in [Loop -> Places] /\ \A k \in active' : pc'[k] \notin {"idle", "ready", "done", "failed"}
      BY <2>e DEF TypeOK, Places
    <3>2. uploaded' \in 0..KEYS_PER_THREAD
      BY <1>a, <2>a, <2>e
    <3> QED BY <2>e, <2>f, <2>g, <3>1, <3>2 DEF TypeOK
  <2>2. SizeInBounds'
    <3>1. keys' \in 1..MAX_KEYS_PER_DISPATCH /\ saved' \in 0..MAX_KEYS_PER_DISPATCH
      BY <1>c, <2>e
    <3> QED BY <1>b, <3>1
  <2>3. Serial'
    BY <2>e, <2>q DEF Serial, Quiet, TypeOK
  <2>4. BuffersUsable'
    BY <2>e, <2>f, <2>q DEF BuffersUsable, Renewing, Quiet, TypeOK
  <2>5. TableUploaded'
    <3>1. buffers' # NoBuffers
      BY <1>a, <2>f
    <3> QED BY <2>e, <2>f, <2>h, <3>1 DEF TableUploaded
  <2>6. DispatchExecuted'
    <3>1. \A k \in Loop : ~job'[k].stale
      BY <2>g DEF DispatchExecuted
    <3>2. \A k \in Loop : pc'[k] # "compiling" /\ (pc'[k] = "mapping" => k = l)
      BY <2>e, <2>q DEF TypeOK, Quiet
    <3>3. \/ buffers'.dev \in lost'
          \/ /\ buffers' # NoBuffers /\ ~job'[l].rejects
             /\ job'[l].stride \in 1..KEYS_PER_THREAD
             /\ job'[l].stride = buffers'.table
             /\ job'[l].groups * WORKGROUP_SIZE <= TableThreads
             /\ buffers'.hits = Scan(target', job'[l].chunk, job'[l].stride, job'[l].stride,
                                     job'[l].groups)
      <4>1. buffers' # NoBuffers
        BY <1>a, <2>f
      <4> QED BY <2>a, <2>e, <2>f, <2>g, <2>h, <4>1 DEF runs
    <3> QED BY <3>1, <3>2, <3>3 DEF DispatchExecuted
  <2>7. ReadbackFree'
    BY <2>e DEF ReadbackFree, TypeOK
  <2> QED BY <2>1, <2>2, <2>3, <2>4, <2>5, <2>6, <2>7
<1>9. ASSUME NEW l \in Loop, Completes(l)
     PROVE  SearchInv'
  <2> USE DEF Completes, Recalibrate
  <2>q. \A k \in Loop \ {l} : pc[k] \in Quiet /\ pc'[k] = pc[k]
    BY <1>9 DEF Serial, Quiet, TypeOK
  <2>1. TypeOK'
    <3>1. buffers' \in Buffers
      BY <1>9, <1>a, <1>d DEF TypeOK
    <3>2. job' \in [Loop -> Job]
      BY <1>9, <1>a, <1>i, <1>j, SMTT(60) DEF TypeOK
    <3> QED BY <1>9, <1>a, <3>1, <3>2 DEF TypeOK, Places, NoStride
  <2>2. SizeInBounds'
    <3>1. keys' \in 1..MAX_KEYS_PER_DISPATCH /\ saved' \in 0..MAX_KEYS_PER_DISPATCH
      BY <1>9, <1>c, SizeStays
    <3> QED BY <1>b, <3>1
  <2>3. Serial'
    BY <1>9 DEF Serial, Quiet, TypeOK
  <2>4. BuffersUsable'
    BY <1>9 DEF BuffersUsable, Renewing, Serial, Quiet, TypeOK, DispatchExecuted
  <2>5. TableUploaded'
    <3>1. buffers.dev \notin lost /\ buffers.table # NoStride
      BY <1>9, <1>a DEF DispatchExecuted, NoStride
    <3>2. /\ buffers'.table = buffers.table /\ buffers'.dev = buffers.dev
          /\ NoBuffers.table = NoStride
      BY <1>9, <1>d DEF TypeOK, NoBuffers
    <3> QED BY <1>9, <3>1, <3>2 DEF TableUploaded
  <2>6. DispatchExecuted'
    <3>1. \A k \in Loop : ~job'[k].stale
      <4>1. \A k \in Loop : ~job[k].stale /\ job[k] \in Job
        BY DEF DispatchExecuted, TypeOK
      <4>2. \/ job' = [job EXCEPT ![l] = NoJob]
            \/ job' = [job EXCEPT ![l] = [@ EXCEPT !.hits = buffers.hits]]
        BY <1>9
      <4>3. ~[job[l] EXCEPT !.hits = buffers.hits].stale
        BY <1>i, <1>j, <4>1
      <4> QED BY <1>a, <4>1, <4>2, <4>3 DEF TypeOK
    <3>2. \A k \in Loop : pc'[k] \notin {"compiling", "mapping"}
      BY <1>9, <2>q DEF TypeOK, Quiet
    <3> QED BY <3>1, <3>2 DEF DispatchExecuted
  <2>7. ReadbackFree'
    BY <1>9, <1>a DEF ReadbackFree, TypeOK, Serial, Quiet
  <2> QED BY <2>1, <2>2, <2>3, <2>4, <2>5, <2>6, <2>7
<1>10. ASSUME NEW l \in Loop, Fails(l)
     PROVE  SearchInv'
  <2> USE DEF Fails, Lose
  <2>1. TypeOK'
    <3>1. buffers' \in Buffers
      BY <1>10, <1>a, <1>d DEF TypeOK
    <3>2. job' \in [Loop -> Job]
      BY <1>10, <1>a, <1>e DEF TypeOK
    <3>3. /\ pc' \in [Loop -> Places]
          /\ active' \subseteq Loop
          /\ \A k \in active' : pc'[k] \notin {"idle", "ready", "done", "failed"}
      BY <1>10 DEF TypeOK, Places
    <3>4. losses' \in Nat /\ (running' => losses' <= MAX_RECOVERY_ATTEMPTS) /\ running' \in BOOLEAN
      <4>1. losses \in Nat /\ losses' = losses + 1 /\ MAX_RECOVERY_ATTEMPTS \in Nat
        BY <1>10, <1>a DEF TypeOK
      <4>2. CASE losses + 1 > MAX_RECOVERY_ATTEMPTS
        <5>1. running' = FALSE
          BY <1>10, <4>2
        <5>2. losses' \in Nat
          BY <4>1
        <5>3. running' \in BOOLEAN /\ ~running'
          BY <5>1
        <5> QED BY <5>2, <5>3
      <4>3. CASE losses + 1 <= MAX_RECOVERY_ATTEMPTS
        <5>1. ~(losses + 1 > MAX_RECOVERY_ATTEMPTS)
          BY <4>1, <4>3
        <5>2. running' = running /\ running \in BOOLEAN
          BY <1>10, <5>1 DEF TypeOK
        <5> QED BY <4>1, <4>3, <5>2
      <4> QED BY <4>1, <4>2, <4>3
    <3>5. /\ uploaded' \in 0..KEYS_PER_THREAD /\ target' \in KeyRange
          /\ device' \in Device \cup {NoDevice} /\ moduleDevice' \in Device \cup {NoDevice}
          /\ lost' \subseteq Device /\ unreported' \subseteq lost'
      BY <1>10, <1>a DEF TypeOK, NoStride
    <3> QED BY <3>1, <3>2, <3>3, <3>4, <3>5 DEF TypeOK
  <2>2. SizeInBounds'
    <3>1. keys' \in 1..MAX_KEYS_PER_DISPATCH /\ saved' \in 0..MAX_KEYS_PER_DISPATCH
      BY <1>10, <1>c, SizeStays
    <3> QED BY <1>b, <3>1
  <2>3. Serial'
    BY <1>10 DEF Serial, Quiet, TypeOK
  <2>4. BuffersUsable'
    BY <1>10 DEF BuffersUsable, Renewing, Serial, Quiet, TypeOK, DispatchExecuted
  <2>5. TableUploaded'
    BY <1>10 DEF TableUploaded, TypeOK
  <2>6. DispatchExecuted'
    BY <1>10, <1>a DEF DispatchExecuted, TypeOK, Serial, Quiet
  <2>7. ReadbackFree'
    BY <1>10, <1>a DEF ReadbackFree, DispatchExecuted, TypeOK, Serial, Quiet
  <2> QED BY <2>1, <2>2, <2>3, <2>4, <2>5, <2>6, <2>7
<1>11. ASSUME NEW l \in Loop, Checked(l)
     PROVE  SearchInv'
  <2> USE DEF Checked, Recalibrate
  <2>1. TypeOK'
    <3>1. buffers' \in Buffers
      BY <1>11, <1>a, <1>d DEF TypeOK
    <3>2. job' \in [Loop -> Job]
      BY <1>11, <1>a, <1>e DEF TypeOK
    <3> QED BY <1>11, <1>a, <3>1, <3>2 DEF TypeOK, Places, NoStride
  <2>2. SizeInBounds'
    <3>1. keys' \in 1..MAX_KEYS_PER_DISPATCH /\ saved' \in 0..MAX_KEYS_PER_DISPATCH
      BY <1>11, <1>c, SizeStays
    <3> QED BY <1>b, <3>1
  <2>3. Serial'
    BY <1>11 DEF Serial, Quiet, TypeOK
  <2>4. BuffersUsable'
    BY <1>11 DEF BuffersUsable, Renewing, Serial, Quiet, TypeOK, DispatchExecuted
  <2>5. TableUploaded'
    BY <1>11 DEF TableUploaded, TypeOK
  <2>6. DispatchExecuted'
    BY <1>11, <1>a DEF DispatchExecuted, TypeOK, Serial, Quiet
  <2>7. ReadbackFree'
    BY <1>11, <1>a DEF ReadbackFree, TypeOK, Serial, Quiet
  <2> QED BY <2>1, <2>2, <2>3, <2>4, <2>5, <2>6, <2>7
<1>12. ASSUME NEW l \in Loop, Ends(l)
     PROVE  SearchInv'
  <2> USE DEF Ends
  <2>1. TypeOK'
    <3>1. buffers' \in Buffers
      BY <1>12, <1>a, <1>d DEF TypeOK
    <3>2. job' \in [Loop -> Job]
      BY <1>12, <1>a, <1>e DEF TypeOK
    <3> QED BY <1>12, <1>a, <3>1, <3>2 DEF TypeOK, Places, NoStride
  <2>2. SizeInBounds'
    <3>1. keys' \in 1..MAX_KEYS_PER_DISPATCH /\ saved' \in 0..MAX_KEYS_PER_DISPATCH
      BY <1>12, <1>c
    <3> QED BY <1>b, <3>1
  <2>3. Serial'
    BY <1>12 DEF Serial, Quiet, TypeOK
  <2>4. BuffersUsable'
    BY <1>12 DEF BuffersUsable, Renewing, Serial, Quiet, TypeOK, DispatchExecuted
  <2>5. TableUploaded'
    BY <1>12 DEF TableUploaded, TypeOK
  <2>6. DispatchExecuted'
    BY <1>12, <1>a DEF DispatchExecuted, TypeOK, Serial, Quiet
  <2>7. ReadbackFree'
    BY <1>12, <1>a DEF ReadbackFree, TypeOK, Serial, Quiet
  <2> QED BY <2>1, <2>2, <2>3, <2>4, <2>5, <2>6, <2>7
<1>13. ASSUME Stop
     PROVE  SearchInv'
  <2> USE DEF Stop
  <2>1. TypeOK'
    <3>1. buffers' \in Buffers
      BY <1>13, <1>a, <1>d DEF TypeOK
    <3>2. job' \in [Loop -> Job]
      BY <1>13, <1>a, <1>e DEF TypeOK
    <3> QED BY <1>13, <1>a, <3>1, <3>2 DEF TypeOK, Places, NoStride
  <2>2. SizeInBounds'
    <3>1. keys' \in 1..MAX_KEYS_PER_DISPATCH /\ saved' \in 0..MAX_KEYS_PER_DISPATCH
      BY <1>13, <1>c
    <3> QED BY <1>b, <3>1
  <2>3. Serial'
    BY <1>13 DEF Serial, Quiet, TypeOK
  <2>4. BuffersUsable'
    BY <1>13 DEF BuffersUsable, Renewing, Serial, Quiet, TypeOK, DispatchExecuted
  <2>5. TableUploaded'
    BY <1>13 DEF TableUploaded, TypeOK
  <2>6. DispatchExecuted'
    BY <1>13, <1>a DEF DispatchExecuted, TypeOK, Serial, Quiet
  <2>7. ReadbackFree'
    BY <1>13, <1>a DEF ReadbackFree, TypeOK, Serial, Quiet
  <2> QED BY <2>1, <2>2, <2>3, <2>4, <2>5, <2>6, <2>7
<1>14. ASSUME NEW d \in Device, LoseDevice(d)
     PROVE  SearchInv'
  <2> USE DEF LoseDevice
  <2>1. TypeOK'
    <3>1. buffers' \in Buffers
      BY <1>14, <1>a, <1>d DEF TypeOK
    <3>2. job' \in [Loop -> Job]
      BY <1>14, <1>a, <1>e DEF TypeOK
    <3> QED BY <1>14, <1>a, <3>1, <3>2 DEF TypeOK, Places, NoStride
  <2>2. SizeInBounds'
    <3>1. keys' \in 1..MAX_KEYS_PER_DISPATCH /\ saved' \in 0..MAX_KEYS_PER_DISPATCH
      BY <1>14, <1>c
    <3> QED BY <1>b, <3>1
  <2>3. Serial'
    BY <1>14 DEF Serial, Quiet, TypeOK
  <2>4. BuffersUsable'
    BY <1>14 DEF BuffersUsable, Renewing, Serial, Quiet, TypeOK, DispatchExecuted
  <2>5. TableUploaded'
    BY <1>14 DEF TableUploaded, TypeOK
  <2>6. DispatchExecuted'
    BY <1>14, <1>a DEF DispatchExecuted, TypeOK, Serial, Quiet
  <2>7. ReadbackFree'
    BY <1>14, <1>a DEF ReadbackFree, TypeOK, Serial, Quiet
  <2> QED BY <2>1, <2>2, <2>3, <2>4, <2>5, <2>6, <2>7
<1>15. ASSUME NEW d \in Device, LostCallback(d)
     PROVE  SearchInv'
  <2> USE DEF LostCallback
  <2>1. TypeOK'
    <3>1. buffers' \in Buffers
      BY <1>15, <1>a, <1>d DEF TypeOK
    <3>2. job' \in [Loop -> Job]
      BY <1>15, <1>a, <1>e DEF TypeOK
    <3> QED BY <1>15, <1>a, <3>1, <3>2 DEF TypeOK, Places, NoStride
  <2>2. SizeInBounds'
    <3>1. keys' \in 1..MAX_KEYS_PER_DISPATCH /\ saved' \in 0..MAX_KEYS_PER_DISPATCH
      BY <1>15, <1>c
    <3> QED BY <1>b, <3>1
  <2>3. Serial'
    BY <1>15 DEF Serial, Quiet, TypeOK
  <2>4. BuffersUsable'
    BY <1>15 DEF BuffersUsable, Renewing, Serial, Quiet, TypeOK, DispatchExecuted
  <2>5. TableUploaded'
    BY <1>15 DEF TableUploaded, TypeOK
  <2>6. DispatchExecuted'
    BY <1>15, <1>a DEF DispatchExecuted, TypeOK, Serial, Quiet
  <2>7. ReadbackFree'
    BY <1>15, <1>a DEF ReadbackFree, TypeOK, Serial, Quiet
  <2> QED BY <2>1, <2>2, <2>3, <2>4, <2>5, <2>6, <2>7
<1>16. ASSUME Reload
     PROVE  SearchInv'
  <2> USE DEF Reload
  <2>1. TypeOK'
    <3>1. buffers' \in Buffers
      BY <1>16, <1>a, <1>d DEF TypeOK
    <3>2. job' \in [Loop -> Job]
      BY <1>16, <1>a, <1>e DEF TypeOK
    <3>3. /\ pc' \in [Loop -> Places]
          /\ active' \subseteq Loop
          /\ \A k \in active' : pc'[k] \notin {"idle", "ready", "done", "failed"}
      BY <1>16 DEF TypeOK, Places
    <3>4. losses' \in Nat /\ (running' => losses' <= MAX_RECOVERY_ATTEMPTS) /\ running' \in BOOLEAN
      BY <1>16, <1>a DEF TypeOK
    <3>5. /\ uploaded' \in 0..KEYS_PER_THREAD /\ target' \in KeyRange
          /\ device' \in Device \cup {NoDevice} /\ moduleDevice' \in Device \cup {NoDevice}
          /\ lost' \subseteq Device /\ unreported' \subseteq lost'
      BY <1>16, <1>a DEF TypeOK, NoStride
    <3> QED BY <3>1, <3>2, <3>3, <3>4, <3>5 DEF TypeOK
  <2>2. SizeInBounds'
    <3>1. keys' \in 1..MAX_KEYS_PER_DISPATCH /\ saved' \in 0..MAX_KEYS_PER_DISPATCH
      BY <1>16, <1>c, RestoredStays
    <3> QED BY <1>b, <3>1
  <2>3. Serial'
    BY <1>16 DEF Serial, Quiet, TypeOK
  <2>4. BuffersUsable'
    BY <1>16 DEF BuffersUsable, Renewing, Serial, Quiet, TypeOK, DispatchExecuted
  <2>5. TableUploaded'
    BY <1>16 DEF TableUploaded, TypeOK
  <2>6. DispatchExecuted'
    BY <1>16, <1>a DEF DispatchExecuted, TypeOK, Serial, Quiet
  <2>7. ReadbackFree'
    BY <1>16, <1>a DEF ReadbackFree, TypeOK, Serial, Quiet
  <2> QED BY <2>1, <2>2, <2>3, <2>4, <2>5, <2>6, <2>7
<1>17. CASE UNCHANGED vars
  BY <1>17 DEF vars, TypeOK, SizeInBounds, Serial, BuffersUsable, TableUploaded,
       DispatchExecuted, ReadbackFree
<1> QED BY <1>1, <1>2, <1>3, <1>4, <1>5, <1>6, <1>7, <1>8, <1>9, <1>10, <1>11, <1>12, <1>13, <1>14, <1>15, <1>16, <1>17 DEF Next, Advance, Environment

-----------------------------------------------------------------------------

\* What the dispatch of a call that reads its results has found: exactly the
\* target, if it is among the keys of the dispatch.
LEMMA DispatchExact ==
    ASSUME SearchInv, NEW l \in Loop, pc[l] = "mapping", buffers.dev \notin lost
    PROVE  {Reconstruct(job[l], h) : h \in buffers.hits}
               = {target} \cap (job[l].chunk ..
                     (job[l].chunk + job[l].groups * WORKGROUP_SIZE * job[l].stride - 1))
<1> DEFINE c == job[l].chunk
           s == job[l].stride
           g == job[l].groups
<1>1. target \in Int /\ c \in Int /\ g \in Nat
  BY CoordinatorAssumption DEF SearchInv, TypeOK, Job, KeyRange
<1>2. /\ s \in 1..KEYS_PER_THREAD /\ g * WORKGROUP_SIZE <= TableThreads
      /\ buffers.hits = Scan(target, c, s, s, g)
  BY DEF SearchInv, DispatchExecuted
<1>3. {Reconstruct(job[l], h) : h \in buffers.hits} = {c + h[1] * s + h[2] : h \in buffers.hits}
  BY DEF Reconstruct
<1> HIDE DEF c, s, g
<1>4. {c + h[1] * s + h[2] : h \in Scan(target, c, s, s, g)}
          = {target} \cap (c .. (c + g * WORKGROUP_SIZE * s - 1))
  BY <1>1, <1>2, ScanExact
<1> QED BY <1>2, <1>3, <1>4 DEF c, s, g

\* Only the completion of its dispatch takes a call from the wait for the
\* readback buffer to the next dispatch or to the check of its candidates.
LEMMA OnlyCompletes ==
    ASSUME SearchInv, [Next]_vars, NEW l \in Loop,
           pc[l] = "mapping", pc'[l] \in {"top", "checking"}
    PROVE  Completes(l)
<1>1. /\ pc \in [Loop -> Places]
      /\ \A k \in Loop : pc[k] \notin Quiet => k = l
  BY DEF SearchInv, TypeOK, Serial, Quiet
<1>2. ~(UNCHANGED pc)
  OBVIOUS
<1>3. PICK k \in Loop : Begin(k) \/ Start(k) \/ Advance(k)
  BY <1>2 DEF Next, Environment, Stop, LoseDevice, LostCallback, Reload, vars
<1>4. ~Begin(k) /\ ~Start(k)
  BY <1>1 DEF Begin, Start, Goto, Quiet
<1>5. k = l
  BY <1>1, <1>3, <1>4 DEF Advance, Setup, Acquire, Reacquire, Compiled, SetupFails, Dispatch,
     Completes, Fails, Checked, Ends, Quiet
<1>6. ~Fails(l)
  BY <1>1 DEF Fails, Lose, Goto
<1> QED BY <1>3, <1>4, <1>5, <1>6 DEF Advance, Setup, Acquire, Reacquire, Compiled,
        SetupFails, Dispatch, Checked, Ends

\* The invariant holds in every state of a search.
THEOREM SearchInvariant == Spec => []SearchInv
<1> QED BY InitSearchInv, NextSearchInv, PTL DEF Spec

\* Type correctness, with the bound on device losses in a row: a call of start()
\* that is still running has not lost more devices than recover allows.
THEOREM SearchTypeCorrect == Spec => []TypeOK
<1>1. SearchInv => TypeOK
  BY DEF SearchInv
<1> QED BY <1>1, SearchInvariant, PTL

\* Whatever is measured, lost or read from localStorage, the size of a dispatch
\* stays within the ceiling, and so within what the offset table resolves.
THEOREM SizeCorrect == Spec => []SizeInBounds
<1>1. SearchInv => SizeInBounds
  BY DEF SearchInv
<1> QED BY <1>1, SearchInvariant, PTL

\* Table, header and reconstruction use one stride, through every calibration,
\* stop, loss and recovery.
THEOREM StridesCorrect == Spec => []StridesAgree
<1>1. SearchInv => StridesAgree
  <2> SUFFICES ASSUME SearchInv, buffers.dev \notin lost
      PROVE  /\ uploaded # NoStride => buffers.table = uploaded /\ device = buffers.dev
             /\ \A l \in Loop : pc[l] = "mapping" => job[l].stride = buffers.table
    BY DEF StridesAgree
  <2>1. uploaded # NoStride => buffers.table = uploaded /\ buffers # NoBuffers
    BY DEF SearchInv, TableUploaded
  <2>2. buffers # NoBuffers => device = buffers.dev
    BY DEF SearchInv, BuffersUsable
  <2>3. \A l \in Loop : pc[l] = "mapping" => job[l].stride = buffers.table
    BY DEF SearchInv, DispatchExecuted
  <2> QED BY <2>1, <2>2, <2>3
<1> QED BY <1>1, SearchInvariant, PTL

\* No key of a dispatch is missed and none is reported that is not the target:
\* the results a call reads are those of the dispatch it has submitted.
THEOREM HitsCorrect == Spec => HitsExact
<1>1. SearchInv /\ [Next]_vars =>
        [\A l \in Loop :
          pc[l] = "mapping" /\ pc'[l] \in {"top", "checking"} =>
              {Reconstruct(job[l], h) : h \in buffers.hits}
                  = {target} \cap (job[l].chunk ..
                        (job[l].chunk + job[l].groups * WORKGROUP_SIZE * job[l].stride - 1))]_vars
  <2> SUFFICES ASSUME SearchInv, [Next]_vars, NEW l \in Loop,
                      pc[l] = "mapping", pc'[l] \in {"top", "checking"}
      PROVE  {Reconstruct(job[l], h) : h \in buffers.hits}
                 = {target} \cap (job[l].chunk ..
                       (job[l].chunk + job[l].groups * WORKGROUP_SIZE * job[l].stride - 1))
    OBVIOUS
  <2>1. Completes(l)
    BY OnlyCompletes
  <2>2. buffers.dev \notin lost
    BY <2>1 DEF Completes
  <2> QED BY <2>2, DispatchExact
<1> QED BY <1>1, SearchInvariant, PTL DEF Spec, HitsExact

-----------------------------------------------------------------------------
(* The page: any number of calls of the start handler                      *)

AtWork == {"setup", "acquiring", "reacquiring", "compiling", "top", "mapping", "checking"}

PageTypes ==
    /\ pc \in [Loop -> Places]
    /\ handler \in [Loop -> {"none", "preflight", "checking", "search"}]
    /\ {running, startDisabled, stopDisabled, timer, rechecked, autostart} \subseteq BOOLEAN
    /\ rechecking \in Nat
    /\ active \subseteq Loop

\* A timer is only set for an autostart, and a re-check is counted.
Counted == (timer => autostart) /\ (rechecking > 0 => rechecked)

\* The coordinator is at work for a handler that has come to it.
HandlerWaits ==
    \A l \in Loop :
        /\ pc[l] # "idle" => handler[l] = "search"
        /\ boot # "ready" => handler[l] = "none"

\* Nothing can be started before the page is ready.
BeforeReady == boot # "ready" => startDisabled /\ ~timer /\ rechecking = 0

Searching ==
    /\ \A l \in Loop : l \in active => pc[l] \in AtWork
    /\ \A l \in Loop : pc[l] \in {"acquiring", "top", "mapping", "checking"} => l \in active
    /\ running => active # {}

\* By the buttons alone a handler disables Start before another can be called.
OneHandler ==
    ButtonsOnly =>
        /\ \A l \in Loop : handler[l] # "none" => startDisabled
        /\ \A k, l \in Loop : handler[k] # "none" /\ handler[l] # "none" => k = l

StopFollows ==
    ButtonsOnly =>
        /\ \A l \in active : ~stopDisabled
        /\ ~stopDisabled => \E l \in Loop : l \in active \/ pc[l] = "done"

PageInv == PageTypes /\ Counted /\ HandlerWaits /\ BeforeReady /\ Searching /\ OneHandler
           /\ StopFollows /\ StartOffered

\* A page that is loading.
LEMMA PageInitInv == PageInit => PageInv
<1> SUFFICES ASSUME PageInit PROVE PageInv
  OBVIOUS
<1>1. PageTypes
  BY DEF PageInit, Init, PageTypes, Places
<1>2. Counted /\ HandlerWaits /\ BeforeReady /\ Searching
  BY DEF PageInit, Init, Counted, HandlerWaits, BeforeReady, Searching, AtWork
<1>3. OneHandler /\ StopFollows /\ StartOffered
  BY DEF PageInit, Init, OneHandler, StopFollows, StartOffered
<1> QED  BY <1>1, <1>2, <1>3 DEF PageInv

\* What a step of the coordinator does for the call of l.
Moves(l) ==
    /\ pc[l] \in AtWork
    /\ \E place \in Places : Goto(l, place)
    /\ UNCHANGED page
    /\ \/ /\ pc'[l] \in AtWork \cup (IF l \in active THEN {} ELSE {"ready", "failed"})
          /\ pc'[l] \in {"acquiring", "top", "mapping", "checking"} => l \in active
          /\ UNCHANGED <<running, active>>
       \/ /\ l \in active /\ active' = active \ {l}
          /\ running' = FALSE
          /\ pc'[l] = "done"

\* A step of the coordinator between two awaits of a call is such a move.
LEMMA CoordinatorMoves ==
    ASSUME PageInv, NEW l \in Loop, (Advance(l) \/ DispatchThrows(l)) /\ UNCHANGED page
    PROVE  Moves(l)
<1> USE DEF PageInv, PageTypes, Searching, AtWork, Places, Moves
<1>1. CASE Setup(l)
  BY <1>1 DEF Setup, Goto, control
<1>2. CASE Acquire(l)
  BY <1>2 DEF Acquire, Goto, control
<1>3. CASE Reacquire(l)
  BY <1>3 DEF Reacquire, Goto, control
<1>4. CASE Compiled(l)
  BY <1>4 DEF Compiled, Goto, control
<1>5. CASE SetupFails(l)
  BY <1>5 DEF SetupFails, Goto
<1>6. CASE Dispatch(l)
  BY <1>6 DEF Dispatch, Goto, control
<1>7. CASE Completes(l)
  BY <1>7 DEF Completes, Goto
<1>8. CASE Fails(l) \/ DispatchThrows(l)
  BY <1>8 DEF Fails, DispatchThrows, Lose, Goto
<1>9. CASE Checked(l)
  BY <1>9 DEF Checked, Goto
<1>10. CASE Ends(l)
  BY <1>10 DEF Ends, Goto
<1> QED
  BY <1>1, <1>2, <1>3, <1>4, <1>5, <1>6, <1>7, <1>8, <1>9, <1>10 DEF Advance

\* Such a step keeps what is said of the page.
LEMMA MovesKeep == ASSUME PageInv, NEW l \in Loop, Moves(l) PROVE PageInv'
<1>1. PageTypes' /\ Counted' /\ BeforeReady' /\ StartOffered'
  BY DEF Moves, Goto, page, buttons, gate, PageInv, PageTypes, Counted, BeforeReady, StartOffered
<1>2. HandlerWaits'
  BY DEF Moves, Goto, AtWork, page, PageInv, PageTypes, HandlerWaits
<1>3. Searching'
  BY DEF Moves, Goto, AtWork, PageInv, PageTypes, Searching
<1>4. OneHandler'
  BY DEF Moves, page, buttons, PageInv, OneHandler, ButtonsOnly
<1>5. StopFollows'
  BY DEF Moves, Goto, AtWork, page, buttons, PageInv, PageTypes, StopFollows, ButtonsOnly
<1> QED  BY <1>1, <1>2, <1>3, <1>4, <1>5 DEF PageInv

\* What only the coordinator changes.
Control == <<pc, running, active>>

\* A click on Start, or the timer, which only an autostart sets.
LEMMA StartKeeps == ASSUME PageInv, NEW l \in Loop, ClickStart(l) \/ AutostartFires(l) PROVE PageInv'
<1>1. /\ handler[l] = "none" /\ handler' = [handler EXCEPT ![l] = "preflight"]
      /\ startDisabled' = TRUE /\ stopDisabled' = TRUE
      /\ UNCHANGED <<Control, autostart, boot, rechecking, rechecked>>
      /\ timer' = timer \/ timer' = FALSE
      /\ ~startDisabled \/ timer
  BY DEF ClickStart, AutostartFires, EnterStart, Handle, vars, control, Control
<1>2. boot = "ready"
  BY <1>1 DEF PageInv, BeforeReady
<1>3. PageTypes'
  BY <1>1 DEF PageInv, PageTypes, Control
<1>4. Counted' /\ HandlerWaits' /\ BeforeReady' /\ Searching' /\ StartOffered'
  BY <1>1, <1>2 DEF PageInv, PageTypes, Counted, HandlerWaits, BeforeReady, Searching, StartOffered, Control
<1>5. OneHandler'
  BY <1>1 DEF PageInv, PageTypes, Counted, OneHandler, ButtonsOnly
<1>6. StopFollows'
  <2> SUFFICES ASSUME ButtonsOnly' PROVE active' = {}
    BY <1>1 DEF StopFollows
  <2>1. \A k \in Loop : handler[k] = "none"
    BY <1>1 DEF PageInv, Counted, OneHandler, ButtonsOnly
  <2> QED  BY <1>1, <2>1 DEF PageInv, PageTypes, HandlerWaits, Searching, AtWork, Control
<1> QED  BY <1>3, <1>4, <1>5, <1>6 DEF PageInv

\* The steps of a handler after its first await.
LEMMA HandlerKeeps == ASSUME PageInv, NEW l \in Loop, HandlerStep(l) PROVE PageInv'
<1> USE DEF PageInv, PageTypes
\* The preflight ends with a pass, stored or just obtained.
<1>1. ASSUME handler[l] \in {"preflight", "checking"}, Proceed(l),
             UNCHANGED <<active, running, startDisabled, stopDisabled, autostart, boot, timer, rechecking, rechecked>>
      PROVE  PageInv'
  <2>1. pc[l] = "idle" /\ boot = "ready" /\ l \notin active
    BY <1>1 DEF HandlerWaits, Searching, AtWork
  <2>2. pc'[l] \in {"ready", "setup"} /\ handler'[l] = "search"
    BY <1>1 DEF Proceed, Goto, Handle
  <2>3. PageTypes' /\ Counted' /\ BeforeReady' /\ StartOffered'
    BY <1>1, <2>2 DEF Proceed, Goto, Handle, Places, Counted, BeforeReady, StartOffered
  <2>4. HandlerWaits'
    BY <1>1, <2>1, <2>2 DEF Proceed, Goto, Handle, HandlerWaits
  <2>5. Searching'
    BY <1>1, <2>1, <2>2 DEF Proceed, Goto, Handle, Searching, AtWork
  <2>6. OneHandler'
    BY <1>1 DEF Proceed, Goto, Handle, OneHandler, ButtonsOnly
  <2>7. StopFollows'
    BY <1>1, <2>1, <2>2 DEF Proceed, Goto, Handle, StopFollows, ButtonsOnly
  <2> QED  BY <2>3, <2>4, <2>5, <2>6, <2>7
<1>2. CASE PreflightStored(l)
  BY <1>1, <1>2 DEF PreflightStored, control, buttons
<1>3. CASE PreflightChecks(l)
  <2>1. boot = "ready" /\ handler' = [handler EXCEPT ![l] = "checking"] /\ handler[l] = "preflight"
    BY <1>3 DEF PreflightChecks, HandlerWaits, Handle
  <2>2. pc[l] = "idle"
    BY <2>1 DEF HandlerWaits
  <2> QED
    BY <1>3, <2>1, <2>2 DEF PreflightChecks, vars, control, Counted, HandlerWaits, BeforeReady,
       Searching, OneHandler, StopFollows, StartOffered, ButtonsOnly
<1>4. ASSUME NEW v \in Ending, PreflightVerdict(l, v) PROVE PageInv'
  <2>1. CASE v = "passed"
    BY <1>1, <1>4, <2>1 DEF PreflightVerdict, control
  <2>2. CASE v # "passed"
    <3>1. /\ handler[l] = "checking" /\ handler' = [handler EXCEPT ![l] = "none"] /\ failed'
          /\ UNCHANGED <<pc, active, running, stopDisabled, autostart, boot, timer, rechecking, rechecked>>
      BY <1>4, <2>2 DEF PreflightVerdict, Verdict, control, Handle
    <3>2. startDisabled' \in BOOLEAN /\ (startDisabled' => startDisabled)
      BY <1>4, Zenon DEF PreflightVerdict
    <3>3. boot = "ready" /\ pc[l] = "idle"
      BY <3>1 DEF HandlerWaits
    <3>4. PageTypes' /\ Counted' /\ HandlerWaits' /\ BeforeReady' /\ Searching' /\ StartOffered'
      BY <3>1, <3>2, <3>3 DEF Counted, HandlerWaits, BeforeReady, Searching, StartOffered
    <3>5. OneHandler' /\ StopFollows'
      BY <3>1, <3>3 DEF OneHandler, StopFollows, ButtonsOnly
    <3> QED  BY <3>4, <3>5
  <2> QED  BY <2>1, <2>2
\* The handler ends: by the buttons alone nothing is at work after that.
<1>5. ASSUME handler[l] = "search", pc[l] \in {"failed", "done"}, Handle(l, "none"), Goto(l, "idle"),
             startDisabled' = FALSE, stopDisabled' \in BOOLEAN, stopDisabled => stopDisabled',
             pc[l] = "done" => stopDisabled',
             active' = active, running' \in BOOLEAN, running' => running,
             UNCHANGED <<autostart, boot, timer, rechecking, rechecked>>
      PROVE  PageInv'
  <2>1. boot = "ready"
    BY <1>5 DEF HandlerWaits
  <2>2. PageTypes' /\ Counted' /\ BeforeReady' /\ StartOffered'
    BY <1>5, <2>1 DEF Handle, Goto, Places, Counted, BeforeReady, StartOffered
  <2>3. HandlerWaits'
    BY <1>5, <2>1 DEF Handle, Goto, HandlerWaits
  <2>4. Searching'
    BY <1>5 DEF Goto, Searching, AtWork
  <2>5. ASSUME ButtonsOnly PROVE \A k \in Loop : k # l => handler[k] = "none" /\ pc[k] = "idle"
    BY <1>5, <2>5 DEF OneHandler, HandlerWaits
  <2>6. OneHandler'
    BY <1>5, <2>5 DEF Handle, OneHandler, ButtonsOnly
  <2>7. StopFollows'
    <3> SUFFICES ASSUME ButtonsOnly PROVE active' = {} /\ stopDisabled'
      BY <1>5 DEF StopFollows, ButtonsOnly
    <3>1. active = {}
      BY <1>5, <2>5 DEF Searching, AtWork
    <3>2. pc[l] = "failed" => stopDisabled
      BY <1>5, <2>5, <3>1 DEF StopFollows
    <3> QED  BY <1>5, <3>1, <3>2
  <2> QED  BY <2>2, <2>3, <2>4, <2>6, <2>7
<1>6. CASE SetupThrew(l)
  BY <1>5, <1>6 DEF SetupThrew
<1>7. CASE StartReturned(l)
  BY <1>5, <1>7 DEF StartReturned, control
<1>8. CASE CallStart(l)
  <2>1. /\ pc[l] = "ready" /\ pc' = [pc EXCEPT ![l] = IF running THEN "done" ELSE "top"]
        /\ running' = TRUE /\ active' = IF running THEN active ELSE active \cup {l}
        /\ stopDisabled' = FALSE
        /\ UNCHANGED <<autostart, startDisabled, handler, boot, timer, rechecking, rechecked, failed>>
    BY <1>8 DEF CallStart, Start, StartReturns, Goto, control, gate
  <2>2. PageTypes' /\ Counted' /\ BeforeReady' /\ StartOffered'
    BY <2>1 DEF Places, Counted, BeforeReady, StartOffered
  <2>3. HandlerWaits' /\ OneHandler'
    BY <2>1 DEF HandlerWaits, OneHandler, ButtonsOnly
  <2>4. Searching'
    BY <2>1 DEF Searching, AtWork
  <2>5. StopFollows'
    BY <2>1 DEF Searching, AtWork, StopFollows, ButtonsOnly
  <2> QED  BY <2>2, <2>3, <2>4, <2>5
<1>9. CASE (Advance(l) \/ DispatchThrows(l)) /\ UNCHANGED page
  BY <1>9, CoordinatorMoves, MovesKeep
<1> QED
  BY <1>2, <1>3, <1>4, <1>6, <1>7, <1>8, <1>9 DEF HandlerStep

\* Every step keeps the invariant.
LEMMA StepKeeps == PageInv /\ [PageNext]_pageVars => PageInv'
<1> SUFFICES ASSUME PageInv, [PageNext]_pageVars PROVE PageInv'
  OBVIOUS
<1>1. CASE Boot
  BY <1>1 DEF Boot, vars, control, gate, PageInv, PageTypes, Counted, HandlerWaits, BeforeReady,
              Searching, OneHandler, StopFollows, StartOffered, ButtonsOnly
<1>2. ASSUME NEW v \in Ending, Booted(v) PROVE PageInv'
  <2>1. /\ boot = "checking" /\ boot' \in {"ready", "broken"} /\ (boot' = "broken" => v # "passed" /\ ~timer')
        /\ startDisabled' = (v # "passed") /\ failed' = (v # "passed") /\ (timer' => autostart)
        /\ UNCHANGED <<running, active, pc, autostart, stopDisabled, handler, rechecking, rechecked>>
    BY <1>2 DEF Booted, Verdict, control, Ending
  <2>2. timer' \in BOOLEAN /\ startDisabled' \in BOOLEAN
    BY <1>2, <2>1, Zenon DEF Booted
  <2>3. PageTypes'
    BY <2>1, <2>2 DEF PageInv, PageTypes
  <2>4. Counted' /\ HandlerWaits' /\ BeforeReady' /\ Searching' /\ StartOffered'
    BY <2>1 DEF PageInv, Counted, HandlerWaits, BeforeReady, Searching, StartOffered
  <2>5. OneHandler' /\ StopFollows'
    BY <2>1 DEF PageInv, HandlerWaits, OneHandler, StopFollows, ButtonsOnly
  <2> QED  BY <2>3, <2>4, <2>5 DEF PageInv
<1>3. ASSUME NEW v \in Ending, Rechecked(v) PROVE PageInv'
  <2>1. /\ rechecking > 0 /\ rechecking' = rechecking - 1
        /\ startDisabled' = (startDisabled /\ v # "passed") /\ failed' = (v # "passed")
        /\ UNCHANGED <<running, active, pc, autostart, stopDisabled, handler, boot, timer, rechecked>>
    BY <1>3 DEF Rechecked, Verdict, control
  <2>2. boot = "ready" /\ ~ButtonsOnly /\ ~ButtonsOnly' /\ rechecking' \in Nat
    BY <2>1 DEF PageInv, PageTypes, Counted, BeforeReady, ButtonsOnly
  <2>3. startDisabled' \in BOOLEAN /\ (~startDisabled' \/ failed')
    BY <2>1, Zenon DEF PageInv, PageTypes
  <2>4. PageTypes'
    BY <2>1, <2>2, <2>3 DEF PageInv, PageTypes
  <2>5. Counted' /\ HandlerWaits' /\ BeforeReady' /\ Searching'
    BY <2>1, <2>2 DEF PageInv, PageTypes, Counted, HandlerWaits, BeforeReady, Searching
  <2>6. OneHandler' /\ StopFollows'
    BY <2>2 DEF OneHandler, StopFollows
  <2>7. StartOffered'
    BY <2>3, Zenon DEF StartOffered
  <2> QED  BY <2>4, <2>5, <2>6, <2>7 DEF PageInv
<1>4. ASSUME NEW l \in Loop, ClickStart(l) \/ AutostartFires(l) PROVE PageInv'
  BY <1>4, StartKeeps
<1>5. ASSUME NEW l \in Loop, HandlerStep(l) PROVE PageInv'
  BY <1>5, HandlerKeeps
<1>6. CASE ClickStop
  BY <1>6 DEF ClickStop, Stop, page, buttons, gate, PageInv, PageTypes, Counted, HandlerWaits, BeforeReady,
              Searching, OneHandler, StopFollows, StartOffered, ButtonsOnly
<1>7. CASE ClickRecheck
  BY <1>7 DEF ClickRecheck, vars, control, gate, PageInv, PageTypes, Counted, HandlerWaits, BeforeReady,
              Searching, OneHandler, StopFollows, StartOffered, ButtonsOnly
<1>8. CASE Environment /\ UNCHANGED page
  BY <1>8 DEF Environment, LoseDevice, LostCallback, control, page, buttons, gate, PageInv, PageTypes, Counted,
              HandlerWaits, BeforeReady, Searching, OneHandler, StopFollows, StartOffered, ButtonsOnly
<1>9. CASE ReloadPage
  <2>1. /\ startDisabled' /\ stopDisabled' /\ ~timer' /\ ~running' /\ active' = {}
        /\ boot' = "start" /\ rechecking' = 0 /\ ~rechecked' /\ autostart' = autostart
        /\ handler' = [l \in Loop |-> "none"] /\ pc' = [l \in Loop |-> "idle"]
    BY <1>9 DEF ReloadPage, Reload
  <2>2. {running, startDisabled, stopDisabled, timer, rechecked, autostart}' \subseteq BOOLEAN
    BY <1>9, Zenon DEF ReloadPage, Reload, PageInv, PageTypes
  <2>3. PageTypes'
    BY <2>1, <2>2 DEF PageInv, PageTypes, Places
  <2>4. Counted' /\ HandlerWaits' /\ BeforeReady' /\ Searching' /\ StartOffered'
    BY <2>1 DEF Counted, HandlerWaits, BeforeReady, Searching, AtWork, StartOffered
  <2>5. OneHandler' /\ StopFollows'
    BY <2>1 DEF OneHandler, StopFollows, ButtonsOnly
  <2> QED  BY <2>3, <2>4, <2>5 DEF PageInv
<1>10. CASE UNCHANGED pageVars
  BY <1>10 DEF pageVars, vars, control, page, buttons, gate, PageInv, PageTypes, Counted, HandlerWaits,
               BeforeReady, Searching, OneHandler, StopFollows, StartOffered, ButtonsOnly
<1> QED
  BY <1>1, <1>2, <1>3, <1>4, <1>5, <1>6, <1>7, <1>8, <1>9, <1>10 DEF PageNext

\* The invariant of the page.
THEOREM PageCorrect == PageSpec => []PageInv
<1> QED  BY PageInitInv, StepKeeps, PTL DEF PageSpec

\* Without an autostart and a re-check at most one call of the handler uses the
\* coordinator, through any number of clicks, losses, failed set-ups and loads.
THEOREM OneSearchCorrect == PageSpec => []OneSearch
<1>1. PageInv => OneSearch
  <2> SUFFICES ASSUME PageInv, ButtonsOnly PROVE Cardinality(Busy) <= 1
    BY DEF OneSearch
  <2>1. \A k, l \in Busy : k = l
    BY DEF PageInv, HandlerWaits, OneHandler, Busy
  <2>2. CASE Busy = {}
    BY <2>2, FS_EmptySet
  <2>3. ASSUME NEW l \in Busy PROVE Cardinality(Busy) <= 1
    <3>1. Busy = {l}
      BY <2>1
    <3> QED  BY <3>1, FS_Singleton
  <2> QED  BY <2>2, <2>3
<1> QED  BY <1>1, PageCorrect, PTL

\* Under the same condition Stop is offered exactly while a search can be stopped.
THEOREM StopCorrect == PageSpec => []StopAvailable
<1>1. PageInv => StopAvailable
  BY DEF PageInv, StopFollows, StopAvailable, StopMatchesSearch, PageTypes
<1> QED  BY <1>1, PageCorrect, PTL

\* However clicks, timers, checks and any number of overlapping re-checks interleave,
\* Start is offered again when nothing is in progress, unless the check that ended
\* last did not pass or could not store its pass.
THEOREM StartCorrect == PageSpec => []StartOffered
<1>1. PageInv => StartOffered
  BY DEF PageInv
<1> QED  BY <1>1, PageCorrect, PTL

\* The sizes, which need no discipline of the callers.
Sizes == keys \in 1..MAX_KEYS_PER_DISPATCH /\ saved \in 0..MAX_KEYS_PER_DISPATCH

\* What a step does to them.
Resized ==
    \/ UNCHANGED size
    \/ Recalibrate
    \/ keys' = Shrunk(keys) /\ saved' = Shrunk(keys)
    \/ keys' = Restored(saved) /\ UNCHANGED saved

\* The rules for the next size keep it within the bounds.
LEMMA ResizedKeeps == Sizes /\ Resized => Sizes'
BY SizeStays, RestoredStays DEF Sizes, Resized, Recalibrate, size

\* Every step of the page and of the calls of its handler.
LEMMA StepResizes == [PageNext]_pageVars => Resized
<1>1. ASSUME NEW l \in Loop, Advance(l) \/ DispatchThrows(l) PROVE Resized
  BY <1>1 DEF Advance, DispatchThrows, Setup, Acquire, Reacquire, Compiled, SetupFails, Dispatch,
              Completes, Fails, Lose, Checked, Ends, Resized, size
<1>2. ASSUME NEW l \in Loop, HandlerStep(l) PROVE Resized
  <2>1. CASE PreflightStored(l) \/ PreflightChecks(l) \/ \E v \in Ending : PreflightVerdict(l, v)
    BY <2>1 DEF PreflightStored, PreflightChecks, PreflightVerdict, vars, Resized, size
  <2>2. CASE SetupThrew(l)
    BY <2>2 DEF SetupThrew, Resized
  <2>3. CASE CallStart(l) \/ StartReturned(l)
    BY <2>3 DEF CallStart, Start, StartReturns, StartReturned, Resized, size
  <2> QED  BY <1>1, <1>2, <2>1, <2>2, <2>3 DEF HandlerStep
<1>3. ASSUME NEW v \in Ending, Booted(v) \/ Rechecked(v) PROVE Resized
  BY <1>3 DEF Booted, Rechecked, Resized, size
<1>4. ASSUME NEW l \in Loop, ClickStart(l) \/ AutostartFires(l) PROVE Resized
  BY <1>4 DEF ClickStart, AutostartFires, EnterStart, vars, Resized, size
<1>5. CASE Boot \/ ClickStop \/ ClickRecheck
  BY <1>5 DEF Boot, ClickStop, Stop, ClickRecheck, vars, Resized, size
<1>6. CASE Environment /\ UNCHANGED page
  BY <1>6 DEF Environment, LoseDevice, LostCallback, Resized, size
<1>7. CASE ReloadPage
  BY <1>7 DEF ReloadPage, Reload, Resized
<1>8. CASE UNCHANGED pageVars
  BY <1>8 DEF pageVars, vars, Resized, size
<1> QED  BY <1>2, <1>3, <1>4, <1>5, <1>6, <1>7, <1>8 DEF PageNext

\* Also when calls of the handler overlap, by an autostart or a re-check, no
\* dispatch is larger than the offset table can tell apart.
THEOREM PageSizeCorrect == PageSpec => []SizeInBounds
<1>1. PageInit => Sizes
  BY RestoredStays, SizeAssumption DEF PageInit, Init, Sizes
<1>2. Sizes => SizeInBounds
  <2> SUFFICES ASSUME Sizes PROVE SizeInBounds
    OBVIOUS
  <2> QED  BY SizeFacts DEF Sizes, SizeInBounds
<1> QED  BY <1>1, <1>2, ResizedKeeps, StepResizes, PTL DEF PageSpec
=============================================================================
