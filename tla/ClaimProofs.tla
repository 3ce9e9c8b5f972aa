----------------------------- MODULE ClaimProofs -----------------------------
(***************************************************************************)
(* Proofs about claims: the amounts of both variants, and the invariants   *)
(* of the pipeline and its queue, for every number of hits and drains.     *)
(***************************************************************************)
EXTENDS Claim, TLAPS

USE AmountsAssumption, QueueAssumption, ClaimAssumption

-----------------------------------------------------------------------------
(* Amounts.                                                                *)

\* A transaction has a positive size.
LEMMA VbytesPositive ==
    ASSUME NEW n \in Nat, NEW o \in Nat
    PROVE  estimateVbytes(n, o) \in Nat \ {0}
<1>1. n * P2PKH_INPUT_VBYTES \in Nat /\ o * OUTPUT_VBYTES \in Nat
    OBVIOUS
<1> QED  BY <1>1 DEF estimateVbytes

\* The fees are natural numbers.
LEMMA FeesNatural ==
    ASSUME NEW n \in Nat, NEW o \in Nat, NEW r \in Nat
    PROVE  StandardFee(n, o) \in Nat /\ ShieldFee(n, o, r) \in Nat
<1>1. estimateVbytes(n, o) \in Nat
    BY VbytesPositive
<1> DEFINE v == estimateVbytes(n, o)
<1>2. v \in Nat
    BY <1>1
<1> HIDE DEF v
<1>3. v * FEE_RATE_SAT_PER_VB \in Nat /\ r * v \in Nat
    BY <1>2
<1> QED  BY <1>3 DEF StandardFee, ShieldFee, v

\* An output costs a fee of its own.
LEMMA OutputsCost ==
    ASSUME NEW n \in Nat, NEW r \in Nat
    PROVE  /\ StandardFee(n, 1) <= StandardFee(n, 2)
           /\ ShieldFee(n, 2, r) <= ShieldFee(n, 3, r)
<1> DEFINE v1 == estimateVbytes(n, 1)
           v2 == estimateVbytes(n, 2)
           v3 == estimateVbytes(n, 3)
<1>1. v1 \in Nat /\ v2 \in Nat /\ v3 \in Nat
    BY VbytesPositive
<1>2. n * P2PKH_INPUT_VBYTES \in Nat
    OBVIOUS
<1>3. v1 <= v2 /\ v2 <= v3
    BY <1>2 DEF estimateVbytes
<1> HIDE DEF v1, v2, v3
<1>4. PICK d1 \in Nat, d2 \in Nat : v2 = v1 + d1 /\ v3 = v2 + d2
    <2>1. v2 - v1 \in Nat /\ v3 - v2 \in Nat
        BY <1>1, <1>3
    <2> QED  BY <1>1, <2>1
<1>5. v2 * FEE_RATE_SAT_PER_VB = v1 * FEE_RATE_SAT_PER_VB + d1 * FEE_RATE_SAT_PER_VB
    BY <1>1, <1>4
<1>6. r * v3 = r * v2 + r * d2
    BY <1>1, <1>4
<1>7. d1 * FEE_RATE_SAT_PER_VB \in Nat /\ r * d2 \in Nat
    BY <1>4
<1>8. v1 * FEE_RATE_SAT_PER_VB \in Nat /\ r * v2 \in Nat
    BY <1>1
<1>9. v1 * FEE_RATE_SAT_PER_VB <= v2 * FEE_RATE_SAT_PER_VB /\ r * v2 <= r * v3
    BY <1>5, <1>6, <1>7, <1>8
<1> QED  BY <1>9 DEF StandardFee, ShieldFee, v1, v2, v3

\* The standard variant, when it is built, divides its inputs without remainder
\* and pays at least the fixed fee rate (buildSignedTx of prize-claim.js).
THEOREM StandardSplits ==
    ASSUME NEW total \in Nat, NEW n \in Nat, buildSignedTx(total, n) # NoTx
    PROVE  /\ Splits(buildSignedTx(total, n), total)
           /\ PaysStandardRate(buildSignedTx(total, n), n)
<1> DEFINE f1 == StandardFee(n, 1)
           f2 == StandardFee(n, 2)
           tx == buildSignedTx(total, n)
           dev == total - f2 - USER_PAYOUT_SATS
<1>1. f1 \in Nat /\ f2 \in Nat /\ f1 <= f2
    BY FeesNatural, OutputsCost
<1>2. total >= USER_PAYOUT_SATS + f1
    BY <1>1 DEF buildSignedTx
<1>3. CASE dev <= DEV_DUST_LIMIT_SATS
    <2>1. tx = [user |-> USER_PAYOUT_SATS, dev |-> 0, shield |-> 0, fee |-> total - USER_PAYOUT_SATS]
        BY <1>1, <1>2, <1>3 DEF buildSignedTx
    <2> HIDE DEF f1, f2, tx
    <2>2. total - USER_PAYOUT_SATS \in Nat /\ total - USER_PAYOUT_SATS >= f1
        BY <1>1, <1>2
    <2>3. Splits(tx, total) /\ tx.fee >= f1 /\ tx.dev = 0
        BY <2>1, <2>2 DEF Splits, Tx
    <2> QED  BY <2>3 DEF PaysStandardRate, f1, tx
<1>4. CASE ~(dev <= DEV_DUST_LIMIT_SATS)
    <2>1. tx = [user |-> USER_PAYOUT_SATS, dev |-> dev, shield |-> 0, fee |-> f2]
        BY <1>1, <1>2, <1>4 DEF buildSignedTx
    <2> HIDE DEF f1, f2, tx
    <2>2. dev \in Nat /\ dev > DEV_DUST_LIMIT_SATS /\ dev # 0
        BY <1>1, <1>4
    <2>3. Splits(tx, total) /\ tx.fee >= f2 /\ tx.dev # 0
        BY <1>1, <2>1, <2>2 DEF Splits, Tx
    <2> QED  BY <2>3 DEF PaysStandardRate, f2, tx
<1> QED  BY <1>3, <1>4

\* So does the shield variant, whose fee is an output for the pool; a fee is
\* left to the miner only when the developer's output was dropped.
THEOREM ShieldSplits ==
    ASSUME NEW total \in Nat, NEW n \in Nat, NEW r \in Nat, buildShieldTx(total, n, r) # NoTx
    PROVE  /\ Splits(buildShieldTx(total, n, r), total)
           /\ PaysShieldRate(buildShieldTx(total, n, r), n, r)
<1> DEFINE f2 == ShieldFee(n, 2, r)
           f3 == ShieldFee(n, 3, r)
           tx == buildShieldTx(total, n, r)
           dev == total - USER_PAYOUT_SATS - f3
           rest == total - USER_PAYOUT_SATS - f2
<1>1. f2 \in Nat /\ f3 \in Nat
    BY FeesNatural
<1>2. CASE dev <= DEV_DUST_LIMIT_SATS
    <2>1. /\ tx = [user |-> USER_PAYOUT_SATS, dev |-> 0, shield |-> f2, fee |-> rest]
          /\ ~(rest < 0)
        BY <1>1, <1>2 DEF buildShieldTx
    <2> HIDE DEF f2, f3, tx
    <2>2. rest \in Nat /\ USER_PAYOUT_SATS + f2 + rest = total
        BY <1>1, <2>1
    <2> HIDE DEF rest
    <2>3. Splits(tx, total) /\ tx.shield = f2 /\ tx.dev = 0
        BY <1>1, <2>1, <2>2 DEF Splits, Tx
    <2> QED  BY <2>3 DEF PaysShieldRate, f2, tx
<1>3. CASE ~(dev <= DEV_DUST_LIMIT_SATS)
    <2>1. tx = [user |-> USER_PAYOUT_SATS, dev |-> dev, shield |-> f3, fee |-> 0]
        BY <1>1, <1>3 DEF buildShieldTx
    <2> HIDE DEF f2, f3, tx
    <2>2. dev \in Nat /\ dev > DEV_DUST_LIMIT_SATS /\ dev # 0
        BY <1>1, <1>3
    <2>3. Splits(tx, total) /\ tx.shield = f3 /\ tx.dev # 0 /\ tx.fee = 0
        BY <1>1, <2>1, <2>2 DEF Splits, Tx
    <2> QED  BY <2>3 DEF PaysShieldRate, f3, tx
<1> QED  BY <1>2, <1>3
-----------------------------------------------------------------------------
(* The pipeline and its queue.                                             *)

LEMMA TxTyped == NoTx \in Tx
BY DEF NoTx, Tx

\* What a builder returns is a transaction or none.
LEMMA BuiltTyped ==
    ASSUME NEW total \in Nat, NEW n \in Nat, NEW r \in Nat
    PROVE  buildSignedTx(total, n) \in Tx /\ buildShieldTx(total, n, r) \in Tx
BY TxTyped, StandardSplits, ShieldSplits DEF Splits

LEMMA InitInv == Init => IInv
<1> SUFFICES ASSUME Init PROVE IInv
    OBVIOUS
<1> USE TxTyped DEF Init, QueueInit, NoRun, NoAttempt, NoDrain
<1>1. TypeOK
    BY DEF TypeOK, QueueTypeOK, Run, Banner, NotTold
<1>2. AmountsAddUp
    BY DEF AmountsAddUp
<1>3. Fresh /\ OnlyQueuedDrain /\ DrainsSound /\ AttemptsRecorded
    BY DEF Fresh, OnlyQueuedDrain, DrainsSound, AttemptsRecorded
<1>4. ToldAsItWas /\ MarkedWereAcknowledged
    BY DEF ToldAsItWas, MarkedWereAcknowledged, NotTold
<1> QED  BY <1>1, <1>2, <1>3, <1>4 DEF IInv

\* The search reports a key.
LEMMA HitInv ==
    ASSUME IInv, NEW c \in Claim, NEW value \in Inputs, Hit(c, value)
    PROVE  IInv'
<1> DEFINE started == [NoRun EXCEPT !.hit = c, !.total = value, !.stage = "import"]
<1>0. value \in Nat /\ c # None /\ c \notin found /\ found' = found \cup {c} /\ run.hit = None
    BY DEF IInv, TypeOK, Hit
<1>1. /\ started \in Run /\ NoRun \in Run
      /\ started.hit = c /\ started.stage = "import" /\ started.pools = NoAttempt
      /\ started.standard = NoTx /\ started.shield = NoTx
      /\ NoRun.hit = None /\ NoRun.stage = "idle" /\ NoRun.pools = NoAttempt
      /\ NoRun.standard = NoTx /\ NoRun.shield = NoTx
    BY <1>0, TxTyped DEF NoRun, NoAttempt, Run
<1> HIDE DEF started
<1>2. \/ run' = started /\ told' = told
      \/ run' = NoRun /\ told' = [told EXCEPT ![c] = "no snapshot"]
    BY DEF Hit, Tell, started
<1>3. keys' = (IF storageWorks THEN keys \cup {c} ELSE keys) /\ storageWorks' = storageWorks
    BY DEF Hit, saveRecoveredKey
<1>4. UNCHANGED <<online, pending, wrapped, shieldSubmitted, drains, idleCallback,
                  acknowledged, relayed, reloads>>
    BY DEF Hit, queueVars, storage, world
<1>5. told \in [Claim -> Banner \cup {NotTold}] /\ told[c] = NotTold /\ acknowledged[c] = 0
    BY <1>0 DEF IInv, TypeOK, Fresh
<1>6. TypeOK'
    BY <1>0, <1>1, <1>2, <1>3, <1>4 DEF IInv, TypeOK, QueueTypeOK, Banner
<1>7. AmountsAddUp'
    BY <1>1, <1>2 DEF AmountsAddUp, NoAttempt
<1>8. Fresh'
    BY <1>0, <1>1, <1>2, <1>4, <1>5 DEF IInv, Fresh
<1>9. OnlyQueuedDrain'
    BY <1>2, <1>4, <1>5 DEF IInv, OnlyQueuedDrain, NotTold, TypeOK, QueueTypeOK
<1>10. DrainsSound'
    BY <1>4 DEF IInv, DrainsSound
<1>11. AttemptsRecorded'
    <2>1. CASE run' = NoRun
        BY <1>1, <2>1 DEF AttemptsRecorded
    <2>2. CASE run' = started
        <3>1. \A p \in DOMAIN run'.pools : run'.pools[p] = "failed"
            BY <1>1, <2>2 DEF NoAttempt
        <3>2. ~(acknowledged'[run'.hit] > 0)
            BY <1>1, <1>4, <1>5, <2>2
        <3> QED  BY <3>1, <3>2 DEF AttemptsRecorded, Tier1Ok
    <2> QED  BY <1>2, <2>1, <2>2
<1>12. ToldAsItWas'
    BY <1>2, <1>4, <1>5 DEF IInv, ToldAsItWas
<1>13. MarkedWereAcknowledged'
    BY <1>4 DEF IInv, MarkedWereAcknowledged
<1> QED  BY <1>6, <1>7, <1>8, <1>9, <1>10, <1>11, <1>12, <1>13 DEF IInv

\* A run of runClaim that goes on without telling the finder anything: the
\* obligations are those of its local variables and of the pools' answers.
LEMMA RunGoesOn ==
    ASSUME IInv, run.hit # None, run'.hit = run.hit, run' \in Run, run'.stage # "idle",
           run'.stage = "import" => run'.pools = NoAttempt,
           UNCHANGED <<claimVars, online, storage, drains, idleCallback, relayed, reloads>>,
           AmountsAddUp',
           acknowledged' \in [Claim -> 0 .. 2],
           \A c \in Claim : acknowledged'[c] >= acknowledged[c],
           \A c \in Claim \ {run.hit} : acknowledged'[c] = acknowledged[c],
           Tier1Ok' <=> acknowledged'[run.hit] > 0
    PROVE  IInv'
<1>0. run.hit \in Claim /\ run.hit \in found /\ told[run.hit] = NotTold
      /\ acknowledged \in [Claim -> 0 .. 2]
    BY DEF IInv, Fresh, TypeOK, Run, QueueTypeOK
<1>1. TypeOK'
    BY DEF IInv, TypeOK, QueueTypeOK, claimVars, storage
<1>2. AmountsAddUp'
    BY DEF IInv, claimVars
<1>3. Fresh'
    BY <1>0 DEF IInv, Fresh, claimVars
<1>4. OnlyQueuedDrain'
    BY DEF IInv, OnlyQueuedDrain, claimVars, storage
<1>5. DrainsSound'
    <2> SUFFICES ASSUME NEW d \in Drain, NEW c \in drains[d].accepted
                 PROVE  acknowledged'[c] > 0
        BY DEF IInv, DrainsSound, storage
    <2>1. c \in Claim /\ acknowledged[c] > 0
        BY DEF IInv, DrainsSound, TypeOK, QueueTypeOK
    <2> QED  BY <1>0, <2>1
<1>6. AttemptsRecorded'
    BY DEF AttemptsRecorded
<1>7. ToldAsItWas'
    <2> SUFFICES ASSUME NEW c \in Claim
                 PROVE  /\ told[c] = "submitted" => acknowledged'[c] > 0
                        /\ told[c] = "unconfirmed" => acknowledged'[c] = 0
                        /\ told[c] = "queued" => c \in pending \cup relayed
        BY DEF ToldAsItWas, claimVars, storage
    <2>1. CASE c = run.hit
        BY <1>0, <2>1 DEF NotTold
    <2>2. CASE c # run.hit
        BY <2>2 DEF IInv, ToldAsItWas
    <2> QED  BY <2>1, <2>2
<1>8. MarkedWereAcknowledged'
    <2> SUFFICES ASSUME NEW c \in shieldSubmitted
                 PROVE  acknowledged'[c] > 0
        BY DEF MarkedWereAcknowledged, storage
    <2>1. c \in Claim /\ acknowledged[c] > 0
        BY DEF IInv, MarkedWereAcknowledged, TypeOK, QueueTypeOK
    <2> QED  BY <1>0, <2>1
<1> QED  BY <1>1, <1>2, <1>3, <1>4, <1>5, <1>6, <1>7, <1>8 DEF IInv

\* A run of runClaim that ends with a banner, or throws without one.
LEMMA RunEnds ==
    ASSUME IInv, run.hit # None, run' = NoRun,
           NEW banner \in Banner \cup {NotTold}, told' = [told EXCEPT ![run.hit] = banner],
           UNCHANGED <<storageWorks, keys, found, online, drains, idleCallback,
                       acknowledged, reloads>>,
           relayed \subseteq relayed', relayed' \subseteq Claim,
           wrapped' \subseteq Claim, shieldSubmitted' = shieldSubmitted,
           pending' = IF banner = "queued" THEN pending \cup {run.hit} ELSE pending,
           banner = "submitted" => Tier1Ok,
           banner = "unconfirmed" => ~Tier1Ok
    PROVE  IInv'
<1>0. /\ run.hit \in Claim /\ run.hit \in found /\ told[run.hit] = NotTold
      /\ acknowledged \in [Claim -> 0 .. 2] /\ told \in [Claim -> Banner \cup {NotTold}]
      /\ Tier1Ok <=> acknowledged[run.hit] > 0
    BY DEF IInv, Fresh, TypeOK, Run, QueueTypeOK, AttemptsRecorded
<1>n. /\ NoRun \in Run /\ NoRun.hit = None /\ NoRun.stage = "idle" /\ NoRun.pools = NoAttempt
      /\ NoRun.standard = NoTx /\ NoRun.shield = NoTx
    BY TxTyped DEF NoRun, NoAttempt, Run
<1>1. TypeOK'
    BY <1>0, <1>n DEF IInv, TypeOK, QueueTypeOK
<1>2. AmountsAddUp'
    BY <1>n DEF AmountsAddUp, NoAttempt
<1>3. Fresh'
    BY <1>0, <1>n DEF IInv, Fresh
<1>4. OnlyQueuedDrain'
    BY <1>0 DEF IInv, OnlyQueuedDrain, NotTold, TypeOK, QueueTypeOK
<1>5. DrainsSound'
    BY DEF IInv, DrainsSound
<1>6. AttemptsRecorded'
    BY <1>n DEF AttemptsRecorded
<1>7. ToldAsItWas'
    <2> SUFFICES ASSUME NEW c \in Claim
                 PROVE  /\ told'[c] = "submitted" => acknowledged[c] > 0
                        /\ told'[c] = "unconfirmed" => acknowledged[c] = 0
                        /\ told'[c] = "queued" => c \in pending' \cup relayed'
        BY DEF ToldAsItWas
    <2>1. CASE c = run.hit
        <3>1. told'[c] = banner
            BY <1>0, <2>1
        <3> QED  BY <1>0, <2>1, <3>1
    <2>2. CASE c # run.hit
        BY <1>0, <2>2 DEF IInv, ToldAsItWas
    <2> QED  BY <2>1, <2>2
<1>8. MarkedWereAcknowledged'
    BY DEF IInv, MarkedWereAcknowledged
<1> QED  BY <1>1, <1>2, <1>3, <1>4, <1>5, <1>6, <1>7, <1>8 DEF IInv

\* What the running stages say of the local variables.
LEMMA RunTyped ==
    ASSUME IInv, run.stage # "idle"
    PROVE  /\ run \in Run /\ run.hit \in Claim /\ run.hit # None
           /\ told[run.hit] = NotTold /\ run.hit \in found
           /\ told \in [Claim -> Banner \cup {NotTold}]
           /\ acknowledged \in [Claim -> 0 .. 2]
           /\ run.pools \in [{"shield", "slipstream"} -> {"info", "submit", "accepted", "failed"}]
           /\ run.total \in Nat /\ run.standard \in Tx /\ run.shield \in Tx
BY DEF IInv, TypeOK, QueueTypeOK, Fresh, Run

\* The libraries are loaded, or not.
LEMMA ImportInv ==
    ASSUME IInv, ImportClaimLibraries \/ ImportFails
    PROVE  IInv'
<1> DEFINE tx == buildSignedTx(run.total, NumInputs)
           built == [run EXCEPT !.standard = tx, !.online = online]
           tried == [built EXCEPT !.stage = "pools", !.pools["shield"] = "info",
                                  !.pools["slipstream"] = "submit"]
           skipped == [built EXCEPT !.stage = "wrap"]
<1>0. run.stage = "import" /\ run.stage # "idle"
    BY DEF ImportClaimLibraries, ImportFails
<1>1. UNCHANGED <<queueVars, storageWorks, keys, found>>
    BY DEF ImportClaimLibraries, ImportFails
<1>2. CASE Tell(run.hit, "failed")
    <2>1. /\ "failed" \in Banner \cup {NotTold} /\ run' = NoRun
          /\ told' = [told EXCEPT ![run.hit] = "failed"]
        BY <1>2 DEF Tell, Banner
    <2>2. relayed' = relayed /\ relayed \subseteq Claim /\ wrapped' = wrapped /\ wrapped \subseteq Claim
        BY <1>1 DEF queueVars, storage, world, IInv, TypeOK, QueueTypeOK
    <2> QED
        BY <1>0, <1>1, <2>1, <2>2, RunTyped, RunEnds DEF queueVars, storage, world
<1>3. CASE tx # NoTx /\ told' = told /\ (run' = tried \/ run' = skipped)
    <2>1. NumInputs \in Nat /\ tx \in Tx
        BY <1>0, RunTyped, BuiltTyped DEF NumInputs
    <2>2. Splits(tx, run.total) /\ PaysStandardRate(tx, NumInputs)
        BY <1>0, <1>3, <2>1, RunTyped, StandardSplits
    <2>3. run.pools = NoAttempt /\ online \in BOOLEAN /\ acknowledged[run.hit] = 0
        BY <1>0, RunTyped DEF IInv, Fresh, TypeOK, QueueTypeOK, AttemptsRecorded, Tier1Ok, NoAttempt
    <2>4. run.shield # NoTx => Splits(run.shield, run.total) /\ PaysShieldRate(run.shield, NumInputs, run.feerate)
        BY DEF IInv, AmountsAddUp
    <2> HIDE DEF tx
    <2>5. CASE run' = tried
        <3>1. /\ run' \in Run /\ run'.hit = run.hit /\ run'.stage = "pools"
              /\ run'.standard = tx /\ run'.shield = run.shield /\ run'.total = run.total
              /\ run'.feerate = run.feerate
              /\ run'.pools["shield"] = "info" /\ run'.pools["slipstream"] = "submit"
              /\ DOMAIN run'.pools = {"shield", "slipstream"}
            BY <1>0, <2>1, <2>3, <2>5, RunTyped DEF Run
        <3>2. AmountsAddUp'
            BY <1>3, <2>2, <2>4, <3>1 DEF AmountsAddUp
        <3>3. ~Tier1Ok'
            BY <3>1 DEF Tier1Ok
        <3> QED
            BY <1>0, <1>1, <1>3, <2>3, <3>1, <3>2, <3>3, RunTyped, RunGoesOn
            DEF claimVars, queueVars, storage, world
    <2>6. CASE run' = skipped
        <3>1. /\ run' \in Run /\ run'.hit = run.hit /\ run'.stage = "wrap"
              /\ run'.standard = tx /\ run'.shield = run.shield /\ run'.total = run.total
              /\ run'.feerate = run.feerate /\ run'.pools = NoAttempt
            BY <1>0, <2>1, <2>3, <2>6, RunTyped DEF Run
        <3>2. AmountsAddUp'
            BY <1>3, <2>2, <2>4, <3>1 DEF AmountsAddUp, NoAttempt
        <3>3. ~Tier1Ok'
            BY <3>1 DEF Tier1Ok, NoAttempt
        <3> QED
            BY <1>0, <1>1, <1>3, <2>3, <3>1, <3>2, <3>3, RunTyped, RunGoesOn
            DEF claimVars, queueVars, storage, world
    <2> QED  BY <1>3, <2>5, <2>6
<1>4. QED
    <2>1. CASE ImportFails
        BY <1>2, <2>1 DEF ImportFails
    <2>2. CASE ImportClaimLibraries
        BY <1>2, <1>3, <2>2 DEF ImportClaimLibraries
    <2> QED  BY <2>1, <2>2

\* An attempt that goes on with the local variables r in state `state'.
LEMMA AttemptInv ==
    ASSUME IInv, NEW p \in {"shield", "slipstream"}, NEW r \in Run,
           NEW state \in {"submit", "accepted", "failed"},
           run.stage = "pools", run.pools[p] \notin {"accepted", "failed"},
           r.hit = run.hit, r.total = run.total, r.standard = run.standard, r.pools = run.pools,
           r.shield # NoTx => Splits(r.shield, r.total) /\ PaysShieldRate(r.shield, NumInputs, r.feerate),
           r.shield = NoTx => run.pools["shield"] \notin {"submit", "accepted"},
           p = "shield" /\ state # "failed" => r.shield # NoTx,
           Goes(p, state, r),
           IF state = "accepted"
           THEN PoolSuccess(run.hit)
           ELSE PoolError
    PROVE  IInv'
<1> DEFINE pools == [r.pools EXCEPT ![p] = state]
<1>0. run.stage # "idle"
    OBVIOUS
<1>1. /\ run' \in Run /\ run'.hit = run.hit /\ run'.stage \in {"pools", "wrap"}
      /\ run'.total = run.total /\ run'.standard = run.standard /\ run'.shield = r.shield
      /\ run'.feerate = r.feerate /\ run'.pools = pools
    BY <1>0, RunTyped DEF Goes, Run
<1>2. pools \in [{"shield", "slipstream"} -> {"info", "submit", "accepted", "failed"}]
      /\ pools[p] = state /\ \A q \in {"shield", "slipstream"} : q # p => pools[q] = run.pools[q]
    BY <1>0, RunTyped
<1> HIDE DEF pools
<1>3. AmountsAddUp'
    <2>1. run.standard # NoTx /\ Splits(run.standard, run.total) /\ PaysStandardRate(run.standard, NumInputs)
        BY DEF IInv, AmountsAddUp
    <2>2. run'.pools["shield"] \in {"submit", "accepted"} => run'.shield # NoTx
        BY <1>1, <1>2
    <2> QED  BY <1>1, <2>1, <2>2 DEF AmountsAddUp
<1>4. /\ acknowledged' \in [Claim -> 0 .. 2]
      /\ \A c \in Claim : acknowledged'[c] >= acknowledged[c]
      /\ \A c \in Claim \ {run.hit} : acknowledged'[c] = acknowledged[c]
      /\ acknowledged'[run.hit] > 0 <=> state = "accepted" \/ acknowledged[run.hit] > 0
    BY <1>0, RunTyped DEF PoolSuccess, PoolError
<1>5. Tier1Ok <=> acknowledged[run.hit] > 0
    BY <1>0, RunTyped DEF IInv, AttemptsRecorded
<1>6. Tier1Ok' <=> state = "accepted" \/ Tier1Ok
    <2>1. DOMAIN run.pools = {"shield", "slipstream"} /\ DOMAIN pools = {"shield", "slipstream"}
        BY <1>0, <1>2, RunTyped
    <2> QED  BY <1>1, <1>2, <2>1 DEF Tier1Ok
<1> QED
    BY <1>0, <1>1, <1>3, <1>4, <1>5, <1>6, RunTyped, RunGoesOn DEF Goes

\* Shield names its rate, or does not.
LEMMA ShieldInfoInv ==
    ASSUME IInv, ShieldInfoFails \/ \E rate \in Feerates : ShieldInfoAnswers(rate)
    PROVE  IInv'
<1>1. CASE ShieldInfoFails
    <2>1. run.stage = "pools" /\ run.pools["shield"] = "info" /\ run \in Run /\ PoolError
        BY <1>1, RunTyped DEF ShieldInfoFails, AtPools, PoolError
    <2> QED
        BY <1>1, <2>1, AttemptInv DEF ShieldInfoFails, IInv, AmountsAddUp
<1>2. ASSUME NEW rate \in Feerates, ShieldInfoAnswers(rate)
      PROVE  IInv'
    <2> DEFINE tx == buildShieldTx(run.total, NumInputs, rate)
               r == [run EXCEPT !.shield = tx, !.feerate = rate]
               state == IF tx = NoTx THEN "failed" ELSE "submit"
    <2>1. run.stage = "pools" /\ run.pools["shield"] = "info" /\ run \in Run /\ PoolError
        BY <1>2, RunTyped DEF ShieldInfoAnswers, AtPools, PoolError
    <2>2. rate \in Nat /\ NumInputs \in Nat /\ run.total \in Nat /\ tx \in Tx
        BY <2>1, RunTyped, BuiltTyped DEF NumInputs
    <2>3. tx # NoTx => Splits(tx, run.total) /\ PaysShieldRate(tx, NumInputs, rate)
        BY <2>2, ShieldSplits
    <2>4. Goes("shield", state, r)
        BY <1>2 DEF ShieldInfoAnswers
    <2> HIDE DEF tx
    <2>5. /\ r \in Run /\ r.hit = run.hit /\ r.total = run.total /\ r.standard = run.standard
          /\ r.pools = run.pools /\ r.shield = tx /\ r.feerate = rate
        BY <2>1, <2>2 DEF Run
    <2> HIDE DEF r
    <2>6. state \in {"submit", "accepted", "failed"} /\ state # "accepted"
          /\ (state # "failed" => tx # NoTx)
        OBVIOUS
    <2> HIDE DEF state
    <2> QED
        BY <2>1, <2>3, <2>4, <2>5, <2>6, AttemptInv
<1> QED  BY <1>1, <1>2

\* A pool answers, or does not.
LEMMA PoolInv ==
    ASSUME IInv, NEW p \in {"shield", "slipstream"},
           PoolFails(p) \/ PoolAnswers(p)
    PROVE  IInv'
<1>1. run.stage = "pools" /\ run.pools[p] = "submit" /\ run \in Run
    BY RunTyped DEF PoolFails, PoolAnswers, AtPools
<1>2. /\ run.shield # NoTx => Splits(run.shield, run.total) /\ PaysShieldRate(run.shield, NumInputs, run.feerate)
      /\ run.shield = NoTx => run.pools["shield"] \notin {"submit", "accepted"}
    BY DEF IInv, AmountsAddUp
<1>3. CASE PoolFails(p)
    BY <1>1, <1>2, <1>3, AttemptInv DEF PoolFails
<1>4. CASE PoolAnswers(p)
    BY <1>1, <1>2, <1>4, AttemptInv DEF PoolAnswers
<1> QED  BY <1>3, <1>4

\* The copy is wrapped or not, published or not: the claim is over, or goes on
\* to the relays.
LEMMA WrapInv ==
    ASSUME IInv, Wraps \/ WrapFails \/ \E accepted \in BOOLEAN : Publishes(accepted)
    PROVE  IInv'
<1>0. run.stage \in {"wrap", "publish"} /\ run.stage # "idle"
    BY DEF Wraps, WrapFails, Publishes
<1>1. /\ UNCHANGED <<online, drains, idleCallback, acknowledged, reloads,
                     storageWorks, keys, found>>
      /\ relayed \subseteq relayed' /\ relayed' \subseteq Claim
    BY <1>0, RunTyped DEF Wraps, WrapFails, Publishes, world, IInv, TypeOK, QueueTypeOK
<1>2. CASE TellTier1
    <2> DEFINE banner == IF Tier1Ok THEN "submitted" ELSE "unconfirmed"
    <2>1. run' = NoRun /\ told' = [told EXCEPT ![run.hit] = banner] /\ UNCHANGED storage
        BY <1>2 DEF TellTier1, Tell
    <2>2. banner \in Banner \cup {NotTold} /\ banner # "queued"
          /\ (banner = "submitted" => Tier1Ok) /\ (banner = "unconfirmed" => ~Tier1Ok)
        BY DEF Banner
    <2>3. wrapped \subseteq Claim
        BY DEF IInv, TypeOK, QueueTypeOK
    <2> HIDE DEF banner
    <2> QED  BY <1>0, <1>1, <2>1, <2>2, <2>3, RunTyped, RunEnds DEF storage
<1>3. ASSUME NEW hasWrap \in BOOLEAN, TellQueued(hasWrap)
      PROVE  IInv'
    <2>0. wrapped \subseteq Claim
        BY DEF IInv, TypeOK, QueueTypeOK
    <2>1. CASE storageWorks
        <3>1. /\ run' = NoRun /\ told' = [told EXCEPT ![run.hit] = "queued"]
              /\ pending' = pending \cup {run.hit} /\ shieldSubmitted' = shieldSubmitted
              /\ wrapped' \subseteq Claim
            BY <1>0, <1>3, <2>0, <2>1, RunTyped DEF TellQueued, enqueue, Tell
        <3>2. "queued" \in Banner \cup {NotTold}
            BY DEF Banner
        <3> QED  BY <1>0, <1>1, <3>1, <3>2, RunTyped, RunEnds
    <2>2. CASE ~storageWorks
        <3>1. run' = NoRun /\ told' = told /\ UNCHANGED storage
            BY <1>3, <2>2 DEF TellQueued
        <3>2. told' = [told EXCEPT ![run.hit] = NotTold]
            BY <1>0, <3>1, RunTyped
        <3>3. NotTold \in Banner \cup {NotTold} /\ NotTold # "queued"
              /\ NotTold # "submitted" /\ NotTold # "unconfirmed"
            BY DEF NotTold
        <3> QED  BY <1>0, <1>1, <2>0, <3>1, <3>2, <3>3, RunTyped, RunEnds DEF storage
    <2> QED  BY <2>1, <2>2
<1>4. CASE Wraps /\ run.online
    <2>1. run.stage = "wrap" /\ run' = [run EXCEPT !.stage = "publish"]
          /\ UNCHANGED <<told, storage, world>>
        BY <1>4 DEF Wraps
    <2>2. /\ run' \in Run /\ run'.hit = run.hit /\ run'.stage = "publish" /\ run'.pools = run.pools
          /\ run'.total = run.total /\ run'.standard = run.standard
          /\ run'.shield = run.shield /\ run'.feerate = run.feerate
        BY <1>0, <2>1, RunTyped DEF Run
    <2>3. AmountsAddUp'
        BY <2>1, <2>2 DEF IInv, AmountsAddUp
    <2>4. Tier1Ok' <=> acknowledged[run.hit] > 0
        BY <1>0, <2>2, RunTyped DEF Tier1Ok, IInv, AttemptsRecorded
    <2>5. \A c \in Claim : acknowledged[c] >= acknowledged[c]
        BY <1>0, RunTyped
    <2> QED
        BY <1>0, <1>1, <2>1, <2>2, <2>3, <2>4, <2>5, RunTyped, RunGoesOn
        DEF claimVars, world, storage
<1> QED
    <2>1. CASE Wraps /\ ~run.online
        BY <1>3, <2>1 DEF Wraps
    <2>2. CASE WrapFails
        BY <1>2, <1>3, <2>2 DEF WrapFails
    <2>3. CASE \E accepted \in BOOLEAN : Publishes(accepted)
        BY <1>2, <2>3 DEF Publishes
    <2> QED  BY <1>4, <2>1, <2>2, <2>3

\* The drains change, the claim that is being made does not: what is left to
\* show is about the queue and the drains.
LEMMA QueueInv ==
    ASSUME IInv, UNCHANGED <<claimVars, run>>, QueueTypeOK',
           \A c \in Claim : acknowledged'[c] >= acknowledged[c],
           \A c \in Claim : acknowledged'[c] # acknowledged[c] => told[c] = "queued",
           relayed \subseteq relayed', pending' \subseteq pending,
           \A c \in pending : c \in pending' \/ c \in relayed',
           \A c \in shieldSubmitted' : acknowledged'[c] > 0,
           OnlyQueuedDrain', DrainsSound'
    PROVE  IInv'
<1>1. TypeOK'
    BY DEF IInv, TypeOK, claimVars
<1>2. AmountsAddUp'
    BY DEF IInv, AmountsAddUp, claimVars
<1>0. /\ acknowledged \in [Claim -> 0 .. 2] /\ acknowledged' \in [Claim -> 0 .. 2]
      /\ found \subseteq Claim
    BY DEF IInv, TypeOK, QueueTypeOK
<1>3. Fresh'
    BY <1>0 DEF IInv, Fresh, claimVars, NotTold
<1>4. AttemptsRecorded'
    BY <1>0 DEF IInv, AttemptsRecorded, Tier1Ok, Fresh, NotTold, TypeOK, Run
<1>5. ToldAsItWas'
    <2> SUFFICES ASSUME NEW c \in Claim
                 PROVE  /\ told[c] = "submitted" => acknowledged'[c] > 0
                        /\ told[c] = "unconfirmed" => acknowledged'[c] = 0
                        /\ told[c] = "queued" => c \in pending' \cup relayed'
        BY DEF ToldAsItWas, claimVars
    <2> QED  BY <1>0 DEF IInv, ToldAsItWas
<1>6. MarkedWereAcknowledged'
    BY DEF MarkedWereAcknowledged
<1> QED  BY <1>1, <1>2, <1>3, <1>4, <1>5, <1>6 DEF IInv

\* A drain starts from what is in the queue.
LEMMA TryDrainSound ==
    ASSUME IInv, NEW nowOnline \in BOOLEAN, TryDrain(nowOnline),
           UNCHANGED <<pending, told, acknowledged, relayed>>
    PROVE  /\ drains' \in [Drain -> [queue : SUBSET Claim, marks : SUBSET Claim,
                                     visited : SUBSET Claim, publishing : Claim \cup {None},
                                     relayed : SUBSET Claim, accepted : SUBSET Claim]]
           /\ OnlyQueuedDrain' /\ DrainsSound'
<1>1. CASE drains' = drains
    BY <1>1 DEF IInv, TypeOK, QueueTypeOK, OnlyQueuedDrain, DrainsSound
<1>2. ASSUME NEW d \in Drain, drains' = [drains EXCEPT ![d] = Loaded]
      PROVE  /\ drains' \in [Drain -> [queue : SUBSET Claim, marks : SUBSET Claim,
                                       visited : SUBSET Claim, publishing : Claim \cup {None},
                                       relayed : SUBSET Claim, accepted : SUBSET Claim]]
             /\ OnlyQueuedDrain' /\ DrainsSound'
    <2>1. /\ Loaded.queue = pending /\ Loaded.visited = {} /\ Loaded.publishing = None
          /\ Loaded.accepted = {} /\ Loaded.relayed = {}
          /\ Loaded \in [queue : SUBSET Claim, marks : SUBSET Claim,
                         visited : SUBSET Claim, publishing : Claim \cup {None},
                         relayed : SUBSET Claim, accepted : SUBSET Claim]
        BY DEF Loaded, NoDrain, IInv, TypeOK, QueueTypeOK
    <2> QED
        BY <1>2, <2>1 DEF IInv, TypeOK, QueueTypeOK, OnlyQueuedDrain, DrainsSound
<1> QED  BY <1>1, <1>2 DEF TryDrain

\* The connection comes and goes, the page starts, the page is reloaded.
LEMMA EnvironmentInv ==
    ASSUME IInv,
           \/ (GoOnline \/ GoOffline \/ IdleCallback) /\ UNCHANGED <<claimVars, run>>
           \/ Reload
    PROVE  IInv'
<1>0. QueueTypeOK /\ OnlyQueuedDrain /\ DrainsSound /\ MarkedWereAcknowledged
    BY DEF IInv, TypeOK
<1>1. CASE GoOnline /\ UNCHANGED <<claimVars, run>>
    <2>1. OnlyQueuedDrain' /\ DrainsSound' /\ QueueTypeOK'
        BY <1>0, <1>1, TryDrainSound DEF GoOnline, storage, world, claimVars, QueueTypeOK
    <2> QED
        BY <1>0, <1>1, <2>1, QueueInv DEF GoOnline, storage, world, QueueTypeOK, MarkedWereAcknowledged
<1>2. CASE GoOffline /\ UNCHANGED <<claimVars, run>>
    <2>1. OnlyQueuedDrain' /\ DrainsSound' /\ QueueTypeOK'
        BY <1>0, <1>2 DEF GoOffline, storage, world, claimVars, QueueTypeOK, OnlyQueuedDrain, DrainsSound
    <2> QED
        BY <1>0, <1>2, <2>1, QueueInv DEF GoOffline, storage, world, QueueTypeOK, MarkedWereAcknowledged
<1>3. CASE IdleCallback /\ UNCHANGED <<claimVars, run>>
    <2>1. OnlyQueuedDrain' /\ DrainsSound' /\ QueueTypeOK'
        BY <1>0, <1>3, TryDrainSound DEF IdleCallback, storage, world, claimVars, QueueTypeOK
    <2> QED
        BY <1>0, <1>3, <2>1, QueueInv DEF IdleCallback, storage, world, QueueTypeOK, MarkedWereAcknowledged
<1>4. CASE Reload
    <2>1. /\ UNCHANGED <<online, pending, wrapped, shieldSubmitted, acknowledged,
                         relayed, storageWorks, keys, found, told>>
          /\ run' = NoRun /\ drains' = [d \in Drain |-> NoDrain]
          /\ reloads' \in 0 .. MaxReloads /\ idleCallback' \in BOOLEAN
        BY <1>0, <1>4 DEF Reload, ReloadQueue, storage, world, claimVars, QueueTypeOK
    <2>2. /\ NoRun \in Run /\ NoRun.hit = None /\ NoRun.stage = "idle" /\ NoRun.pools = NoAttempt
          /\ NoRun.standard = NoTx /\ NoRun.shield = NoTx
        BY TxTyped DEF NoRun, NoAttempt, Run
    <2>3. TypeOK'
        BY <1>0, <2>1, <2>2 DEF IInv, TypeOK, QueueTypeOK, NoDrain
    <2>4. AmountsAddUp'
        BY <2>1, <2>2 DEF AmountsAddUp, NoAttempt
    <2>5. Fresh' /\ AttemptsRecorded' /\ ToldAsItWas' /\ MarkedWereAcknowledged'
        BY <2>1, <2>2 DEF IInv, Fresh, AttemptsRecorded, ToldAsItWas, MarkedWereAcknowledged
    <2>6. OnlyQueuedDrain' /\ DrainsSound'
        BY <1>0, <2>1 DEF OnlyQueuedDrain, DrainsSound, NoDrain
    <2> QED  BY <2>3, <2>4, <2>5, <2>6 DEF IInv
<1> QED  BY <1>1, <1>2, <1>3, <1>4

DrainType == [queue : SUBSET Claim, marks : SUBSET Claim, visited : SUBSET Claim,
              publishing : Claim \cup {None}, relayed : SUBSET Claim, accepted : SUBSET Claim]

\* A drain that goes on with dr, or ends, keeps the invariant if dr is sound.
LEMMA ContinueInv ==
    ASSUME IInv, UNCHANGED <<claimVars, run>>, NEW d \in Drain, NEW dr \in DrainType,
           Continue(d, dr),
           UNCHANGED <<online, wrapped, idleCallback, reloads>>,
           acknowledged' \in [Claim -> 0 .. 2], relayed' \subseteq Claim,
           \A c \in Claim : acknowledged'[c] >= acknowledged[c],
           \A c \in Claim : acknowledged'[c] # acknowledged[c] => told[c] = "queued",
           relayed \subseteq relayed',
           dr.queue = drains[d].queue, dr.visited \subseteq dr.queue,
           dr.publishing \in dr.visited \cup {None}, dr.accepted \subseteq dr.visited,
           \A c \in dr.accepted : acknowledged'[c] > 0,
           dr.relayed \subseteq relayed'
    PROVE  IInv' /\ \A c \in pending :
                      IF c \in pending'
                      THEN c \in shieldSubmitted => c \in shieldSubmitted'
                      ELSE c \in relayed'
<1>0. QueueTypeOK /\ OnlyQueuedDrain /\ DrainsSound /\ MarkedWereAcknowledged
    BY DEF IInv, TypeOK
<1>d. drains \in [Drain -> DrainType] /\ NoDrain \in DrainType
    BY <1>0 DEF QueueTypeOK, DrainType, NoDrain
<1>1. /\ drains' = [drains EXCEPT ![d] = dr] \/ drains' = [drains EXCEPT ![d] = NoDrain]
      /\ drains' \in [Drain -> DrainType]
    BY <1>d DEF Continue, SaveStillPending
<1>2. /\ pending' \subseteq pending /\ shieldSubmitted' \subseteq pending'
      /\ shieldSubmitted' \subseteq shieldSubmitted \cup dr.accepted
      /\ \A c \in pending : IF c \in pending'
                            THEN c \in shieldSubmitted => c \in shieldSubmitted'
                            ELSE c \in relayed'
    BY <1>0 DEF Continue, SaveStillPending, QueueTypeOK
<1>3. QueueTypeOK'
    BY <1>0, <1>1, <1>2 DEF QueueTypeOK, DrainType
<1>4. OnlyQueuedDrain'
    BY <1>0, <1>1, <1>2, <1>d DEF OnlyQueuedDrain, claimVars, NoDrain
<1>5. DrainsSound'
    <2> SUFFICES ASSUME NEW e \in Drain
                 PROVE  LET de == drains'[e] IN
                        /\ de.visited \subseteq de.queue
                        /\ de.publishing \in de.visited \cup {None}
                        /\ de.accepted \subseteq de.visited
                        /\ \A c \in de.accepted : acknowledged'[c] > 0
                        /\ de.relayed \subseteq relayed'
        BY DEF DrainsSound
    <2>1. CASE e # d
        <3>1. drains'[e] = drains[e] /\ drains[e].accepted \subseteq Claim
            BY <1>1, <1>d, <2>1 DEF DrainType
        <3>2. \A c \in drains[e].accepted : acknowledged'[c] > 0
            <4> SUFFICES ASSUME NEW c \in drains[e].accepted PROVE acknowledged'[c] > 0
                OBVIOUS
            <4>1. c \in Claim /\ acknowledged[c] > 0 /\ acknowledged[c] \in 0 .. 2
                BY <1>0, <3>1 DEF DrainsSound, QueueTypeOK
            <4> QED  BY <4>1
        <3> QED  BY <1>0, <3>1, <3>2 DEF DrainsSound
    <2>2. CASE e = d
        BY <1>1, <1>d, <2>2 DEF NoDrain
    <2> QED  BY <2>1, <2>2
<1>6. \A c \in shieldSubmitted' : acknowledged'[c] > 0
    <2> SUFFICES ASSUME NEW c \in shieldSubmitted, c \in shieldSubmitted' PROVE acknowledged'[c] > 0
        BY <1>2
    <2>1. c \in Claim /\ acknowledged[c] > 0 /\ acknowledged[c] \in 0 .. 2
        BY <1>0 DEF QueueTypeOK, MarkedWereAcknowledged
    <2> QED  BY <2>1
<1>7. \A c \in pending : c \in pending' \/ c \in relayed'
    BY <1>2
<1>8. IInv'
    BY <1>2, <1>3, <1>4, <1>5, <1>6, <1>7, QueueInv
<1> QED  BY <1>2, <1>8

\* A step of a drain keeps the invariant and what QueueKeeps asks for.
LEMMA DrainInv ==
    ASSUME IInv, NEW d \in Drain, DrainStep(d), UNCHANGED <<claimVars, run>>
    PROVE  IInv' /\ \A c \in pending :
                      IF c \in pending'
                      THEN c \in shieldSubmitted => c \in shieldSubmitted'
                      ELSE c \in relayed'
<1> DEFINE dr == drains[d]
<1>0. /\ QueueTypeOK /\ dr \in DrainType /\ acknowledged \in [Claim -> 0 .. 2]
      /\ relayed \subseteq Claim
      /\ dr.visited \subseteq dr.queue /\ dr.publishing \in dr.visited \cup {None}
      /\ dr.accepted \subseteq dr.visited /\ \A c \in dr.accepted : acknowledged[c] > 0
      /\ dr.relayed \subseteq relayed /\ dr.queue \subseteq Claim
      /\ \A c \in dr.queue : told[c] = "queued"
    BY DEF IInv, TypeOK, QueueTypeOK, DrainsSound, OnlyQueuedDrain, DrainType
<1> HIDE DEF dr
<1>1. ASSUME NEW c \in dr.queue \ dr.visited, NEW next,
             next = [dr EXCEPT !.visited = @ \cup {c}, !.publishing = IF c \in wrapped THEN c ELSE None]
      PROVE  /\ next \in DrainType /\ next.queue = dr.queue /\ next.visited = dr.visited \cup {c}
             /\ next.publishing \in {c, None} /\ next.accepted = dr.accepted /\ next.relayed = dr.relayed
    BY <1>0, <1>1 DEF DrainType
<1>2. ASSUME NEW c \in dr.queue \ dr.visited, NEW next,
             next = [dr EXCEPT !.visited = @ \cup {c}, !.publishing = IF c \in wrapped THEN c ELSE None],
             PoolError, Continue(d, next), UNCHANGED <<online, wrapped, idleCallback, relayed, reloads>>
      PROVE  IInv' /\ \A x \in pending : IF x \in pending'
                                         THEN x \in shieldSubmitted => x \in shieldSubmitted'
                                         ELSE x \in relayed'
    <2>1. \A x \in Claim : acknowledged'[x] = acknowledged[x] /\ acknowledged[x] >= acknowledged[x]
        BY <1>0, <1>2 DEF PoolError
    <2>2. acknowledged' = acknowledged
        BY <1>2 DEF PoolError
    <2>3. /\ next \in DrainType /\ next.queue = dr.queue /\ next.visited = dr.visited \cup {c}
          /\ next.publishing \in {c, None} /\ next.accepted = dr.accepted /\ next.relayed = dr.relayed
        BY <1>1, <1>2
    <2>4. Continue(d, next) /\ UNCHANGED <<online, wrapped, idleCallback, relayed, reloads>>
        BY <1>2
    <2> QED  BY <1>0, <2>1, <2>2, <2>3, <2>4, ContinueInv DEF dr
<1>3. ASSUME NEW c \in dr.queue \ dr.visited, NEW next,
             next = [dr EXCEPT !.visited = @ \cup {c}, !.publishing = IF c \in wrapped THEN c ELSE None],
             PoolSuccess(c), Continue(d, [next EXCEPT !.accepted = @ \cup {c}]),
             UNCHANGED <<online, wrapped, idleCallback, relayed, reloads>>
      PROVE  IInv' /\ \A x \in pending : IF x \in pending'
                                         THEN x \in shieldSubmitted => x \in shieldSubmitted'
                                         ELSE x \in relayed'
    <2> DEFINE more == [next EXCEPT !.accepted = @ \cup {c}]
    <2>0. c \in Claim /\ told[c] = "queued"
        BY <1>0
    <2>1. /\ acknowledged' \in [Claim -> 0 .. 2]
          /\ acknowledged'[c] > 0
          /\ \A x \in Claim : acknowledged'[x] >= acknowledged[x]
          /\ \A x \in Claim : acknowledged'[x] # acknowledged[x] => x = c
        BY <1>0, <1>3, <2>0 DEF PoolSuccess
    <2>2. /\ next \in DrainType /\ next.queue = dr.queue /\ next.visited = dr.visited \cup {c}
          /\ next.publishing \in {c, None} /\ next.accepted = dr.accepted /\ next.relayed = dr.relayed
        BY <1>1, <1>3
    <2>3. /\ more \in DrainType /\ more.queue = dr.queue /\ more.visited = dr.visited \cup {c}
          /\ more.publishing \in {c, None} /\ more.accepted = dr.accepted \cup {c}
          /\ more.relayed = dr.relayed
        BY <2>0, <2>2 DEF DrainType
    <2>4. Continue(d, more) /\ UNCHANGED <<online, wrapped, idleCallback, relayed, reloads>>
        BY <1>3
    <2> HIDE DEF more
    <2>5. \A x \in more.accepted : acknowledged'[x] > 0
        <3> SUFFICES ASSUME NEW x \in dr.accepted PROVE acknowledged'[x] > 0
            BY <2>1, <2>3
        <3>1. x \in Claim /\ acknowledged[x] > 0 /\ acknowledged[x] \in 0 .. 2
            BY <1>0
        <3> QED  BY <2>1, <3>1
    <2> QED  BY <1>0, <2>0, <2>1, <2>3, <2>4, <2>5, ContinueInv DEF dr
<1>4. CASE SubmitQueuedToPools(d)
    BY <1>2, <1>3, <1>4 DEF SubmitQueuedToPools, dr
<1>5. CASE PublishQueued(d)
    <2> DEFINE next == [dr EXCEPT !.publishing = None]
               more == [next EXCEPT !.relayed = @ \cup {dr.publishing}]
    <2>1. /\ dr.publishing \in Claim /\ acknowledged' = acknowledged
          /\ UNCHANGED <<online, wrapped, idleCallback, reloads>>
          /\ \/ relayed' = relayed \cup {dr.publishing} /\ Continue(d, more)
             \/ relayed' = relayed /\ Continue(d, next)
        BY <1>0, <1>5 DEF PublishQueued, dr
    <2>2. /\ next \in DrainType /\ next.queue = dr.queue /\ next.visited = dr.visited
          /\ next.publishing = None /\ next.accepted = dr.accepted /\ next.relayed = dr.relayed
        BY <1>0 DEF DrainType
    <2> HIDE DEF next
    <2>3. /\ more \in DrainType /\ more.queue = dr.queue /\ more.visited = dr.visited
          /\ more.publishing = None /\ more.accepted = dr.accepted
          /\ more.relayed = dr.relayed \cup {dr.publishing}
        BY <2>1, <2>2 DEF DrainType
    <2> HIDE DEF more
    <2>4. \A x \in Claim : acknowledged[x] >= acknowledged[x]
        BY <1>0
    <2>5. CASE relayed' = relayed \cup {dr.publishing} /\ Continue(d, more)
        BY <1>0, <2>1, <2>3, <2>4, <2>5, ContinueInv DEF dr
    <2>6. CASE relayed' = relayed /\ Continue(d, next)
        BY <1>0, <2>1, <2>2, <2>4, <2>6, ContinueInv DEF dr
    <2> QED  BY <2>1, <2>5, <2>6
<1> QED  BY <1>4, <1>5 DEF DrainStep

-----------------------------------------------------------------------------
(* The theorems.                                                           *)

LEMMA NextInv == IInv /\ [Next]_vars => IInv'
<1> SUFFICES ASSUME IInv, [Next]_vars PROVE IInv'
    OBVIOUS
<1>1. ASSUME NEW c \in Claim, NEW value \in Inputs, Hit(c, value) PROVE IInv'
    BY <1>1, HitInv
<1>2. CASE ImportClaimLibraries \/ ImportFails
    BY <1>2, ImportInv
<1>3. CASE ShieldInfoFails \/ \E rate \in Feerates : ShieldInfoAnswers(rate)
    BY <1>3, ShieldInfoInv
<1>4. ASSUME NEW p \in {"shield", "slipstream"},
             PoolFails(p) \/ PoolAnswers(p)
      PROVE  IInv'
    BY <1>4, PoolInv
<1>5. CASE Wraps \/ WrapFails \/ \E accepted \in BOOLEAN : Publishes(accepted)
    BY <1>5, WrapInv
<1>6. CASE Reload
    BY <1>6, EnvironmentInv
<1>7. CASE QueueNext /\ UNCHANGED <<claimVars, run>>
    BY <1>7, EnvironmentInv, DrainInv DEF QueueNext
<1>8. CASE UNCHANGED vars
    <2>1. UNCHANGED <<online, pending, wrapped, shieldSubmitted, drains, idleCallback, acknowledged,
                      relayed, reloads, storageWorks, keys, found, told, run>>
        BY <1>8 DEF vars, queueVars, storage, world, claimVars
    <2>2. TypeOK' /\ AmountsAddUp'
        BY <2>1 DEF IInv, TypeOK, QueueTypeOK, AmountsAddUp
    <2>3. Fresh' /\ OnlyQueuedDrain' /\ DrainsSound' /\ AttemptsRecorded'
        BY <2>1 DEF IInv, Fresh, OnlyQueuedDrain, DrainsSound, AttemptsRecorded, Tier1Ok
    <2>4. ToldAsItWas' /\ MarkedWereAcknowledged'
        BY <2>1 DEF IInv, ToldAsItWas, MarkedWereAcknowledged
    <2> QED  BY <2>2, <2>3, <2>4 DEF IInv
<1> QED  BY <1>1, <1>2, <1>3, <1>4, <1>5, <1>6, <1>7, <1>8 DEF Next

THEOREM ClaimInvariant == Spec => []IInv
BY InitInv, NextInv, PTL DEF Spec

\* The type invariant of the claim pipeline.
THEOREM ClaimTypeCorrect == Spec => []TypeOK
<1>1. IInv => TypeOK
    BY DEF IInv
<1> QED  BY <1>1, ClaimInvariant, PTL

\* The transactions of a claim add up for all amounts (prize-claim.js).
THEOREM ClaimsAddUp == Spec => []AmountsAddUp
<1>1. IInv => AmountsAddUp
    BY DEF IInv
<1> QED  BY <1>1, ClaimInvariant, PTL

\* What the finder was told is what happened, and a queued claim is in the
\* queue until it was relayed (runClaim and drainOnce).
THEOREM FinderToldTruth == Spec => []RecordedAsItWas
<1>1. IInv => RecordedAsItWas
    BY DEF IInv, RecordedAsItWas
<1> QED  BY <1>1, ClaimInvariant, PTL

\* However many drains overlap, with each other and with new hits, no entry
\* leaves the queue unrelayed and none loses its mark (drainOnce).
THEOREM QueueKept == Spec => QueueKeeps
<1> DEFINE Kept == \A c \in pending :
                      IF c \in pending'
                      THEN c \in shieldSubmitted => c \in shieldSubmitted'
                      ELSE c \in relayed'
<1>1. IInv /\ [Next]_vars => [Kept]_vars
    <2> SUFFICES ASSUME IInv, Next PROVE Kept
        OBVIOUS
    <2>1. CASE pending \subseteq pending' /\ shieldSubmitted' = shieldSubmitted
        BY <2>1
    <2>2. ASSUME NEW d \in Drain, DrainStep(d), UNCHANGED <<claimVars, run>> PROVE Kept
        BY <2>2, DrainInv
    <2>3. CASE \E c \in Claim, value \in Inputs : Hit(c, value)
        BY <2>1, <2>3 DEF Hit, queueVars, storage
    <2>4. CASE ImportClaimLibraries \/ ImportFails
        BY <2>1, <2>4 DEF ImportClaimLibraries, ImportFails, queueVars, storage
    <2>5. CASE ShieldInfoFails \/ \E rate \in Feerates : ShieldInfoAnswers(rate)
        BY <2>1, <2>5 DEF ShieldInfoFails, ShieldInfoAnswers, Goes, storage
    <2>6. ASSUME NEW p \in {"shield", "slipstream"},
                 PoolFails(p) \/ PoolAnswers(p)
          PROVE  Kept
        BY <2>1, <2>6 DEF PoolFails, PoolAnswers, Goes, storage
    <2>7. CASE Wraps \/ WrapFails \/ \E accepted \in BOOLEAN : Publishes(accepted)
        BY <2>1, <2>7 DEF Wraps, WrapFails, Publishes, TellTier1, TellQueued, enqueue, storage
    <2>8. CASE Reload
        BY <2>1, <2>8 DEF Reload, ReloadQueue, storage
    <2>9. CASE QueueNext /\ UNCHANGED <<claimVars, run>>
        BY <2>1, <2>2, <2>9 DEF QueueNext, GoOnline, GoOffline, IdleCallback, storage
    <2> QED  BY <2>3, <2>4, <2>5, <2>6, <2>7, <2>8, <2>9 DEF Next
<1> HIDE DEF Kept
<1>2. [][Kept]_vars => QueueKeeps
    BY DEF QueueKeeps, Kept
<1>3. Spec => [][Kept]_vars
    BY <1>1, ClaimInvariant, PTL DEF Spec
<1> QED  BY <1>2, <1>3
=============================================================================
