---------------------------- MODULE ClaimAmounts ----------------------------
(***************************************************************************)
(* How the two variants of a claim divide the inputs, prize-claim.js and   *)
(* shield.js: a fixed payment to the finder, the fee, and what remains to  *)
(* the developer unless it would be dust.  The code computes with BigInt,  *)
(* so no amount overflows.                                                 *)
(***************************************************************************)
EXTENDS Integers, FiniteSets

CONSTANTS
    USER_PAYOUT_SATS,       \* payment to the finder
    DEV_DUST_LIMIT_SATS,    \* a developer output must exceed this
    FEE_RATE_SAT_PER_VB,    \* fee rate of the standard variant
    P2PKH_INPUT_VBYTES,
    OUTPUT_VBYTES,
    TX_OVERHEAD_VBYTES

ASSUME AmountsAssumption ==
    /\ USER_PAYOUT_SATS \in Nat \ {0}
    /\ DEV_DUST_LIMIT_SATS \in Nat
    /\ FEE_RATE_SAT_PER_VB \in Nat \ {0}
    /\ P2PKH_INPUT_VBYTES \in Nat
    /\ OUTPUT_VBYTES \in Nat
    /\ TX_OVERHEAD_VBYTES \in Nat \ {0}

\* The builder threw: there is no transaction.
NoTx == [user |-> 0, dev |-> 0, shield |-> 0, fee |-> 0]

Tx == [user : Nat, dev : Nat, shield : Nat, fee : Nat]

estimateVbytes(numInputs, numOutputs) ==
    TX_OVERHEAD_VBYTES + numInputs * P2PKH_INPUT_VBYTES + numOutputs * OUTPUT_VBYTES

StandardFee(n, outputs) == estimateVbytes(n, outputs) * FEE_RATE_SAT_PER_VB

ShieldFee(n, outputs, feerate) == feerate * estimateVbytes(n, outputs)

\* Mutant: a developer output that would be dust is dropped, its fee is not
\* recomputed.
buildSignedTxKeepsFee(total, n) ==
    LET dev == total - StandardFee(n, 2) - USER_PAYOUT_SATS
    IN  IF total < USER_PAYOUT_SATS + StandardFee(n, 1)
        THEN NoTx
        ELSE [user |-> USER_PAYOUT_SATS,
              dev |-> IF dev <= DEV_DUST_LIMIT_SATS THEN 0 ELSE dev,
              shield |-> 0,
              fee |-> StandardFee(n, 2)]

\* The standard variant of n inputs worth total.
buildSignedTx(total, n) ==
    LET dev == total - StandardFee(n, 2) - USER_PAYOUT_SATS
        dropped == dev <= DEV_DUST_LIMIT_SATS
    IN  IF total < USER_PAYOUT_SATS + StandardFee(n, 1)
        THEN NoTx
        ELSE [user |-> USER_PAYOUT_SATS,
              dev |-> IF dropped THEN 0 ELSE dev,
              shield |-> 0,
              fee |-> IF dropped THEN total - USER_PAYOUT_SATS ELSE StandardFee(n, 2)]

\* The shield variant pays the pool by an output of its own; only what the
\* developer's output would have held is left as a fee when that is dropped.
buildShieldTx(total, n, feerate) ==
    LET dropped == total - USER_PAYOUT_SATS - ShieldFee(n, 3, feerate) <= DEV_DUST_LIMIT_SATS
        fee == ShieldFee(n, IF dropped THEN 2 ELSE 3, feerate)
        rest == total - USER_PAYOUT_SATS - fee
    IN  IF feerate <= 0 \/ rest < 0
        THEN NoTx
        ELSE [user |-> USER_PAYOUT_SATS,
              dev |-> IF dropped THEN 0 ELSE rest,
              shield |-> fee,
              fee |-> IF dropped THEN rest ELSE 0]

-----------------------------------------------------------------------------

\* What the outputs and the fee of a transaction of n inputs worth total must
\* satisfy: they add up to the inputs, the finder gets the fixed payment, no
\* developer output is dust.
Splits(tx, total) ==
    /\ tx \in Tx
    /\ tx.user + tx.dev + tx.shield + tx.fee = total
    /\ tx.user = USER_PAYOUT_SATS
    /\ tx.dev = 0 \/ tx.dev > DEV_DUST_LIMIT_SATS

\* The standard variant pays the fixed rate for the outputs it has.
PaysStandardRate(tx, n) ==
    tx.fee >= StandardFee(n, IF tx.dev = 0 THEN 1 ELSE 2)

\* The shield variant pays the pool's rate for the outputs it has, and leaves
\* nothing to the miner unless the developer's output was dropped.
PaysShieldRate(tx, n, feerate) ==
    /\ tx.shield = ShieldFee(n, IF tx.dev = 0 THEN 2 ELSE 3, feerate)
    /\ tx.dev # 0 => tx.fee = 0
=============================================================================
