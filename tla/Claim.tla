------------------------------- MODULE Claim -------------------------------
(***************************************************************************)
(* What the page does with a key the search found: runClaim of main.js and *)
(* orchestrateClaim of claim-orchestrator.js, next to the queue of claims. *)
(* The key is saved; two variants of the transaction are built; the pools  *)
(* are tried in parallel, each under a deadline; a copy is wrapped and     *)
(* relayed to the developer; the finder is told what happened.  Offline,   *)
(* the claim goes to the queue instead.                                    *)
(*                                                                         *)
(* A call that may stay pending for ever has two actions: its answer,      *)
(* which may never come, and its end by an error or by its deadline.       *)
(***************************************************************************)
EXTENDS ClaimQueue, ClaimAmounts

CONSTANTS
    Inputs,         \* values of the inputs in the snapshot; 0 for no snapshot
    Feerates,       \* rates a tier of Shield may ask for
    StorageWorks    \* whether localStorage can be written

ASSUME ClaimAssumption ==
    /\ Inputs \subseteq Nat /\ Feerates \subseteq Nat
    /\ StorageWorks \subseteq BOOLEAN /\ StorageWorks # {}

VARIABLES
    storageWorks,   \* fixed by the browser
    keys,           \* recovered keys in localStorage
    found,          \* history: hits the search reported
    told,           \* history: the banner each hit ended with
    run             \* the local variables of runClaim and orchestrateClaim

claimVars == <<storageWorks, keys, found, told>>
vars == <<queueVars, claimVars, run>>

NotTold == "nothing"
Banner == {"no snapshot", "failed", "queued", "submitted", "unconfirmed"}
NumInputs == 1

\* What runClaim awaits, the value of the inputs, navigator.onLine when the
\* claim was made, the variants, the rate of Shield, and the attempts at the
\* pools.
Run == [hit : Claim \cup {None},
        stage : {"idle", "import", "pools", "wrap", "publish"},
        total : Nat,
        online : BOOLEAN,
        standard : Tx,
        shield : Tx,
        feerate : Nat,
        pools : [{"shield", "slipstream"} -> {"info", "submit", "accepted", "failed"}]]

NoAttempt == [p \in {"shield", "slipstream"} |-> "failed"]

NoRun == [hit |-> None, stage |-> "idle", total |-> 0, online |-> FALSE,
          standard |-> NoTx, shield |-> NoTx, feerate |-> 0, pools |-> NoAttempt]

TypeOK ==
    /\ QueueTypeOK
    /\ storageWorks \in BOOLEAN
    /\ found \subseteq Claim /\ keys \subseteq found
    /\ told \in [Claim -> Banner \cup {NotTold}]
    /\ run \in Run
    /\ run.stage = "idle" <=> run.hit = None

Init ==
    /\ QueueInit
    /\ storageWorks \in StorageWorks
    /\ keys = {}
    /\ found = {}
    /\ told = [c \in Claim |-> NotTold]
    /\ run = NoRun

-----------------------------------------------------------------------------

\* saveRecoveredKey, which reports that it failed when storage is unavailable.
saveRecoveredKey(c) == keys' = IF storageWorks THEN keys \cup {c} ELSE keys

\* runClaim returns, having shown a banner.
Tell(c, banner) == told' = [told EXCEPT ![c] = banner] /\ run' = NoRun

\* The search reports a key.  Without a snapshot of its outputs the finder is
\* told at once to build the transaction.
Hit(c, value) ==
    /\ run.stage = "idle"
    /\ c \notin found
    /\ found' = found \cup {c}
    /\ saveRecoveredKey(c)
    /\ IF value = 0
       THEN Tell(c, "no snapshot")
       ELSE /\ run' = [NoRun EXCEPT !.hit = c, !.total = value, !.stage = "import"]
            /\ UNCHANGED told
    /\ UNCHANGED <<queueVars, storageWorks>>

\* The libraries are loaded: the standard variant is built.  A builder that
\* throws, for the amounts or for an address the signer rejects, ends the claim.
ImportClaimLibraries ==
    /\ run.stage = "import"
    /\ \E addressOk \in BOOLEAN :
         LET tx == buildSignedTx(run.total, NumInputs)
             built == [run EXCEPT !.standard = tx, !.online = online]
         IN  IF ~addressOk \/ tx = NoTx
             THEN Tell(run.hit, "failed")
             ELSE /\ run' = IF online
                            THEN [built EXCEPT !.stage = "pools", !.pools["shield"] = "info",
                                               !.pools["slipstream"] = "submit"]
                            ELSE [built EXCEPT !.stage = "wrap"]
                  /\ UNCHANGED told
    /\ UNCHANGED <<queueVars, storageWorks, keys, found>>

\* The import is rejected or takes longer than its deadline.
ImportFails ==
    /\ run.stage = "import"
    /\ Tell(run.hit, "failed")
    /\ UNCHANGED <<queueVars, storageWorks, keys, found>>

-----------------------------------------------------------------------------
(* The two attempts, in parallel.                                          *)

AtPools(p, state) == run.stage = "pools" /\ run.pools[p] = state

\* An attempt goes on or ends; Promise.all continues when both have ended.
Goes(p, state, r) ==
    LET pools == [r.pools EXCEPT ![p] = state]
        over == \A q \in DOMAIN pools : pools[q] \in {"accepted", "failed"}
    IN  /\ run' = [r EXCEPT !.pools = pools, !.stage = IF over THEN "wrap" ELSE "pools"]
        /\ UNCHANGED <<claimVars, online, storage, drains, idleCallback, relayed, reloads>>

\* pickShieldTier takes the highest of the rates the pool offers, rounded up:
\* any rate may be that.
ShieldInfoAnswers(rate) ==
    /\ AtPools("shield", "info")
    /\ LET tx == buildShieldTx(run.total, NumInputs, rate)
       IN  Goes("shield", IF tx = NoTx THEN "failed" ELSE "submit",
                [run EXCEPT !.shield = tx, !.feerate = rate])
    /\ UNCHANGED acknowledged

ShieldInfoFails ==
    /\ AtPools("shield", "info")
    /\ Goes("shield", "failed", run)
    /\ UNCHANGED acknowledged

\* submitToShield or submitToSlipstream returns a txid.
PoolAnswers(p) ==
    /\ AtPools(p, "submit")
    /\ PoolSuccess(run.hit)
    /\ Goes(p, "accepted", run)

\* Mutant: no deadline; the request fails only when the connection does.
PoolFailsOffline(p) ==
    /\ AtPools(p, "submit")
    /\ ~online
    /\ PoolError
    /\ Goes(p, "failed", run)

\* The pool answers with an error, the connection fails or the time is over.
PoolFails(p) ==
    /\ AtPools(p, "submit")
    /\ PoolError
    /\ Goes(p, "failed", run)

-----------------------------------------------------------------------------
(* The developer's copy, and the end of the claim.                         *)

\* Mutant: the claim counts as submitted when an attempt was made.
Tier1OkWhenTried == run.shield # NoTx \/ \E p \in DOMAIN run.pools : run.pools[p] = "accepted"

Tier1Ok == \E p \in DOMAIN run.pools : run.pools[p] = "accepted"

\* Online, the banner says whether a pool took the claim.
TellTier1 ==
    /\ Tell(run.hit, IF Tier1Ok THEN "submitted" ELSE "unconfirmed")
    /\ UNCHANGED storage

\* Offline, the claim is queued, with the gift-wrap if there is one.  enqueue
\* throws when storage is unavailable, and nothing is shown.
TellQueued(hasWrap) ==
    IF storageWorks
    THEN enqueue(run.hit, hasWrap) /\ Tell(run.hit, "queued")
    ELSE run' = NoRun /\ UNCHANGED <<told, storage>>

Wraps ==
    /\ run.stage = "wrap"
    /\ IF run.online
       THEN run' = [run EXCEPT !.stage = "publish"] /\ UNCHANGED <<told, storage>>
       ELSE TellQueued(TRUE)
    /\ UNCHANGED <<online, drains, idleCallback, world, reloads, storageWorks, keys, found>>

\* nostr-tools does not load, or wrapping takes longer than its deadline.
WrapFails ==
    /\ run.stage = "wrap"
    /\ IF run.online THEN TellTier1 ELSE TellQueued(FALSE)
    /\ UNCHANGED <<online, drains, idleCallback, world, reloads, storageWorks, keys, found>>

\* publishClaim waits for every relay or its timeout and never throws.
Publishes(accepted) ==
    /\ run.stage = "publish"
    /\ relayed' = IF accepted THEN relayed \cup {run.hit} ELSE relayed
    /\ TellTier1
    /\ UNCHANGED <<online, drains, idleCallback, acknowledged, reloads,
                   storageWorks, keys, found>>

-----------------------------------------------------------------------------

\* The page is reloaded in the middle of whatever it does.
Reload ==
    /\ ReloadQueue
    /\ run' = NoRun
    /\ UNCHANGED claimVars

Next ==
    \/ \E c \in Claim, value \in Inputs : Hit(c, value)
    \/ ImportClaimLibraries
    \/ ImportFails
    \/ \E rate \in Feerates : ShieldInfoAnswers(rate)
    \/ ShieldInfoFails
    \/ \E p \in {"shield", "slipstream"} : \/ PoolAnswers(p)
                                           \/ PoolFails(p)
    \/ Wraps
    \/ WrapFails
    \/ \E accepted \in BOOLEAN : Publishes(accepted)
    \/ Reload
    \/ QueueNext /\ UNCHANGED <<claimVars, run>>

Spec == Init /\ [][Next]_vars

\* Timers fire, and the calls of a drain end by their own timeouts.
Fairness ==
    /\ WF_vars(ImportFails)
    /\ WF_vars(ShieldInfoFails)
    /\ \A p \in {"shield", "slipstream"} : WF_vars(PoolFails(p))
    /\ WF_vars(WrapFails)
    /\ WF_vars(\E accepted \in BOOLEAN : Publishes(accepted))
    /\ \A d \in Drain : WF_vars(DrainStep(d) /\ UNCHANGED <<claimVars, run>>)

FairSpec == Spec /\ Fairness

-----------------------------------------------------------------------------
(* The inductive invariant: what the properties below rest on.             *)

\* A claim that is not over has no banner yet, and none of its attempts was made
\* before the libraries were there; one that was not found has no history.
Fresh ==
    /\ run.stage = "import" => run.pools = NoAttempt
    /\ run.hit # None => run.hit \in found /\ told[run.hit] = NotTold
    /\ \A c \in Claim \ found : told[c] = NotTold /\ acknowledged[c] = 0

\* Only claims made offline are in the queue, or in what a drain loaded.
OnlyQueuedDrain ==
    /\ \A c \in pending : told[c] = "queued"
    /\ \A d \in Drain : \A c \in drains[d].queue : told[c] = "queued"

\* A drain works on what it loaded, and records only what happened.
DrainsSound ==
    \A d \in Drain :
        LET dr == drains[d] IN
        /\ dr.visited \subseteq dr.queue
        /\ dr.publishing \in dr.visited \cup {None}
        /\ dr.accepted \subseteq dr.visited
        /\ \A c \in dr.accepted : acknowledged[c] > 0
        /\ dr.relayed \subseteq relayed

\* The attempts of the claim being made are the only ones on it.
AttemptsRecorded == run.hit # None => (Tier1Ok <=> acknowledged[run.hit] > 0)

\* The variants of a claim add up, pay the finder the same amount and the fees
\* the code promises (prize-claim.js); what is submitted was built.
AmountsAddUp ==
    /\ run.standard # NoTx =>
         Splits(run.standard, run.total) /\ PaysStandardRate(run.standard, NumInputs)
    /\ run.shield # NoTx =>
         Splits(run.shield, run.total) /\ PaysShieldRate(run.shield, NumInputs, run.feerate)
    /\ run.stage \in {"pools", "wrap", "publish"} => run.standard # NoTx
    /\ run.pools["shield"] \in {"submit", "accepted"} => run.shield # NoTx

\* What the finder was told is what happened: "submitted" after a pool's
\* success, "queued" if the claim is in the queue or left it over a relay.
ToldAsItWas ==
    \A c \in Claim :
        /\ told[c] = "submitted" => acknowledged[c] > 0
        /\ told[c] = "unconfirmed" => acknowledged[c] = 0
        /\ told[c] = "queued" => c \in pending \cup relayed

\* The mark keeps later drains from submitting an entry: it must not be set before
\* a pool has accepted the claim (claim-queue.js).
MarkedWereAcknowledged == \A c \in shieldSubmitted : acknowledged[c] > 0

\* What the finder is told and what the queue keeps of a claim is what happened
\* to it, whatever drains overlap with the claim and with each other: a claim that
\* no pool accepted is neither reported nor marked as submitted, one that left the
\* queue was relayed.  That a marked entry is not submitted again is not said: of
\* two drains that overlap, each tests the mark in the copy it loaded.
RecordedAsItWas == ToldAsItWas /\ MarkedWereAcknowledged

IInv ==
    /\ TypeOK
    /\ AmountsAddUp
    /\ Fresh
    /\ OnlyQueuedDrain
    /\ DrainsSound
    /\ AttemptsRecorded
    /\ ToldAsItWas
    /\ MarkedWereAcknowledged

\* Entries leave the queue only over a relay, and keep their mark, also when
\* drains overlap with each other and with a new hit (claim-queue.js).
QueueKeeps ==
    [][\A c \in pending :
         IF c \in pending'
         THEN c \in shieldSubmitted => c \in shieldSubmitted'
         ELSE c \in relayed']_vars

\* Every call of a claim is bounded by a deadline: runClaim returns.
ClaimEnds == []<>(run.stage = "idle")

\* Every drain that starts ends, or is gone with its page.
DrainsEnd == \A d \in Drain : []<>~Running(drains[d])
=============================================================================
