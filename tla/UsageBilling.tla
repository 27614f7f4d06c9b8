------------------------------ MODULE UsageBilling --------------------------
(***************************************************************************)
(* Charging for usage: applyUsageBilling (service/gateway_service.go) and  *)
(* the transaction of usageBillingRepository.Apply (repository/usage_      *)
(* billing_repo.go), statement by statement, for one user, API key and     *)
(* upstream account. A delivery is one call of applyUsageBilling; several  *)
(* deliveries may carry the same request id. The retention job moves old   *)
(* rows of usage_billing_dedup to its archive.                             *)
(*                                                                         *)
(* An uncommitted insert blocks inserts of the same key. The effects of a  *)
(* transaction become visible together when it commits.                    *)
(***************************************************************************)
EXTENDS Integers, FiniteSets

CONSTANTS
    Deliveries,
    Requests,        \* (request_id, api_key_id) pairs
    Fingerprints,
    Req,             \* delivery -> request
    Fp,              \* delivery -> RequestFingerprint
    Cost,            \* delivery -> cost
    InitialBalance,
    KeyQuota,        \* without a quota or limit nothing is counted,
    AccountLimit     \* so both are positive here

NoRow == "none"

ASSUME BillingAssumption ==
    /\ IsFiniteSet(Deliveries)
    /\ Req \in [Deliveries -> Requests]
    /\ Fp \in [Deliveries -> Fingerprints]
    /\ Cost \in [Deliveries -> Nat \ {0}]
    /\ InitialBalance \in Int
    /\ KeyQuota \in Nat \ {0} /\ AccountLimit \in Nat \ {0}
    /\ NoRow \notin Fingerprints /\ NoRow \notin Deliveries

VARIABLES
    dedup,           \* usage_billing_dedup: request -> fingerprint or NoRow
    archive,         \* usage_billing_dedup_archive
    claim,           \* request -> delivery with an uncommitted insert
    balance,
    quotaUsed,       \* of the API key
    keyStatus,
    accountUsed,     \* accounts.extra.quota_used
    notified,        \* whether an account_changed event was written
    exhausted,       \* deliveries told APIKeyQuotaExhausted
    finalized,       \* deliveries that queued their cache updates
    stage

rows == <<dedup, archive, claim>>
effects == <<balance, quotaUsed, keyStatus, accountUsed, notified, exhausted>>
billingVars == <<rows, effects, finalized, stage>>

Ended == {"applied", "duplicate", "failed"}

BillingInit ==
    /\ dedup = [r \in Requests |-> NoRow]
    /\ archive = [r \in Requests |-> NoRow]
    /\ claim = [r \in Requests |-> NoRow]
    /\ balance = InitialBalance
    /\ quotaUsed = 0
    /\ keyStatus = "active"
    /\ accountUsed = 0
    /\ notified = FALSE
    /\ exhausted = {}
    /\ finalized = {}
    /\ stage = [d \in Deliveries |-> "insert"]

Advance(d, p) == stage' = [stage EXCEPT ![d] = p]
Unclaim(d) == claim' = [claim EXCEPT ![Req[d]] = NoRow]

(***************************************************************************)
(* claimUsageBillingKey                                                    *)
(***************************************************************************)
(* INSERT ... ON CONFLICT DO NOTHING; waits for an uncommitted insert.     *)
InsertClaim(d) ==
    /\ stage[d] = "insert"
    /\ claim[Req[d]] = NoRow
    /\ dedup[Req[d]] = NoRow
    /\ claim' = [claim EXCEPT ![Req[d]] = d]
    /\ Advance(d, "inserted")
    /\ UNCHANGED <<dedup, archive, effects, finalized>>

InsertConflict(d) ==
    /\ stage[d] = "insert"
    /\ claim[Req[d]] = NoRow
    /\ dedup[Req[d]] # NoRow
    /\ Advance(d, "conflict")
    /\ UNCHANGED <<rows, effects, finalized>>

(* Mutant: a duplicate is finalized like a new charge.                     *)
SelectExistingFinalizes(d) ==
    /\ stage[d] = "conflict"
    /\ Advance(d, IF dedup[Req[d]] = Fp[d] THEN "committed" ELSE "failed")
    /\ UNCHANGED <<rows, effects, finalized>>

(* The row may have been archived since the conflict: then an error.       *)
SelectExisting(d) ==
    /\ stage[d] = "conflict"
    /\ Advance(d, IF dedup[Req[d]] = Fp[d] THEN "duplicate" ELSE "failed")
    /\ UNCHANGED <<rows, effects, finalized>>

(* Mutant: the archive is not looked at.                                   *)
SelectArchivedSkipped(d) ==
    /\ stage[d] = "inserted"
    /\ Advance(d, "claimed")
    /\ UNCHANGED <<rows, effects, finalized>>

SelectArchived(d) ==
    /\ stage[d] = "inserted"
    /\ IF archive[Req[d]] = NoRow
       THEN Advance(d, "claimed") /\ UNCHANGED claim
       ELSE /\ Advance(d, IF archive[Req[d]] = Fp[d]
                          THEN "duplicate" ELSE "failed")
            /\ Unclaim(d)
    /\ UNCHANGED <<dedup, archive, effects, finalized>>

(***************************************************************************)
(* applyUsageBillingEffects and COMMIT                                     *)
(***************************************************************************)
(* Mutant: every charge at or above the quota counts as the crossing one.  *)
KeyCrossesAlways(cost) == quotaUsed + cost >= KeyQuota

(* The charge that takes the key from below its quota to the quota.        *)
KeyCrosses(cost) ==
    quotaUsed < KeyQuota /\ quotaUsed + cost >= KeyQuota

MarkedStatus(cost) ==
    IF keyStatus = "active" /\ KeyCrosses(cost) THEN "quota_exhausted" ELSE keyStatus

(* Mutant: reaching the limit exactly does not count.                      *)
AccountCrossesAbove(cost) ==
    accountUsed < AccountLimit /\ accountUsed + cost > AccountLimit

(* crossedTotal; the daily and weekly limits are compared the same way.    *)
AccountCrosses(cost) ==
    accountUsed < AccountLimit /\ accountUsed + cost >= AccountLimit

Commit(d) ==
    /\ stage[d] = "claimed"
    /\ balance' = balance - Cost[d]
    /\ quotaUsed' = quotaUsed + Cost[d]
    /\ keyStatus' = MarkedStatus(Cost[d])
    /\ exhausted' = IF KeyCrosses(Cost[d]) THEN exhausted \cup {d} ELSE exhausted
    /\ accountUsed' = accountUsed + Cost[d]
    /\ notified' = (notified \/ AccountCrosses(Cost[d]))
    /\ dedup' = [dedup EXCEPT ![Req[d]] = Fp[d]]
    /\ Unclaim(d)
    /\ Advance(d, "committed")
    /\ UNCHANGED <<archive, finalized>>

(* Mutant: a failed transaction is not rolled back.                        *)
FailNoRollback(d) ==
    /\ stage[d] \notin Ended
    /\ Advance(d, "failed")
    /\ UNCHANGED <<rows, effects, finalized>>

(* A statement fails, the context times out or the process dies: rollback. *)
(* After COMMIT only the reply and the cache updates are lost.             *)
Fail(d) ==
    /\ stage[d] \notin Ended
    /\ claim' = [r \in Requests |-> IF claim[r] = d THEN NoRow ELSE claim[r]]
    /\ Advance(d, "failed")
    /\ UNCHANGED <<dedup, archive, effects, finalized>>

(* applyUsageBilling after Apply: finalizePostUsageBilling. (Its fallback  *)
(* without request id or repository is not reached in the wired server.)   *)
Finalize(d) ==
    /\ stage[d] = "committed"
    /\ finalized' = finalized \cup {d}
    /\ Advance(d, "applied")
    /\ UNCHANGED <<rows, effects>>

(* CleanupUsageBillingDedup: one statement moves the row.                  *)
Archive(r) ==
    /\ dedup[r] # NoRow
    /\ archive' = [archive EXCEPT ![r] = IF @ = NoRow THEN dedup[r] ELSE @]
    /\ dedup' = [dedup EXCEPT ![r] = NoRow]
    /\ UNCHANGED <<claim, effects, finalized, stage>>

Step(d) ==
    \/ InsertClaim(d) \/ InsertConflict(d) \/ SelectExisting(d)
    \/ SelectArchived(d) \/ Commit(d) \/ Finalize(d)

BillingNext ==
    \/ \E d \in Deliveries : Step(d) \/ Fail(d)
    \/ \E r \in Requests : Archive(r)

(* A statement that can run completes, unless its delivery fails; failing  *)
(* is never counted on.                                                    *)
BillingSpec ==
    /\ BillingInit /\ [][BillingNext]_billingVars
    /\ \A d \in Deliveries : WF_billingVars(Step(d))

-----------------------------------------------------------------------------
BillingTypeOK ==
    /\ dedup \in [Requests -> Fingerprints \cup {NoRow}]
    /\ archive \in [Requests -> Fingerprints \cup {NoRow}]
    /\ claim \in [Requests -> Deliveries \cup {NoRow}]
    /\ balance \in Int /\ quotaUsed \in Nat /\ accountUsed \in Nat
    /\ keyStatus \in {"active", "quota_exhausted"}
    /\ notified \in BOOLEAN
    /\ exhausted \subseteq Deliveries /\ finalized \subseteq Deliveries
    /\ stage \in [Deliveries -> Ended \cup
                    {"insert", "inserted", "conflict", "claimed", "committed"}]

Recorded(r) == dedup[r] # NoRow \/ archive[r] # NoRow

(* Every request is charged at most once, and it is recorded as charged    *)
(* exactly when its balance and quota effects are in the database: across  *)
(* concurrent deliveries, failures between any two statements and rows     *)
(* moving to the archive in between (Apply, claimUsageBillingKey).         *)
Ledger == INSTANCE ChargeLedger WITH
    charged <- {r \in Requests : Recorded(r)},
    Costs <- {Cost[d] : d \in Deliveries}
AtMostOnce == Ledger!Spec

(* The cache of a request's user is told once about a charge, and only if  *)
(* it was committed (applyUsageBilling returns early when not Applied).    *)
CacheToldOnce ==
    \A d \in finalized :
        /\ Recorded(Req[d])
        /\ \A e \in finalized : Req[e] = Req[d] => e = d

(* The key is marked exhausted by exactly the charge that crosses its      *)
(* quota, and that delivery alone invalidates the authentication cache.    *)
ExhaustedByOneCharge ==
    /\ keyStatus = "quota_exhausted" <=> quotaUsed >= KeyQuota
    /\ (exhausted # {}) <=> (keyStatus = "quota_exhausted")
    /\ \A d, e \in exhausted : d = e

(* Once the account is over its limit the scheduler has been told          *)
(* (enqueueSchedulerOutbox), whatever order the charges committed in.      *)
SchedulerTold ==
    accountUsed >= AccountLimit => notified

(* Every delivery ends: nobody waits for a claim that is never given up.   *)
DeliveriesEnd == \A d \in Deliveries : stage[d] = "insert" ~> stage[d] \in Ended

(* The inductive invariant: a claim belongs to a delivery inside its       *)
(* transaction, excludes a row of the same key, and past the archive check *)
(* the key is recorded nowhere; a committed delivery's key stays recorded  *)
(* and has one such delivery.                                              *)
ClaimInv ==
    /\ \A d \in Deliveries :
         stage[d] \in {"inserted", "claimed"} <=> claim[Req[d]] = d
    /\ \A r \in Requests : claim[r] # NoRow =>
         /\ Req[claim[r]] = r
         /\ dedup[r] = NoRow
    /\ \A r \in Requests : dedup[r] # NoRow => archive[r] = NoRow
    /\ \A d \in Deliveries : stage[d] = "claimed" => ~Recorded(Req[d])

FinalInv ==
    /\ \A d \in Deliveries :
         d \in finalized \/ stage[d] = "committed" =>
           /\ d \in finalized => stage[d] = "applied"
           /\ Recorded(Req[d])
           /\ \A e \in Deliveries :
                e \in finalized \/ stage[e] = "committed" =>
                  (Req[e] = Req[d] => e = d)
=============================================================================
