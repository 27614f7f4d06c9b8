------------------------------ MODULE ChargeLedger --------------------------
(***************************************************************************)
(* What usage billing promises, whatever the order of deliveries, failures *)
(* and retention jobs: a "billable request that must be applied at most    *)
(* once" (service/usage_billing.go). A charge changes the balance of its   *)
(* user and the used quota of its API key together.                        *)
(***************************************************************************)
EXTENDS Integers

CONSTANTS
    Requests,        \* (request_id, api_key_id) pairs
    Costs,           \* possible costs
    InitialBalance

VARIABLES
    charged,         \* requests already charged
    balance,         \* users.balance
    quotaUsed        \* api_keys.quota_used

ledger == <<charged, balance, quotaUsed>>

Init ==
    /\ charged = {}
    /\ balance = InitialBalance
    /\ quotaUsed = 0

Charge(r, cost) ==
    /\ r \notin charged
    /\ charged' = charged \cup {r}
    /\ balance' = balance - cost
    /\ quotaUsed' = quotaUsed + cost

Next == \E r \in Requests, cost \in Costs : Charge(r, cost)

Spec == Init /\ [][Next]_ledger
=============================================================================
