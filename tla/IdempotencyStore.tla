--------------------------- MODULE IdempotencyStore -------------------------
(***************************************************************************)
(* One row of idempotency_records (repository/idempotency_repo.go): the    *)
(* record of one (scope, key) pair, shared by the request coordinator and  *)
(* the system operation lock. Each operator is one SQL statement, except   *)
(* DeleteExpired, which selects in one snapshot what it then deletes by id.*)
(*                                                                         *)
(* A fresh row gets a fresh id. locked_until 0 stands for NULL, which each *)
(* statement treats as a time already past.                                *)
(***************************************************************************)
EXTENDS Integers

CONSTANTS
    Fingerprints,       \* request fingerprints, or operation ids
    TTL,                \* lifetime of a record
    ProcessingTimeout,  \* lifetime of a claim
    MaxTime             \* bound: clock

ASSUME StoreAssumption ==
    /\ TTL \in Nat \ {0}
    /\ ProcessingTimeout \in Nat \ {0}
    /\ MaxTime \in Nat

VARIABLES
    now,
    rec,      \* the row; id 0 when there is none
    lastId,   \* last id given out
    victims   \* ids running DeleteExpired statements have selected

storeVars == <<rec, lastId, victims>>

NoBody == "none"
Truncated == "truncated"

Record == [id : Nat, fp : Fingerprints \cup {NoBody},
           status : {"processing", "succeeded", "failed_retryable"},
           locked : Nat, expires : Nat,
           body : Fingerprints \cup {NoBody, Truncated}]

NoRecord == [id |-> 0, fp |-> NoBody, status |-> "processing", locked |-> 0,
             expires |-> 0, body |-> NoBody]

StoreInit ==
    /\ now = 1
    /\ rec = NoRecord
    /\ lastId = 0
    /\ victims = {}

(* CreateProcessing: ON CONFLICT DO NOTHING.                               *)
CreateProcessing(f, at) ==
    /\ rec.id = 0
    /\ lastId' = lastId + 1
    /\ rec' = [id |-> lastId + 1, fp |-> f, status |-> "processing",
               locked |-> at + ProcessingTimeout, expires |-> at + TTL,
               body |-> NoBody]
    /\ UNCHANGED victims

(* Mutants: the status, or the lock, is not compared.                      *)
ReclaimableAnyStatus(id, from, at) == rec.id = id /\ rec.locked <= at
ReclaimableWhileLocked(id, from, at) == rec.id = id /\ rec.status = from

(* TryReclaim: the WHERE clause, then the SET clause. The fingerprint, the *)
(* body and the expiry are not compared, the first two not changed.        *)
Reclaimable(id, from, at) ==
    /\ id # 0
    /\ rec.id = id
    /\ rec.status = from
    /\ rec.locked <= at

TryReclaim(id, from, at) ==
    /\ Reclaimable(id, from, at)
    /\ rec' = [rec EXCEPT !.status = "processing",
                          !.locked = at + ProcessingTimeout, !.expires = at + TTL]
    /\ UNCHANGED <<lastId, victims>>

(* ExtendProcessingLock                                                    *)
Extendable(id, f) == rec.id = id /\ rec.status = "processing" /\ rec.fp = f

(* MarkSucceeded and MarkFailedRetryable: WHERE id = $1 and nothing else.  *)
MarkSucceeded(id, b, exp) ==
    /\ rec' = IF rec.id # id THEN rec
              ELSE [rec EXCEPT !.status = "succeeded", !.body = b, !.locked = 0,
                               !.expires = exp]
    /\ UNCHANGED <<lastId, victims>>

MarkFailedRetryable(id, until, exp) ==
    /\ rec' = IF rec.id # id THEN rec
              ELSE [rec EXCEPT !.status = "failed_retryable", !.locked = until,
                               !.expires = exp]
    /\ UNCHANGED <<lastId, victims>>

(* DeleteExpired, the cleanup service's statement: WITH victims AS (SELECT *)
(* ...) reads the snapshot of the statement, DELETE ... WHERE id IN victims *)
(* takes the rows as they are when it reaches them, renewed or not.        *)
SelectVictims ==
    /\ rec.id # 0 /\ rec.expires <= now
    /\ victims' = victims \cup {rec.id}
    /\ UNCHANGED <<rec, lastId>>

DeleteVictim(i) ==
    /\ i \in victims
    /\ victims' = victims \ {i}
    /\ rec' = IF rec.id = i THEN NoRecord ELSE rec
    /\ UNCHANGED lastId

(* History: the row deleted was renewed since the snapshot.                *)
SweepsLive(i) == rec.id = i /\ rec.expires > now

StoreTypeOK ==
    /\ now \in Nat \ {0}
    /\ rec \in Record
    /\ lastId \in Nat
    /\ victims \subseteq Nat
=============================================================================
