------------------------- MODULE SystemOperationLock ------------------------
(***************************************************************************)
(* SystemOperationLockService (service/system_operation_lock_service.go):  *)
(* a lease on one idempotency record that serialises system operations,    *)
(* kept alive by a renewal goroutine of the holder. The operation id is    *)
(* the fingerprint of the record; a retry carries the same id.             *)
(***************************************************************************)
EXTENDS IdempotencyStore

CONSTANT Runners    \* server processes that run system operations

VARIABLES
    stage,      \* per runner
    began,      \* per runner: time.Now() at the start of Acquire
    op,         \* per runner: the operation id
    found,      \* per runner: the record it read
    recordID,   \* per runner: recordID of the lock it holds
    renewer,    \* per runner: its renewLoop
    holder,     \* history: runner that made the last claim
    lapses      \* history: a lease ran out under a running operation with its
                \* renewer on ("late") or ended ("unrenewed"), or the cleanup
                \* deleted the renewed row ("swept")

runnerVars == <<stage, began, op, found, recordID, renewer>>
lockHistory == <<holder, lapses>>
lockVars == <<now, storeVars, runnerVars, lockHistory>>

LockInit ==
    /\ StoreInit
    /\ stage = [p \in Runners |-> "idle"]
    /\ began = [p \in Runners |-> 0]
    /\ op \in [Runners -> Fingerprints]
    /\ found = [p \in Runners |-> NoRecord]
    /\ recordID = [p \in Runners |-> 0]
    /\ renewer = [p \in Runners |-> "off"]
    /\ holder \in Runners
    /\ lapses = {}

Goto(p, q) == stage' = [stage EXCEPT ![p] = q]
Add(a, happened) == IF happened THEN {a} ELSE {}

Acquire(p, o) ==
    /\ stage[p] = "idle"
    /\ Goto(p, "create")
    /\ began' = [began EXCEPT ![p] = now]
    /\ op' = [op EXCEPT ![p] = o]
    /\ UNCHANGED <<now, storeVars, found, recordID, renewer, lockHistory>>

Granted(p, id) ==
    /\ Goto(p, "held")
    /\ recordID' = [recordID EXCEPT ![p] = id]
    /\ renewer' = [renewer EXCEPT ![p] = "on"]
    /\ found' = [found EXCEPT ![p] = NoRecord]
    /\ holder' = p
    /\ lapses' = lapses
         \cup Add("late", now >= began[p] + ProcessingTimeout \/ now >= began[p] + TTL)
    /\ UNCHANGED <<now, began, op>>

AcquireCreate(p) ==
    /\ stage[p] = "create"
    /\ CreateProcessing(op[p], began[p])
    /\ Granted(p, lastId + 1)

AcquireConflict(p) ==
    /\ stage[p] = "create"
    /\ rec.id # 0
    /\ Goto(p, "get")
    /\ UNCHANGED <<now, storeVars, began, op, found, recordID, renewer, lockHistory>>

Busy(p) == rec.status = "processing" /\ rec.locked > began[p]

AcquireGet(p) ==
    /\ stage[p] = "get"
    /\ IF rec.id = 0 \/ Busy(p)
       THEN Goto(p, "idle") /\ UNCHANGED found
       ELSE Goto(p, "reclaim") /\ found' = [found EXCEPT ![p] = rec]
    /\ UNCHANGED <<now, storeVars, began, op, recordID, renewer, lockHistory>>

AcquireReclaim(p) ==
    /\ stage[p] = "reclaim"
    /\ TryReclaim(found[p].id, found[p].status, began[p])
    /\ Granted(p, found[p].id)

AcquireReclaimLost(p) ==
    /\ stage[p] = "reclaim"
    /\ ~Reclaimable(found[p].id, found[p].status, began[p])
    /\ Goto(p, "idle")
    /\ found' = [found EXCEPT ![p] = NoRecord]
    /\ UNCHANGED <<now, storeVars, began, op, recordID, renewer, lockHistory>>

(* A tick of renewLoop: the lease is extended, or the loop ends because    *)
(* no row matched. A store error changes nothing.                          *)
Renew(p) ==
    /\ renewer[p] = "on"
    /\ Extendable(recordID[p], op[p])
    /\ rec' = [rec EXCEPT !.locked = now + ProcessingTimeout, !.expires = now + TTL]
    /\ UNCHANGED <<now, lastId, victims, runnerVars, lockHistory>>

RenewLost(p) ==
    /\ renewer[p] = "on"
    /\ ~Extendable(recordID[p], op[p])
    /\ renewer' = [renewer EXCEPT ![p] = "stopped"]
    /\ UNCHANGED <<now, storeVars, stage, began, op, found, recordID, lockHistory>>

Ended(p) ==
    /\ Goto(p, "idle")
    /\ renewer' = [renewer EXCEPT ![p] = "off"]
    /\ recordID' = [recordID EXCEPT ![p] = 0]
    /\ UNCHANGED <<now, began, op, found, lockHistory>>

Release(p) ==
    /\ stage[p] = "held"
    /\ \/ MarkSucceeded(recordID[p], op[p], now + TTL)
       \/ MarkFailedRetryable(recordID[p], now, now + TTL)
    /\ Ended(p)

(* The process dies, or the store refuses the release.                     *)
Crash(p) ==
    /\ stage[p] = "held"
    /\ Ended(p)
    /\ UNCHANGED storeVars

(* A store error during Acquire; a committed claim may be lost with it.    *)
AcquireFails(p) ==
    /\ stage[p] \in {"create", "get", "reclaim"}
    /\ Goto(p, "idle")
    /\ found' = [found EXCEPT ![p] = NoRecord]
    /\ \/ UNCHANGED storeVars
       \/ stage[p] = "create" /\ CreateProcessing(op[p], began[p])
       \/ stage[p] = "reclaim" /\ TryReclaim(found[p].id, found[p].status, began[p])
    /\ UNCHANGED <<now, began, op, recordID, renewer, lockHistory>>

LockCleanupSelects ==
    /\ SelectVictims
    /\ UNCHANGED <<now, runnerVars, lockHistory>>

LockCleanupDeletes(i) ==
    /\ DeleteVictim(i)
    /\ lapses' = lapses \cup Add("swept", SweepsLive(i))
    /\ UNCHANGED <<now, runnerVars, holder>>

RunsOut(p) ==
    /\ stage[p] = "held" /\ rec.id = recordID[p] /\ rec.status = "processing"
    /\ now + 1 >= rec.locked \/ now + 1 >= rec.expires

LockTick ==
    /\ now < MaxTime
    /\ now' = now + 1
    /\ lapses' = lapses
         \cup Add("late", \E p \in Runners : RunsOut(p) /\ renewer[p] = "on")
         \cup Add("unrenewed", \E p \in Runners : RunsOut(p) /\ renewer[p] # "on")
    /\ UNCHANGED <<storeVars, runnerVars, holder>>

LockNext ==
    \/ \E p \in Runners :
          \/ \E o \in Fingerprints : Acquire(p, o)
          \/ AcquireCreate(p) \/ AcquireConflict(p) \/ AcquireGet(p)
          \/ AcquireReclaim(p) \/ AcquireReclaimLost(p) \/ AcquireFails(p)
          \/ Renew(p) \/ RenewLost(p) \/ Release(p) \/ Crash(p)
    \/ LockCleanupSelects \/ LockTick
    \/ \E i \in victims : LockCleanupDeletes(i)

LockSpec == LockInit /\ [][LockNext]_lockVars

-----------------------------------------------------------------------------
LockTypeOK ==
    /\ StoreTypeOK
    /\ stage \in [Runners -> {"idle", "create", "get", "reclaim", "held"}]
    /\ began \in [Runners -> Nat]
    /\ op \in [Runners -> Fingerprints]
    /\ found \in [Runners -> Record]
    /\ recordID \in [Runners -> 0..lastId]
    /\ renewer \in [Runners -> {"off", "on", "stopped"}]
    /\ holder \in Runners
    /\ lapses \in SUBSET {"late", "unrenewed", "swept"}

(* Two system operations never run at once, as long as no lease runs out   *)
(* under a running operation and the cleanup deletes no row renewed after  *)
(* its snapshot: the lock may change hands after a release, a crash or a   *)
(* lost reply, to the same operation id or another, as often as it likes.  *)
ExclusiveOperation ==
    lapses = {} =>
        \A p, q \in Runners : stage[p] = "held" /\ stage[q] = "held" => p = q

(* "locked_until should be renewed while lock is held" (the lock's test):  *)
(* the renewer of the runner that holds the row does not give up. Not an   *)
(* invariant: a reclaimed row keeps the fingerprint of its first holder,   *)
(* which ExtendProcessingLock compares, so that a lease taken over from    *)
(* another operation id is never renewed and runs out under the operation. *)
RenewedWhileHeld ==
    lapses = {} =>
        \A p \in Runners :
           stage[p] = "held" /\ holder = p /\ rec.id = recordID[p] /\ rec.status = "processing"
             => renewer[p] = "on"
=============================================================================
