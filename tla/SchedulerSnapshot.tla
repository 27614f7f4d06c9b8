------------------------- MODULE SchedulerSnapshot -------------------------
(***************************************************************************)
(* The scheduler's account snapshot: the outbox written beside every       *)
(* change of an account or group (repository/account_repo.go,              *)
(* scheduler_outbox_repo.go), the workers of SchedulerSnapshotService      *)
(* (service/scheduler_snapshot_service.go) and the Redis keys of           *)
(* repository/scheduler_cache.go, for one account in one bucket.           *)
(*                                                                         *)
(* A database state is a version number, row. The snapshot, the account    *)
(* entry and every copy in flight are the version that was read. At the    *)
(* versions in EmptyVersions the account is not schedulable, or not in the *)
(* bucket's group and platform, and the bucket has no member; in Gone it   *)
(* is deleted. Snapshot versions (INCR) are counted from the active one,   *)
(* with which activateSnapshotScript compares them.                        *)
(***************************************************************************)
EXTENDS Integers, Sequences, FiniteSetsExt

CONSTANTS
    Writers,         \* repository calls that change the account or group
    Billers,         \* billing transactions that count an account's quota
    Pollers,         \* outbox workers, one per server process
    Rebuilders,      \* start-up and interval rebuilds
    Readers,         \* requests that find no usable snapshot
    Kinds,           \* of events, see KindAssumption
    MaxVersion,      \* bound on the number of changes
    MaxEvents,       \* bound on the ids drawn
    MaxFaults,       \* bound on failures and crashes
    EmptyVersions,
    Gone,            \* versions after the account's deletion
    BatchLimit       \* LIMIT of ListAfter

None == -1
Nobody == "nobody"

EventKinds == {"account", "groups", "group", "full", "used"}
Dedups == {"account", "group", "full"}    \* schedulerOutboxEventSupportsDedup
Jobs == Pollers \cup Rebuilders \cup Readers

ASSUME SnapshotAssumption ==
    /\ Kinds \subseteq EventKinds
    /\ MaxVersion \in Nat /\ MaxEvents \in Nat /\ MaxFaults \in Nat
    /\ BatchLimit \in Nat \ {0}
    /\ EmptyVersions \subseteq 0..MaxVersion
    /\ Gone \subseteq EmptyVersions \cap {MaxVersion}
    /\ Nobody \notin Jobs
    /\ Pollers \cap Rebuilders = {} /\ Pollers \cap Readers = {}
    /\ Rebuilders \cap Readers = {} /\ Writers \cap Billers = {}
    /\ (Writers \cup Billers) \cap Jobs = {}

VARIABLES
    row,             \* database version
    outbox,          \* id -> [kind, state]; ids are drawn before commit
    watermark,
    snap,            \* version the active snapshot was loaded at
    meta,            \* version of the sched:acc and sched:meta entries
    drawn,           \* last snapshot version drawn, above the active one
    vers,            \* job -> its version above the active one; 0 if none
    lock,            \* holder of the bucket lock (the key itself has no owner)
    pc,
    val,             \* version read by a process and not yet stored
    kind,            \* writer -> event it is about
    id,              \* biller -> outbox id drawn in its transaction
    batch,           \* poller -> ids listed and not yet handled, the lowest next
    listed,          \* poller -> last id of the batch
    seen,            \* poller -> bucket already rebuilt in this batch
    faults,
    excuse           \* history: what may have left the snapshot stale

dbVars == <<row, outbox>>
versionVars == <<drawn, vers>>
cacheVars == <<snap, meta, versionVars>>
writerVars == <<kind, id>>
pollVars == <<batch, listed, seen>>
vars == <<dbVars, watermark, cacheVars, lock, pc, val, writerVars, pollVars,
          faults, excuse>>

Init ==
    /\ row = 0 /\ outbox = <<>> /\ watermark = 0
    /\ snap = None /\ meta = None /\ lock = Nobody
    /\ drawn = 0 /\ vers = [j \in Jobs |-> 0]
    /\ pc = [p \in Writers \cup Billers \cup Jobs |-> "idle"]
    /\ val = [p \in Writers \cup Billers \cup Jobs |-> None]
    /\ kind = [w \in Writers |-> "account"]
    /\ id = [w \in Billers |-> 0]
    /\ batch = [p \in Pollers |-> {}]
    /\ listed = [p \in Pollers |-> 0]
    /\ seen = [p \in Pollers |-> FALSE]
    /\ faults = 0
    /\ excuse = FALSE

To(p, s) == pc' = [pc EXCEPT ![p] = s]
Keep(p, v) == val' = [val EXCEPT ![p] = v]
Visible == {i \in DOMAIN outbox : outbox[i].state = "committed"}
Blame(cond) == excuse' = (excuse \/ cond)

First(p) == Min(batch[p])
Event(p) == outbox[First(p)].kind
Locked == {"load", "incr", "activate", "unlock"}

(* A job between its database read and its activation.                     *)
InFlight(j) == pc[j] \in {"incr", "activate"}

(* Poller p has read the database for event i, or will leave it out        *)
(* because this batch has rebuilt the bucket already.                      *)
SpentBy(p, i) ==
    /\ pc[p] \notin {"idle", "load"} /\ i <= listed[p]
    /\ \/ i \notin batch[p]
       \/ seen[p] /\ outbox[i].kind # "full"
       \/ i = First(p) /\ (InFlight(p) \/ pc[p] = "unlock")

Spent(i) == i <= watermark \/ \E p \in Pollers : SpentBy(p, i)

(***************************************************************************)
(* Writers: accountRepository, groupRepository, usageBillingRepository     *)
(***************************************************************************)
(* A statement of its own, followed by the enqueue as another one.         *)
Change(w, k) ==
    /\ pc[w] = "idle" /\ row < MaxVersion /\ Len(outbox) < MaxEvents
    /\ k = "used" \/ row + 1 \notin Gone
    /\ row' = IF k = "used" THEN row ELSE row + 1
    /\ kind' = [kind EXCEPT ![w] = k]
    /\ To(w, "enqueue")
    /\ UNCHANGED <<outbox, watermark, cacheVars, lock, val, id, pollVars,
                   faults, excuse>>

(* Delete, then deleteSchedulerAccountSnapshot, whose error is logged.     *)
Delete(w) ==
    /\ pc[w] = "idle" /\ row < MaxVersion /\ Len(outbox) < MaxEvents
    /\ row + 1 \in Gone
    /\ row' = row + 1
    /\ kind' = [kind EXCEPT ![w] = "account"]
    /\ To(w, "delete")
    /\ UNCHANGED <<outbox, watermark, cacheVars, lock, val, id, pollVars,
                   faults, excuse>>

DeleteEntry(w) ==
    /\ pc[w] = "delete"
    /\ \/ meta' = None /\ UNCHANGED faults
       \/ faults < MaxFaults /\ faults' = faults + 1 /\ UNCHANGED meta
    /\ To(w, "enqueue")
    /\ UNCHANGED <<dbVars, watermark, snap, versionVars, lock, val, writerVars,
                   pollVars, excuse>>

(* A change without an event: BindGroups with an empty list, or the end of *)
(* a rate limit, an overload or the account's term, which the queries of   *)
(* loadAccountsFromDB compare with the clock.                              *)
Unannounced ==
    /\ row < MaxVersion /\ row + 1 \notin Gone
    /\ row' = row + 1
    /\ Blame(TRUE)
    /\ UNCHANGED <<outbox, watermark, cacheVars, lock, pc, val, writerVars,
                   pollVars, faults>>

AfterEnqueue(w) ==
    /\ To(w, "idle") \/ (kind[w] \in {"account", "groups"} /\ To(w, "syncRead"))
    /\ kind' = [kind EXCEPT ![w] = "account"]

Enqueue(w) ==
    /\ pc[w] = "enqueue"
    /\ outbox' = Append(outbox, [kind |-> kind[w], state |-> "committed"])
    /\ AfterEnqueue(w)
    /\ UNCHANGED <<row, watermark, cacheVars, lock, val, id, pollVars,
                   faults, excuse>>

(* WHERE NOT EXISTS: an event of the same kind was written in the last     *)
(* second. It may have been handled since.                                 *)
EnqueueDeduped(w) ==
    /\ pc[w] = "enqueue" /\ kind[w] \in Dedups
    /\ \E i \in Visible :
         /\ outbox[i].kind = kind[w]
         /\ Blame(Spent(i))
    /\ AfterEnqueue(w)
    /\ UNCHANGED <<dbVars, watermark, cacheVars, lock, val, id,
                   pollVars, faults>>

(* The error is logged and the change stands; or the process dies here.    *)
EnqueueFails(w) ==
    /\ pc[w] \in {"delete", "enqueue"} /\ faults < MaxFaults
    /\ faults' = faults + 1
    /\ Blame(kind[w] # "used")
    /\ AfterEnqueue(w)
    /\ UNCHANGED <<dbVars, watermark, cacheVars, lock, val, id,
                   pollVars>>

(* syncSchedulerAccountSnapshot: GetByID, then SetAccount. A deleted       *)
(* account is not found.                                                   *)
SyncRead(w) ==
    /\ pc[w] = "syncRead"
    /\ IF row \in Gone
       THEN UNCHANGED val /\ To(w, "idle")
       ELSE Keep(w, row) /\ To(w, "syncWrite")
    /\ UNCHANGED <<dbVars, watermark, cacheVars, lock, writerVars, pollVars,
                   faults, excuse>>

SyncWrite(w) ==
    /\ pc[w] = "syncWrite"
    /\ meta' = val[w]
    /\ Keep(w, None) /\ To(w, "idle")
    /\ UNCHANGED <<dbVars, watermark, snap, versionVars, lock, writerVars, pollVars,
                   faults, excuse>>

SyncFails(w) ==
    /\ pc[w] \in {"syncRead", "syncWrite"} /\ faults < MaxFaults
    /\ faults' = faults + 1
    /\ Keep(w, None) /\ To(w, "idle")
    /\ UNCHANGED <<dbVars, watermark, cacheVars, lock, writerVars, pollVars, excuse>>

(* incrementUsageBillingAccountQuota writes its event inside the billing   *)
(* transaction: the id is drawn now, the row becomes visible at COMMIT.    *)
TxInsert(w) ==
    /\ pc[w] = "idle" /\ row < MaxVersion /\ Len(outbox) < MaxEvents
    /\ \A v \in Billers : pc[v] # "tx"
    /\ outbox' = Append(outbox, [kind |-> "account", state |-> "open"])
    /\ id' = [id EXCEPT ![w] = Len(outbox) + 1]
    /\ To(w, "tx")
    /\ UNCHANGED <<row, watermark, cacheVars, lock, val, kind, pollVars,
                   faults, excuse>>

(* The same WHERE NOT EXISTS: the transaction writes no event of its own.  *)
TxDeduped(w) ==
    /\ pc[w] = "idle" /\ row < MaxVersion
    /\ \A v \in Billers : pc[v] # "tx"
    /\ \E i \in Visible : outbox[i].kind = "account"
    /\ To(w, "tx")
    /\ UNCHANGED <<dbVars, watermark, cacheVars, lock, val, writerVars, pollVars,
                   faults, excuse>>

Overtaken(i) ==
    i <= watermark \/ \E p \in Pollers : pc[p] # "idle" /\ i < listed[p]

TxEnds(w, s) ==
    /\ outbox' = IF id[w] = 0 THEN outbox ELSE [outbox EXCEPT ![id[w]].state = s]
    /\ id' = [id EXCEPT ![w] = 0]
    /\ To(w, "idle")

TxCommit(w) ==
    /\ pc[w] = "tx" /\ row < MaxVersion /\ row + 1 \notin Gone
    /\ row' = row + 1
    /\ Blame(IF id[w] = 0 THEN \A i \in Visible : Spent(i) \/ outbox[i].kind = "used"
             ELSE Overtaken(id[w]))
    /\ TxEnds(w, "committed")
    /\ UNCHANGED <<watermark, cacheVars, lock, val, kind, pollVars, faults>>

TxRollback(w) ==
    /\ pc[w] = "tx"
    /\ TxEnds(w, "aborted")
    /\ UNCHANGED <<row, watermark, cacheVars, lock, val, kind, pollVars,
                   faults, excuse>>

(***************************************************************************)
(* rebuildBucket and SetSnapshot, for whoever runs them                    *)
(***************************************************************************)
(* What follows a rebuild: the next event, or nothing.                     *)
Return(j) ==
    IF j \in Pollers /\ batch[j] # {}
    THEN /\ batch' = [batch EXCEPT ![j] = @ \ {First(j)}]
         /\ To(j, "next")
    ELSE To(j, "idle") /\ UNCHANGED batch

ForgetBatch(j) ==
    IF j \in Pollers
    THEN /\ batch' = [batch EXCEPT ![j] = {}]
         /\ listed' = [listed EXCEPT ![j] = 0]
         /\ seen' = [seen EXCEPT ![j] = FALSE]
    ELSE UNCHANGED <<batch, listed, seen>>

(* A full rebuild neither consults nor fills the map of the batch.         *)
MarkSeen(j) ==
    seen' = IF j \in Pollers /\ batch[j] # {} /\ Event(j) # "full"
            THEN [seen EXCEPT ![j] = TRUE] ELSE seen

(* Mutant: SET without NX.                                                 *)
TryLockBucketAlways(j) ==
    /\ pc[j] = "lock"
    /\ lock' = j
    /\ MarkSeen(j)
    /\ To(j, "load")
    /\ UNCHANGED <<dbVars, watermark, cacheVars, val, writerVars, batch, listed,
                   faults, excuse>>

TryLockBucket(j) ==
    /\ pc[j] = "lock" /\ lock = Nobody
    /\ lock' = j
    /\ MarkSeen(j)
    /\ To(j, "load")
    /\ UNCHANGED <<dbVars, watermark, cacheVars, val, writerVars, batch, listed,
                   faults, excuse>>

(* The bucket is being rebuilt by someone else: no error, nothing to do.   *)
LockTaken(j) ==
    /\ pc[j] = "lock" /\ lock # Nobody
    /\ MarkSeen(j)
    /\ Return(j)
    /\ Blame(TRUE)
    /\ UNCHANGED <<dbVars, watermark, cacheVars, lock, val, writerVars, listed,
                   faults>>

(* loadAccountsFromDB. Two loads in flight may be stored in either order.  *)
Load(j) ==
    /\ pc[j] = "load"
    /\ Keep(j, row) /\ To(j, "incr")
    /\ LET others == {k \in Jobs \ {j} : InFlight(k)} IN
       Blame(others # {} /\ (faults > 0 \/ (others \cup {j}) \cap Readers # {}))
    /\ UNCHANGED <<dbVars, watermark, cacheVars, lock, writerVars, pollVars,
                   faults>>

Incr(j) ==
    /\ pc[j] = "incr"
    /\ drawn' = drawn + 1
    /\ vers' = [vers EXCEPT ![j] = drawn + 1]
    /\ To(j, "activate")
    /\ UNCHANGED <<dbVars, watermark, snap, meta, lock, val, writerVars,
                   pollVars, faults, excuse>>

WriteAccounts(v) == IF v \in EmptyVersions THEN meta ELSE v

Current(j) == vers[j] > 0

(* Version n becomes the active one; those below it are overtaken.         *)
CountFrom(n) ==
    /\ drawn' = drawn - n
    /\ vers' = [k \in Jobs |-> IF vers[k] > n THEN vers[k] - n ELSE 0]

(* writeAccounts stores the accounts that are in the bucket, then          *)
(* activateSnapshotScript discards a version below the active one.         *)
Activate(j) ==
    /\ pc[j] = "activate"
    /\ meta' = WriteAccounts(val[j])
    /\ IF Current(j)
       THEN /\ snap' = val[j]
            /\ CountFrom(vers[j])
       ELSE UNCHANGED <<snap, versionVars>>
    /\ excuse' = (excuse /\ ~(/\ snap' = row
                              /\ \A k \in Jobs \ {j} : InFlight(k) => val[k] = row))
    /\ Keep(j, None)
    /\ IF j \in Readers THEN To(j, "idle") ELSE To(j, "unlock")
    /\ UNCHANGED <<dbVars, watermark, lock, writerVars, pollVars, faults>>

(* The deferred DEL removes the key whoever set it; its error is ignored.  *)
UnlockBucket(j) ==
    /\ pc[j] = "unlock"
    /\ \/ lock' = Nobody /\ UNCHANGED faults
       \/ faults < MaxFaults /\ faults' = faults + 1 /\ UNCHANGED lock
    /\ Return(j)
    /\ UNCHANGED <<dbVars, watermark, cacheVars, val, writerVars, listed, seen,
                   excuse>>

(* Mutant: the key is set without a TTL.                                   *)
LockExpiresNever == FALSE /\ UNCHANGED vars

(* The key's TTL ends, for a lock left behind or under its holder.         *)
LockExpires ==
    /\ lock # Nobody /\ pc[lock] \notin Locked
    /\ lock' = Nobody
    /\ UNCHANGED <<dbVars, watermark, cacheVars, pc, val, writerVars, pollVars,
                   faults, excuse>>

LockLapses ==
    /\ lock # Nobody /\ pc[lock] \in Locked /\ faults < MaxFaults
    /\ lock' = Nobody /\ faults' = faults + 1
    /\ UNCHANGED <<dbVars, watermark, cacheVars, pc, val, writerVars, pollVars,
                   excuse>>

(* An error or a crash ends the job; a crash leaves the lock behind.       *)
JobFails(j) ==
    /\ pc[j] # "idle" /\ faults < MaxFaults
    /\ faults' = faults + 1
    /\ vers' = [vers EXCEPT ![j] = 0]
    /\ lock' \in IF pc[j] \in Locked /\ j \notin Readers
                 THEN {lock, Nobody} ELSE {lock}
    /\ meta' \in IF pc[j] = "activate" THEN {meta, WriteAccounts(val[j])} ELSE {meta}
    /\ ForgetBatch(j)
    /\ Keep(j, None) /\ To(j, "idle")
    /\ UNCHANGED <<dbVars, watermark, snap, drawn, writerVars, excuse>>

(***************************************************************************)
(* pollOutbox                                                              *)
(***************************************************************************)
Unread == {i \in Visible : i > watermark}
BatchOf == {i \in Unread : Cardinality({k \in Unread : k < i}) < BatchLimit}

(* GetOutboxWatermark and ListAfter.                                       *)
Poll(p) ==
    /\ pc[p] = "idle" /\ Unread # {}
    /\ batch' = [batch EXCEPT ![p] = BatchOf]
    /\ listed' = [listed EXCEPT ![p] = Max(BatchOf)]
    /\ seen' = [seen EXCEPT ![p] = FALSE]
    /\ To(p, "next")
    /\ UNCHANGED <<dbVars, watermark, cacheVars, lock, val, writerVars,
                   faults, excuse>>

(* handleOutboxEvent. A bucket already rebuilt in this batch is left out,  *)
(* except by a full rebuild.                                               *)
Handle(p) ==
    /\ pc[p] = "next" /\ batch[p] # {}
    /\ CASE Event(p) \in {"account", "groups", "used"} ->
              To(p, "read") /\ UNCHANGED batch
         [] Event(p) = "full" \/ (Event(p) = "group" /\ ~seen[p]) ->
              To(p, "lock") /\ UNCHANGED batch
         [] OTHER -> Return(p)
    /\ UNCHANGED <<dbVars, watermark, cacheVars, lock, val, writerVars, listed,
                   seen, faults, excuse>>

(* GetByID of handleAccountEvent, or MGET of UpdateLastUsed.               *)
ReadAccount(p) ==
    /\ pc[p] = "read"
    /\ Keep(p, IF Event(p) = "used" THEN meta ELSE row)
    /\ To(p, "set")
    /\ UNCHANGED <<dbVars, watermark, cacheVars, lock, writerVars, pollVars,
                   faults, excuse>>

(* SetAccount, DeleteAccount of one not found, or the entry written back   *)
(* with its new last_used_at.                                              *)
SetEntry(v) == IF v = None THEN meta ELSE IF v \in Gone THEN None ELSE v

(* rebuildByAccount picks the buckets by the group ids of the event, which *)
(* are its writer's, or those of the account just read, and by the         *)
(* account's platform and mixed_scheduling flag. A bucket that the account *)
(* has left or joined (the mixed one, the one of group 0, one its writer   *)
(* did not know) is left out.                                              *)
SetAccount(p) ==
    /\ pc[p] = "set"
    /\ meta' = SetEntry(val[p])
    /\ Keep(p, None)
    /\ LET asked == Event(p) # "used" /\ ~seen[p] IN
       /\ Return(p) \/ (asked /\ To(p, "lock") /\ UNCHANGED batch)
       /\ Blame(asked /\ pc'[p] # "lock")
    /\ UNCHANGED <<dbVars, watermark, snap, versionVars, lock, writerVars, listed,
                   seen, faults>>

(* SetOutboxWatermark, then checkOutboxLag, which may start a rebuild.     *)
SetOutboxWatermark(p) ==
    /\ pc[p] = "next" /\ batch[p] = {}
    /\ watermark' = listed[p]
    /\ ForgetBatch(p)
    /\ To(p, "idle") \/ To(p, "lock")
    /\ UNCHANGED <<dbVars, cacheVars, lock, val, writerVars, faults, excuse>>

(***************************************************************************)
(* Other rebuilds and reads                                                *)
(***************************************************************************)
(* runInitialRebuild and runFullRebuildWorker                              *)
StartRebuild(j) ==
    /\ pc[j] = "idle"
    /\ To(j, "lock")
    /\ UNCHANGED <<dbVars, watermark, cacheVars, lock, val, writerVars,
                   pollVars, faults, excuse>>

(* What GetSnapshot answers: a version, or None for a miss.                *)
Answer == IF snap \in EmptyVersions \/ meta = None THEN None ELSE snap

(* ListSchedulableAccounts after a miss or a read error: load and store    *)
(* without the lock.                                                       *)
Fallback(j) ==
    /\ pc[j] = "idle"
    /\ \/ Answer = None /\ UNCHANGED faults
       \/ faults < MaxFaults /\ faults' = faults + 1
    /\ To(j, "load")
    /\ UNCHANGED <<dbVars, watermark, cacheVars, lock, val, writerVars,
                   pollVars, excuse>>

WriterStep(w) ==
    \/ DeleteEntry(w) \/ Enqueue(w) \/ EnqueueDeduped(w) \/ SyncRead(w)
    \/ SyncWrite(w)

TxStep(w) == TxCommit(w) \/ TxRollback(w)

JobStep(j) ==
    \/ TryLockBucket(j) \/ LockTaken(j) \/ Load(j) \/ Incr(j)
    \/ Activate(j) \/ UnlockBucket(j)

PollStep(p) ==
    \/ Poll(p) \/ Handle(p) \/ ReadAccount(p) \/ SetAccount(p)
    \/ SetOutboxWatermark(p)

Next ==
    \/ \E w \in Writers :
         \/ \E k \in Kinds : Change(w, k)
         \/ Delete(w) \/ WriterStep(w) \/ EnqueueFails(w) \/ SyncFails(w)
    \/ \E w \in Billers : TxInsert(w) \/ TxDeduped(w) \/ TxStep(w)
    \/ \E j \in Jobs : JobStep(j) \/ JobFails(j)
    \/ \E p \in Pollers : PollStep(p)
    \/ \E j \in Rebuilders : StartRebuild(j)
    \/ \E j \in Readers : Fallback(j)
    \/ Unannounced \/ LockExpires \/ LockLapses

(* Every database and Redis call has a timeout, the interval rebuild runs  *)
(* again and again, and an abandoned lock runs out. Nothing is assumed of  *)
(* changes, failures and readers.                                          *)
Spec ==
    /\ Init /\ [][Next]_vars
    /\ \A w \in Writers : WF_vars(WriterStep(w))
    /\ \A w \in Billers : WF_vars(TxStep(w))
    /\ \A j \in Jobs : WF_vars(JobStep(j))
    /\ \A p \in Pollers : WF_vars(PollStep(p))
    /\ \A j \in Rebuilders : WF_vars(StartRebuild(j))
    /\ WF_vars(LockExpires)

-----------------------------------------------------------------------------
Versions == 0..MaxVersion

TypeOK ==
    /\ row \in Versions /\ watermark \in 0..Len(outbox)
    /\ \A i \in DOMAIN outbox : outbox[i] \in
         [kind : EventKinds, state : {"open", "committed", "aborted"}]
    /\ snap \in Versions \cup {None} /\ meta \in Versions \cup {None}
    /\ drawn \in Nat /\ vers \in [Jobs -> 0..drawn]
    /\ lock \in Jobs \cup {Nobody}
    /\ val \in [Writers \cup Billers \cup Jobs -> Versions \cup {None}]
    /\ \A p \in Pollers : batch[p] \subseteq Visible /\ listed[p] \in {0} \cup Visible
    /\ faults \in 0..MaxFaults /\ excuse \in BOOLEAN

(* The change is on its way to the snapshot: its event is not yet written, *)
(* or not yet taken up by every poller that listed it, or a job carries it.*)
Announced ==
    \/ \E w \in Writers : pc[w] \in {"delete", "enqueue"}
    \/ \E i \in Visible : ~Spent(i) /\ outbox[i].kind # "used"
    \/ \E j \in Jobs : InFlight(j) /\ val[j] = row /\ (pc[j] = "incr" \/ Current(j))

(* A reader is never given an outdated list of accounts for good without a *)
(* reason: the bucket's answer is the database's, or the change is on its  *)
(* way, or one of these happened since the database's state was last       *)
(* stored. The change wrote no event (Unannounced, EnqueueFails); its      *)
(* event was merged into one already handled (EnqueueDeduped, TxDeduped)   *)
(* or committed behind the watermark (TxCommit); the event's handler left  *)
(* the bucket out (SetAccount) or found its lock taken (LockTaken); or a   *)
(* load overlapped one without the lock, a reader's or, after a fault, one *)
(* whose lock had ended. In particular a batch's single rebuild covers all *)
(* its events, and two locked rebuilds never overlap while locks last.     *)
StaleExplained == Answer \in {None, row} \/ Announced \/ excuse

(* Whatever was lost, skipped or stored in the wrong order, the interval   *)
(* rebuilds bring the snapshot and the entries of its accounts back to the *)
(* database once changes and failures cease.                               *)
Converges ==
    <>[](Answer \in {None, row} /\ (row \notin EmptyVersions => meta = row))
=============================================================================
