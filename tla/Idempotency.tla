----------------------------- MODULE Idempotency ----------------------------
(***************************************************************************)
(* IdempotencyCoordinator.Execute (service/idempotency.go): concurrent     *)
(* requests with the same Idempotency-Key, the cleanup service, crashes    *)
(* and store errors. Every SQL statement is a step of its own; the clock a *)
(* request reads when it starts (at) stays with it to the end.             *)
(*                                                                         *)
(* All answers that neither execute nor replay (key conflict, in progress, *)
(* back-off, store unavailable) are "refused". A stored body is the        *)
(* fingerprint of the request it answers, or Truncated when it is longer   *)
(* than MaxStoredResponseLen and no longer parses.                         *)
(***************************************************************************)
EXTENDS IdempotencyStore

CONSTANTS
    Callers,            \* requests carrying the key
    FailedRetryBackoff  \* delay before a failed execution may be retried

ASSUME CallerAssumption == FailedRetryBackoff \in Nat

VARIABLES
    pc,         \* per caller
    at,         \* per caller: time.Now() at the start of Execute
    fp,         \* per caller: its request fingerprint
    seen,       \* per caller: the record it read last
    own,        \* per caller: id of the record it claimed
    guard,      \* history: time up to which the last side effect is protected
    anomalies   \* history: an execution outlived its claim ("overran"), an
                \* expired record changed before it was reclaimed ("overtaken")
                \* or before the cleanup deleted it ("swept")

callerVars == <<pc, at, fp, seen, own>>
history == <<guard, anomalies>>
vars == <<now, storeVars, callerVars, history>>

Answers == {"executed", "replayed", "refused"}
Executing == {"execute", "markOK", "markFailed"}

Init ==
    /\ StoreInit
    /\ pc = [c \in Callers |-> "refused"]
    /\ at = [c \in Callers |-> 0]
    /\ fp \in [Callers -> Fingerprints]
    /\ seen = [c \in Callers |-> NoRecord]
    /\ own = [c \in Callers |-> 0]
    /\ guard = 0
    /\ anomalies = {}

To(c, p) == pc' = [pc EXCEPT ![c] = p]

(* A claim made, or an execution still running, past lock or expiry.       *)
Overdue(c, t) == t >= at[c] + ProcessingTimeout \/ t >= at[c] + TTL
Note(a, happened) == anomalies' = IF happened THEN anomalies \cup {a} ELSE anomalies

Start(c, f) ==
    /\ pc[c] \in Answers
    /\ To(c, "create")
    /\ at' = [at EXCEPT ![c] = now]
    /\ fp' = [fp EXCEPT ![c] = f]
    /\ seen' = [seen EXCEPT ![c] = NoRecord]
    /\ own' = [own EXCEPT ![c] = 0]
    /\ UNCHANGED <<now, storeVars, history>>

(* The reply to a committed claim may be lost: the caller then refuses.    *)
Claimed(c, id) ==
    \/ /\ To(c, "execute")
       /\ own' = [own EXCEPT ![c] = id]
       /\ Note("overran", Overdue(c, now))
    \/ /\ To(c, "refused")
       /\ UNCHANGED <<own, anomalies>>

Create(c) ==
    /\ pc[c] = "create"
    /\ CreateProcessing(fp[c], at[c])
    /\ Claimed(c, lastId + 1)
    /\ UNCHANGED <<now, at, fp, seen, guard>>

CreateConflict(c) ==
    /\ pc[c] = "create"
    /\ rec.id # 0
    /\ To(c, "get")
    /\ UNCHANGED <<now, storeVars, at, fp, seen, own, history>>

(* The switch on existing.Status.                                          *)
Dispatch(c) ==
    CASE rec.status = "succeeded" -> IF rec.body = Truncated THEN "refused" ELSE "replayed"
      [] rec.status = "processing" -> "refused"
      [] rec.status = "failed_retryable" ->
            IF rec.locked > at[c] THEN "refused" ELSE "reclaimFailed"

(* Mutant: the fingerprint is not compared.                                *)
ComparableAny(c) == rec.id # 0

(* A missing record and another fingerprint end the request.               *)
Comparable(c) == rec.id # 0 /\ rec.fp = fp[c]

GetExisting(c) ==
    /\ pc[c] = "get"
    /\ seen' = [seen EXCEPT ![c] = rec]
    /\ To(c, IF ~Comparable(c) THEN "refused"
             ELSE IF rec.expires <= at[c] THEN "reclaimExpired" ELSE Dispatch(c))
    /\ UNCHANGED <<now, storeVars, at, fp, own, history>>

ReclaimExpired(c) ==
    /\ pc[c] = "reclaimExpired"
    /\ TryReclaim(seen[c].id, seen[c].status, at[c])
    /\ \/ /\ To(c, "execute")
          /\ own' = [own EXCEPT ![c] = seen[c].id]
          /\ anomalies' = anomalies
               \cup (IF Overdue(c, now) THEN {"overran"} ELSE {})
               \cup (IF rec # seen[c] THEN {"overtaken"} ELSE {})
       \/ /\ To(c, "refused")
          /\ Note("overtaken", rec # seen[c])
          /\ UNCHANGED own
    /\ UNCHANGED <<now, at, fp, seen, guard>>

ReclaimExpiredLost(c) ==
    /\ pc[c] = "reclaimExpired"
    /\ ~Reclaimable(seen[c].id, seen[c].status, at[c])
    /\ To(c, "getLatest")
    /\ UNCHANGED <<now, storeVars, at, fp, seen, own, history>>

GetLatest(c) ==
    /\ pc[c] = "getLatest"
    /\ seen' = [seen EXCEPT ![c] = rec]
    /\ To(c, IF ~Comparable(c) THEN "refused" ELSE Dispatch(c))
    /\ UNCHANGED <<now, storeVars, at, fp, own, history>>

ReclaimFailed(c) ==
    /\ pc[c] = "reclaimFailed"
    /\ TryReclaim(seen[c].id, "failed_retryable", at[c])
    /\ Claimed(c, seen[c].id)
    /\ UNCHANGED <<now, at, fp, seen, guard>>

ReclaimFailedLost(c) ==
    /\ pc[c] = "reclaimFailed"
    /\ ~Reclaimable(seen[c].id, "failed_retryable", at[c])
    /\ To(c, "refused")
    /\ UNCHANGED <<now, storeVars, at, fp, seen, own, history>>

(* execute(ctx): the business operation has its side effect, or fails.     *)
ExecuteSucceeds(c) ==
    /\ pc[c] = "execute"
    /\ To(c, "markOK")
    /\ guard' = at[c] + TTL
    /\ UNCHANGED <<now, storeVars, at, fp, seen, own, anomalies>>

ExecuteFails(c) ==
    /\ pc[c] = "execute"
    /\ To(c, "markFailed")
    /\ UNCHANGED <<now, storeVars, at, fp, seen, own, history>>

(* The caller is told of the success only if the store confirms it.        *)
MarkOK(c) ==
    /\ pc[c] = "markOK"
    /\ \E b \in {fp[c], Truncated} : MarkSucceeded(own[c], b, at[c] + TTL)
    /\ To(c, "executed") \/ To(c, "refused")
    /\ UNCHANGED <<now, at, fp, seen, own, history>>

MarkFail(c) ==
    /\ pc[c] = "markFailed"
    /\ MarkFailedRetryable(own[c], now + FailedRetryBackoff, at[c] + TTL)
    /\ To(c, "refused")
    /\ UNCHANGED <<now, at, fp, seen, own, history>>

(* A store error without effect, an unserialisable response, a panic or a  *)
(* crash of the process.                                                   *)
GiveUp(c) ==
    /\ pc[c] \notin Answers
    /\ To(c, "refused")
    /\ UNCHANGED <<now, storeVars, at, fp, seen, own, history>>

(* IdempotencyCleanupService.cleanupOnce, of any number of processes.      *)
CleanupSelects ==
    /\ SelectVictims
    /\ UNCHANGED <<now, callerVars, history>>

CleanupDeletes(i) ==
    /\ DeleteVictim(i)
    /\ Note("swept", SweepsLive(i))
    /\ UNCHANGED <<now, callerVars, guard>>

Tick ==
    /\ now < MaxTime
    /\ now' = now + 1
    /\ Note("overran", \E c \in Callers : pc[c] \in Executing /\ Overdue(c, now + 1))
    /\ UNCHANGED <<storeVars, callerVars, guard>>

Next ==
    \/ \E c \in Callers :
          \/ \E f \in Fingerprints : Start(c, f)
          \/ Create(c) \/ CreateConflict(c) \/ GetExisting(c)
          \/ ReclaimExpired(c) \/ ReclaimExpiredLost(c) \/ GetLatest(c)
          \/ ReclaimFailed(c) \/ ReclaimFailedLost(c)
          \/ ExecuteSucceeds(c) \/ ExecuteFails(c) \/ MarkOK(c) \/ MarkFail(c)
          \/ GiveUp(c)
    \/ CleanupSelects \/ Tick
    \/ \E i \in victims : CleanupDeletes(i)

Spec == Init /\ [][Next]_vars

-----------------------------------------------------------------------------
TypeOK ==
    /\ StoreTypeOK
    /\ pc \in [Callers -> Answers \cup Executing \cup
                 {"create", "get", "getLatest", "reclaimExpired", "reclaimFailed"}]
    /\ at \in [Callers -> Nat]
    /\ fp \in [Callers -> Fingerprints]
    /\ seen \in [Callers -> Record]
    /\ own \in [Callers -> 0..lastId]
    /\ guard \in Nat
    /\ anomalies \in SUBSET {"overran", "overtaken", "swept"}

(* Two requests with one key never execute at the same time, as long as no *)
(* execution outlives the lock it claimed and the cleanup deletes no row   *)
(* renewed after its snapshot: neither crashes, lost replies, cleanups at  *)
(* other times nor clocks read long ago let a second one in.               *)
ExclusiveExecution ==
    "overran" \notin anomalies /\ "swept" \notin anomalies =>
        \A c, d \in Callers : pc[c] \in Executing /\ pc[d] \in Executing => c = d

(* A replayed response answers the very request that replays it, however   *)
(* many owners, late or overtaken, wrote to the record.                    *)
RepliesMatchRequest ==
    \A c \in Callers : pc[c] = "replayed" => seen[c].body = fp[c]

(* The inductive invariants. ReplyInv: a record never changes its          *)
(* fingerprint, and only its own response is stored in it. ClaimInv: until *)
(* an execution outlives its claim, or loses it to the cleanup, the record *)
(* is as its executor left it. GuardInv: until then, and until an expired  *)
(* record is overtaken, a protected side effect is remembered by an        *)
(* unexpired record.                                                       *)
ReplyInv ==
    /\ rec.id <= lastId
    /\ rec.status = "succeeded" => rec.body \in {rec.fp, Truncated}
    /\ \A c \in Callers :
        /\ seen[c].id <= lastId
        /\ pc[c] \in {"reclaimExpired", "reclaimFailed"} =>
              seen[c].id # 0 /\ (rec.id = seen[c].id => rec.fp = fp[c])
        /\ pc[c] \in Executing => own[c] # 0 /\ (rec.id = own[c] => rec.fp = fp[c])
        /\ pc[c] = "replayed" => seen[c].body = fp[c]

HoldsClaim(c) ==
    /\ rec.id = own[c] /\ own[c] # 0
    /\ rec.status = "processing"
    /\ rec.locked = at[c] + ProcessingTimeout /\ rec.expires = at[c] + TTL
    /\ ~Overdue(c, now)

ClaimInv ==
    /\ \A c \in Callers : at[c] <= now
    /\ "overran" \notin anomalies /\ "swept" \notin anomalies =>
          \A c \in Callers : pc[c] \in Executing => HoldsClaim(c)
    /\ ExclusiveExecution

GuardInv ==
    /\ \A c \in Callers : pc[c] = "reclaimExpired" => seen[c].expires <= at[c]
    /\ anomalies = {} /\ now < guard =>
          /\ rec.id # 0 /\ rec.expires >= guard
          /\ rec.status \in {"processing", "succeeded"}
          /\ \A c \in Callers : pc[c] \notin {"execute", "markFailed"}

(* The side effect is not repeated during the lifetime of the record it    *)
(* was executed under, even if its outcome was never stored; unless an     *)
(* execution outlived its claim, or TryReclaim or DeleteExpired took an    *)
(* expired record that another request had renewed since they read it.     *)
Repeats(c) == pc[c] # "execute" /\ pc'[c] = "execute" /\ now < guard

NoRepeatWithinTTL == [][anomalies' = {} => \A c \in Callers : ~Repeats(c)]_vars

(* "concurrent same-key requests should execute business side-effect once" *)
(* (idempotency_test.go): the same, for every execution within its claim.  *)
(* It does not hold: TryReclaim does not compare expires_at, and a caller  *)
(* that read the expired record reclaims the one completed since; and      *)
(* DeleteExpired removes a record renewed after its snapshot.              *)
SideEffectOnce ==
    [][anomalies' \subseteq {"overtaken", "swept"} =>
         \A c \in Callers : ~Repeats(c)]_vars
=============================================================================
