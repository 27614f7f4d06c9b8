--------------------------- MODULE IdempotencyProofs ------------------------
(***************************************************************************)
(* Proofs about the two users of the idempotency store: the coordinator    *)
(* (Idempotency) and the system operation lock, for any callers, runners,  *)
(* fingerprints and durations.                                             *)
(***************************************************************************)
EXTENDS Idempotency, SystemOperationLock, TLAPS

(* What TryReclaim and MarkFailedRetryable write is a record.              *)
LEMMA RecordUpdate ==
  ASSUME NEW r \in Record, NEW l \in Nat, NEW e \in Nat,
         NEW s \in {"processing", "succeeded", "failed_retryable"}
  PROVE  [r EXCEPT !.status = s, !.locked = l, !.expires = e] \in Record
  BY DEF Record

(* What MarkSucceeded writes is a record.                                  *)
LEMMA RecordSuccess ==
  ASSUME NEW r \in Record, NEW b \in Fingerprints \cup {Truncated}, NEW e \in Nat
  PROVE  [r EXCEPT !.status = "succeeded", !.body = b, !.locked = 0,
                   !.expires = e] \in Record
  BY DEF Record

(* The initial state satisfies the types and the inductive invariants.     *)
LEMMA InitialInv == Init => TypeOK /\ ReplyInv /\ ClaimInv /\ GuardInv
  BY StoreAssumption, CallerAssumption
     DEF Init, StoreInit, NoRecord, TypeOK, StoreTypeOK, Record, Answers,
         Executing, ReplyInv, ClaimInv, ExclusiveExecution, GuardInv

(* Every step keeps the types (TypeOK).                                    *)
LEMMA TypeOKStep == TypeOK /\ ReplyInv /\ [Next]_vars => TypeOK'
  <1> SUFFICES ASSUME TypeOK, ReplyInv, [Next]_vars
               PROVE  TypeOK'
    OBVIOUS
  <1> USE StoreAssumption, CallerAssumption DEF To
  <1>1. ASSUME NEW c \in Callers, NEW f \in Fingerprints, Start(c, f) PROVE TypeOK'
    BY <1>1 DEF Start, NoRecord, storeVars, callerVars, history, TypeOK,
       StoreTypeOK, Record, Answers, Executing
  <1>2. ASSUME NEW c \in Callers, Create(c) PROVE TypeOK'
    <2>1. rec' \in Record
      BY <1>2 DEF Create, CreateProcessing, TypeOK, StoreTypeOK, Record
    <2>2. lastId' \in Nat /\ lastId <= lastId' /\ victims' \subseteq Nat
      BY <1>2 DEF Create, CreateProcessing, TypeOK, StoreTypeOK
    <2>3. own' \in [Callers -> 0..lastId']
      BY <1>2, <2>2 DEF Create, CreateProcessing, Claimed, Note, TypeOK, StoreTypeOK, Record,
         ReplyInv
    <2>4. anomalies' \in SUBSET {"overran", "overtaken", "swept"}
      BY <1>2 DEF Create, Claimed, Note, history, TypeOK
    <2> QED
      BY <1>2, <2>1, <2>2, <2>3, <2>4 DEF Create, Claimed, Note, history, TypeOK,
         StoreTypeOK, Answers, Executing
  <1>3. ASSUME NEW c \in Callers, CreateConflict(c) PROVE TypeOK'
    BY <1>3 DEF CreateConflict, storeVars, callerVars, history, TypeOK,
       StoreTypeOK, Record, Answers, Executing
  <1>4. ASSUME NEW c \in Callers, GetExisting(c) PROVE TypeOK'
    BY <1>4 DEF GetExisting, Comparable, Dispatch, storeVars, callerVars,
       history, TypeOK, StoreTypeOK, Record, Answers, Executing
  <1>5. ASSUME NEW c \in Callers, ReclaimExpired(c) PROVE TypeOK'
    <2>1. rec' \in Record
      <3>1. at[c] + ProcessingTimeout \in Nat /\ at[c] + TTL \in Nat
        BY DEF TypeOK
      <3> QED
        BY <1>5, <3>1, RecordUpdate DEF ReclaimExpired, TryReclaim, TypeOK, StoreTypeOK
    <2>2. lastId' \in Nat /\ lastId <= lastId' /\ victims' \subseteq Nat
      BY <1>5 DEF ReclaimExpired, TryReclaim, Reclaimable, TypeOK, StoreTypeOK
    <2>3. own' \in [Callers -> 0..lastId']
      BY <1>5, <2>2 DEF ReclaimExpired, TryReclaim, Reclaimable, Note, TypeOK, StoreTypeOK, Record,
         ReplyInv
    <2>4. anomalies' \in SUBSET {"overran", "overtaken", "swept"}
      BY <1>5 DEF ReclaimExpired, Note, history, TypeOK
    <2> QED
      BY <1>5, <2>1, <2>2, <2>3, <2>4 DEF ReclaimExpired, Note, history, TypeOK,
         StoreTypeOK, Answers, Executing
  <1>6. ASSUME NEW c \in Callers, ReclaimExpiredLost(c) PROVE TypeOK'
    BY <1>6 DEF ReclaimExpiredLost, storeVars, callerVars, history,
       TypeOK, StoreTypeOK, Record, Answers, Executing
  <1>7. ASSUME NEW c \in Callers, GetLatest(c) PROVE TypeOK'
    BY <1>7 DEF GetLatest, Comparable, Dispatch, storeVars, callerVars,
       history, TypeOK, StoreTypeOK, Record, Answers, Executing
  <1>8. ASSUME NEW c \in Callers, ReclaimFailed(c) PROVE TypeOK'
    <2>1. rec' \in Record
      <3>1. at[c] + ProcessingTimeout \in Nat /\ at[c] + TTL \in Nat
        BY DEF TypeOK
      <3> QED
        BY <1>8, <3>1, RecordUpdate DEF ReclaimFailed, TryReclaim, TypeOK, StoreTypeOK
    <2>2. lastId' \in Nat /\ lastId <= lastId' /\ victims' \subseteq Nat
      BY <1>8 DEF ReclaimFailed, TryReclaim, Reclaimable, TypeOK, StoreTypeOK
    <2>3. own' \in [Callers -> 0..lastId']
      BY <1>8, <2>2 DEF ReclaimFailed, TryReclaim, Reclaimable, Claimed, Note, TypeOK, StoreTypeOK, Record,
         ReplyInv
    <2>4. anomalies' \in SUBSET {"overran", "overtaken", "swept"}
      BY <1>8 DEF ReclaimFailed, Claimed, Note, history, TypeOK
    <2> QED
      BY <1>8, <2>1, <2>2, <2>3, <2>4 DEF ReclaimFailed, Claimed, Note, history, TypeOK,
         StoreTypeOK, Answers, Executing
  <1>9. ASSUME NEW c \in Callers, ReclaimFailedLost(c) PROVE TypeOK'
    BY <1>9 DEF ReclaimFailedLost, storeVars, callerVars, history, TypeOK,
       StoreTypeOK, Record, Answers, Executing
  <1>10. ASSUME NEW c \in Callers, ExecuteSucceeds(c) PROVE TypeOK'
    BY <1>10 DEF ExecuteSucceeds, storeVars, callerVars, history, TypeOK,
       StoreTypeOK, Record, Answers, Executing
  <1>11. ASSUME NEW c \in Callers, ExecuteFails(c) PROVE TypeOK'
    BY <1>11 DEF ExecuteFails, storeVars, callerVars, history, TypeOK,
       StoreTypeOK, Record, Answers, Executing
  <1>12. ASSUME NEW c \in Callers, MarkOK(c) PROVE TypeOK'
    <2>1. rec' \in Record
      <3>1. at[c] + TTL \in Nat /\ fp[c] \in Fingerprints
        BY DEF TypeOK
      <3>2. PICK b \in {fp[c], Truncated} : MarkSucceeded(own[c], b, at[c] + TTL)
        BY <1>12 DEF MarkOK
      <3> QED
        BY <3>1, <3>2, RecordSuccess DEF MarkSucceeded, TypeOK, StoreTypeOK
    <2>2. lastId' \in Nat /\ lastId <= lastId' /\ victims' \subseteq Nat
      BY <1>12 DEF MarkOK, MarkSucceeded, TypeOK, StoreTypeOK
    <2>3. own' \in [Callers -> 0..lastId']
      BY <1>12, <2>2 DEF MarkOK, MarkSucceeded, TypeOK, StoreTypeOK, Record,
         ReplyInv
    <2>4. anomalies' \in SUBSET {"overran", "overtaken", "swept"}
      BY <1>12 DEF MarkOK, history, TypeOK
    <2> QED
      BY <1>12, <2>1, <2>2, <2>3, <2>4 DEF MarkOK, history, TypeOK,
         StoreTypeOK, Answers, Executing
  <1>13. ASSUME NEW c \in Callers, MarkFail(c) PROVE TypeOK'
    <2>1. rec' \in Record
      <3>1. at[c] + TTL \in Nat /\ now + FailedRetryBackoff \in Nat
        BY DEF TypeOK, StoreTypeOK
      <3> QED
        BY <1>13, <3>1, RecordUpdate DEF MarkFail, MarkFailedRetryable, TypeOK,
           StoreTypeOK
    <2>2. lastId' \in Nat /\ lastId <= lastId' /\ victims' \subseteq Nat
      BY <1>13 DEF MarkFail, MarkFailedRetryable, TypeOK, StoreTypeOK
    <2>3. own' \in [Callers -> 0..lastId']
      BY <1>13, <2>2 DEF MarkFail, MarkFailedRetryable, TypeOK, StoreTypeOK, Record,
         ReplyInv
    <2>4. anomalies' \in SUBSET {"overran", "overtaken", "swept"}
      BY <1>13 DEF MarkFail, history, TypeOK
    <2> QED
      BY <1>13, <2>1, <2>2, <2>3, <2>4 DEF MarkFail, history, TypeOK,
         StoreTypeOK, Answers, Executing
  <1>14. ASSUME NEW c \in Callers, GiveUp(c) PROVE TypeOK'
    BY <1>14 DEF GiveUp, storeVars, callerVars, history, TypeOK,
       StoreTypeOK, Record, Answers, Executing
  <1>15. ASSUME CleanupSelects PROVE TypeOK'
    BY <1>15 DEF CleanupSelects, SelectVictims, storeVars, callerVars,
       history, TypeOK, StoreTypeOK, Record, Answers, Executing
  <1>18. ASSUME NEW i \in victims, CleanupDeletes(i) PROVE TypeOK'
    BY <1>18 DEF CleanupDeletes, DeleteVictim, SweepsLive, Note, NoRecord, storeVars, callerVars,
       history, TypeOK, StoreTypeOK, Record, Answers, Executing
  <1>16. ASSUME Tick PROVE TypeOK'
    BY <1>16 DEF Tick, Note, Overdue, storeVars, callerVars, history,
       TypeOK, StoreTypeOK, Record, Answers, Executing
  <1>17. CASE UNCHANGED vars
    BY <1>17 DEF vars, storeVars, callerVars, history, TypeOK,
       StoreTypeOK, Record, Answers, Executing
  <1> QED
    BY <1>1, <1>2, <1>3, <1>4, <1>5, <1>6, <1>7, <1>8, <1>9, <1>10, <1>11,
       <1>12, <1>13, <1>14, <1>15, <1>16, <1>17, <1>18 DEF Next

(* Every step keeps ReplyInv: record ids are never reused, so a late owner *)
(* writes to the record it claimed or to none (MarkSucceeded, TryReclaim). *)
LEMMA ReplyInvStep == TypeOK /\ ReplyInv /\ [Next]_vars => ReplyInv'
  <1> SUFFICES ASSUME TypeOK, ReplyInv, [Next]_vars
               PROVE  ReplyInv'
    OBVIOUS
  <1> USE StoreAssumption, CallerAssumption DEF To
  <1>1. ASSUME NEW c \in Callers, NEW f \in Fingerprints, Start(c, f) PROVE ReplyInv'
    BY <1>1 DEF Start, NoRecord, storeVars, callerVars, history, ReplyInv,
       TypeOK, StoreTypeOK, Record, Answers, Executing
  <1>2. ASSUME NEW c \in Callers, Create(c) PROVE ReplyInv'
    BY <1>2 DEF Create, CreateProcessing, Claimed, Note, Overdue,
       storeVars, callerVars, history, ReplyInv, TypeOK, StoreTypeOK,
       Record, Answers, Executing
  <1>3. ASSUME NEW c \in Callers, CreateConflict(c) PROVE ReplyInv'
    BY <1>3 DEF CreateConflict, storeVars, callerVars, history, ReplyInv,
       TypeOK, StoreTypeOK, Record, Answers, Executing
  <1>4. ASSUME NEW c \in Callers, GetExisting(c) PROVE ReplyInv'
    BY <1>4 DEF GetExisting, Comparable, Dispatch, storeVars, callerVars,
       history, ReplyInv, TypeOK, StoreTypeOK, Record, Answers, Executing
  <1>5. ASSUME NEW c \in Callers, ReclaimExpired(c) PROVE ReplyInv'
    BY <1>5 DEF ReclaimExpired, TryReclaim, Reclaimable, Note, Overdue,
       storeVars, callerVars, history, ReplyInv, TypeOK, StoreTypeOK,
       Record, Answers, Executing
  <1>6. ASSUME NEW c \in Callers, ReclaimExpiredLost(c) PROVE ReplyInv'
    BY <1>6 DEF ReclaimExpiredLost, storeVars, callerVars, history,
       ReplyInv, TypeOK, StoreTypeOK, Record, Answers, Executing
  <1>7. ASSUME NEW c \in Callers, GetLatest(c) PROVE ReplyInv'
    BY <1>7 DEF GetLatest, Comparable, Dispatch, storeVars, callerVars,
       history, ReplyInv, TypeOK, StoreTypeOK, Record, Answers, Executing
  <1>8. ASSUME NEW c \in Callers, ReclaimFailed(c) PROVE ReplyInv'
    BY <1>8 DEF ReclaimFailed, TryReclaim, Reclaimable, Claimed, Note,
       Overdue, storeVars, callerVars, history, ReplyInv, TypeOK,
       StoreTypeOK, Record, Answers, Executing
  <1>9. ASSUME NEW c \in Callers, ReclaimFailedLost(c) PROVE ReplyInv'
    BY <1>9 DEF ReclaimFailedLost, storeVars, callerVars, history,
       ReplyInv, TypeOK, StoreTypeOK, Record, Answers, Executing
  <1>10. ASSUME NEW c \in Callers, ExecuteSucceeds(c) PROVE ReplyInv'
    BY <1>10 DEF ExecuteSucceeds, storeVars, callerVars, history,
       ReplyInv, TypeOK, StoreTypeOK, Record, Answers, Executing
  <1>11. ASSUME NEW c \in Callers, ExecuteFails(c) PROVE ReplyInv'
    BY <1>11 DEF ExecuteFails, storeVars, callerVars, history, ReplyInv,
       TypeOK, StoreTypeOK, Record, Answers, Executing
  <1>12. ASSUME NEW c \in Callers, MarkOK(c) PROVE ReplyInv'
    BY <1>12 DEF MarkOK, MarkSucceeded, storeVars, callerVars, history,
       ReplyInv, TypeOK, StoreTypeOK, Record, Answers, Executing
  <1>13. ASSUME NEW c \in Callers, MarkFail(c) PROVE ReplyInv'
    BY <1>13 DEF MarkFail, MarkFailedRetryable, storeVars, callerVars,
       history, ReplyInv, TypeOK, StoreTypeOK, Record, Answers, Executing
  <1>14. ASSUME NEW c \in Callers, GiveUp(c) PROVE ReplyInv'
    BY <1>14 DEF GiveUp, storeVars, callerVars, history, ReplyInv, TypeOK,
       StoreTypeOK, Record, Answers, Executing
  <1>15. ASSUME CleanupSelects PROVE ReplyInv'
    BY <1>15 DEF CleanupSelects, SelectVictims, storeVars, callerVars,
       history, ReplyInv, TypeOK, StoreTypeOK, Record, Answers, Executing
  <1>18. ASSUME NEW i \in victims, CleanupDeletes(i) PROVE ReplyInv'
    BY <1>18 DEF CleanupDeletes, DeleteVictim, SweepsLive, Note, NoRecord, storeVars, callerVars,
       history, ReplyInv, TypeOK, StoreTypeOK, Record, Answers, Executing
  <1>16. ASSUME Tick PROVE ReplyInv'
    BY <1>16 DEF Tick, Note, Overdue, storeVars, callerVars, history,
       ReplyInv, TypeOK, StoreTypeOK, Record, Answers, Executing
  <1>17. CASE UNCHANGED vars
    BY <1>17 DEF vars, storeVars, callerVars, history, ReplyInv, TypeOK,
       StoreTypeOK, Record, Answers, Executing
  <1> QED
    BY <1>1, <1>2, <1>3, <1>4, <1>5, <1>6, <1>7, <1>8, <1>9, <1>10, <1>11,
       <1>12, <1>13, <1>14, <1>15, <1>16, <1>17, <1>18 DEF Next

(* Every step keeps ClaimInv: a live claim defeats CreateProcessing,       *)
(* TryReclaim, and DeleteExpired unless it was renewed under the statement.*)
LEMMA ClaimInvStep == TypeOK /\ ReplyInv /\ ClaimInv /\ [Next]_vars => ClaimInv'
  <1> SUFFICES ASSUME TypeOK, ReplyInv, ClaimInv, [Next]_vars
               PROVE  ClaimInv'
    OBVIOUS
  <1> USE StoreAssumption, CallerAssumption DEF To
  <1>1. ASSUME NEW c \in Callers, NEW f \in Fingerprints, Start(c, f) PROVE ClaimInv'
    BY <1>1 DEF Start, NoRecord, Overdue, storeVars, callerVars, history,
       ClaimInv, HoldsClaim, ExclusiveExecution, ReplyInv, TypeOK,
       StoreTypeOK, Record, Answers, Executing
  <1>2. ASSUME NEW c \in Callers, Create(c) PROVE ClaimInv'
    BY <1>2 DEF Create, CreateProcessing, Claimed, Note, Overdue,
       storeVars, callerVars, history, ClaimInv, HoldsClaim,
       ExclusiveExecution, ReplyInv, TypeOK, StoreTypeOK, Record, Answers,
       Executing
  <1>3. ASSUME NEW c \in Callers, CreateConflict(c) PROVE ClaimInv'
    BY <1>3 DEF CreateConflict, Overdue, storeVars, callerVars, history,
       ClaimInv, HoldsClaim, ExclusiveExecution, ReplyInv, TypeOK,
       StoreTypeOK, Record, Answers, Executing
  <1>4. ASSUME NEW c \in Callers, GetExisting(c) PROVE ClaimInv'
    BY <1>4 DEF GetExisting, Comparable, Dispatch, Overdue, storeVars,
       callerVars, history, ClaimInv, HoldsClaim, ExclusiveExecution,
       ReplyInv, TypeOK, StoreTypeOK, Record, Answers, Executing
  <1>5. ASSUME NEW c \in Callers, ReclaimExpired(c) PROVE ClaimInv'
    BY <1>5 DEF ReclaimExpired, TryReclaim, Reclaimable, Note, Overdue,
       storeVars, callerVars, history, ClaimInv, HoldsClaim,
       ExclusiveExecution, ReplyInv, TypeOK, StoreTypeOK, Record, Answers,
       Executing
  <1>6. ASSUME NEW c \in Callers, ReclaimExpiredLost(c) PROVE ClaimInv'
    BY <1>6 DEF ReclaimExpiredLost, Overdue, storeVars, callerVars,
       history, ClaimInv, HoldsClaim, ExclusiveExecution, ReplyInv,
       TypeOK, StoreTypeOK, Record, Answers, Executing
  <1>7. ASSUME NEW c \in Callers, GetLatest(c) PROVE ClaimInv'
    BY <1>7 DEF GetLatest, Comparable, Dispatch, Overdue, storeVars,
       callerVars, history, ClaimInv, HoldsClaim, ExclusiveExecution,
       ReplyInv, TypeOK, StoreTypeOK, Record, Answers, Executing
  <1>8. ASSUME NEW c \in Callers, ReclaimFailed(c) PROVE ClaimInv'
    BY <1>8 DEF ReclaimFailed, TryReclaim, Reclaimable, Claimed, Note,
       Overdue, storeVars, callerVars, history, ClaimInv, HoldsClaim,
       ExclusiveExecution, ReplyInv, TypeOK, StoreTypeOK, Record, Answers,
       Executing
  <1>9. ASSUME NEW c \in Callers, ReclaimFailedLost(c) PROVE ClaimInv'
    BY <1>9 DEF ReclaimFailedLost, Overdue, storeVars, callerVars,
       history, ClaimInv, HoldsClaim, ExclusiveExecution, ReplyInv,
       TypeOK, StoreTypeOK, Record, Answers, Executing
  <1>10. ASSUME NEW c \in Callers, ExecuteSucceeds(c) PROVE ClaimInv'
    BY <1>10 DEF ExecuteSucceeds, Overdue, storeVars, callerVars, history,
       ClaimInv, HoldsClaim, ExclusiveExecution, ReplyInv, TypeOK,
       StoreTypeOK, Record, Answers, Executing
  <1>11. ASSUME NEW c \in Callers, ExecuteFails(c) PROVE ClaimInv'
    BY <1>11 DEF ExecuteFails, Overdue, storeVars, callerVars, history,
       ClaimInv, HoldsClaim, ExclusiveExecution, ReplyInv, TypeOK,
       StoreTypeOK, Record, Answers, Executing
  <1>12. ASSUME NEW c \in Callers, MarkOK(c) PROVE ClaimInv'
    BY <1>12 DEF MarkOK, MarkSucceeded, Overdue, storeVars, callerVars,
       history, ClaimInv, HoldsClaim, ExclusiveExecution, ReplyInv,
       TypeOK, StoreTypeOK, Record, Answers, Executing
  <1>13. ASSUME NEW c \in Callers, MarkFail(c) PROVE ClaimInv'
    BY <1>13 DEF MarkFail, MarkFailedRetryable, Overdue, storeVars,
       callerVars, history, ClaimInv, HoldsClaim, ExclusiveExecution,
       ReplyInv, TypeOK, StoreTypeOK, Record, Answers, Executing
  <1>14. ASSUME NEW c \in Callers, GiveUp(c) PROVE ClaimInv'
    BY <1>14 DEF GiveUp, Overdue, storeVars, callerVars, history,
       ClaimInv, HoldsClaim, ExclusiveExecution, ReplyInv, TypeOK,
       StoreTypeOK, Record, Answers, Executing
  <1>15. ASSUME CleanupSelects PROVE ClaimInv'
    BY <1>15 DEF CleanupSelects, SelectVictims, Overdue, storeVars,
       callerVars, history, ClaimInv, HoldsClaim, ExclusiveExecution,
       ReplyInv, TypeOK, StoreTypeOK, Record, Answers, Executing
  <1>18. ASSUME NEW i \in victims, CleanupDeletes(i) PROVE ClaimInv'
    BY <1>18 DEF CleanupDeletes, DeleteVictim, SweepsLive, Note, NoRecord, Overdue, storeVars,
       callerVars, history, ClaimInv, HoldsClaim, ExclusiveExecution,
       ReplyInv, TypeOK, StoreTypeOK, Record, Answers, Executing
  <1>16. ASSUME Tick PROVE ClaimInv'
    BY <1>16 DEF Tick, Note, Overdue, storeVars, callerVars, history,
       ClaimInv, HoldsClaim, ExclusiveExecution, ReplyInv, TypeOK,
       StoreTypeOK, Record, Answers, Executing
  <1>17. CASE UNCHANGED vars
    BY <1>17 DEF vars, storeVars, callerVars, history, ClaimInv,
       HoldsClaim, ExclusiveExecution, ReplyInv, TypeOK, StoreTypeOK,
       Record, Answers, Executing, Overdue
  <1> QED
    BY <1>1, <1>2, <1>3, <1>4, <1>5, <1>6, <1>7, <1>8, <1>9, <1>10, <1>11,
       <1>12, <1>13, <1>14, <1>15, <1>16, <1>17, <1>18 DEF Next

(* Every step keeps GuardInv: only an expired record, read as such, is     *)
(* claimed again.                                                          *)
LEMMA GuardInvStep == TypeOK /\ ReplyInv /\ ClaimInv /\ GuardInv /\ [Next]_vars => GuardInv'
  <1> SUFFICES ASSUME TypeOK, ReplyInv, ClaimInv, GuardInv, [Next]_vars
               PROVE  GuardInv'
    OBVIOUS
  <1> USE StoreAssumption, CallerAssumption DEF To
  <1>1. ASSUME NEW c \in Callers, NEW f \in Fingerprints, Start(c, f) PROVE GuardInv'
    BY <1>1 DEF Start, NoRecord, Overdue, storeVars, callerVars, history,
       GuardInv, ClaimInv, HoldsClaim, ExclusiveExecution, ReplyInv,
       TypeOK, StoreTypeOK, Record, Answers, Executing
  <1>2. ASSUME NEW c \in Callers, Create(c) PROVE GuardInv'
    BY <1>2 DEF Create, CreateProcessing, Claimed, Note, Overdue,
       storeVars, callerVars, history, GuardInv, ClaimInv, HoldsClaim,
       ExclusiveExecution, ReplyInv, TypeOK, StoreTypeOK, Record, Answers,
       Executing
  <1>3. ASSUME NEW c \in Callers, CreateConflict(c) PROVE GuardInv'
    BY <1>3 DEF CreateConflict, Overdue, storeVars, callerVars, history,
       GuardInv, ClaimInv, HoldsClaim, ExclusiveExecution, ReplyInv,
       TypeOK, StoreTypeOK, Record, Answers, Executing
  <1>4. ASSUME NEW c \in Callers, GetExisting(c) PROVE GuardInv'
    BY <1>4 DEF GetExisting, Comparable, Dispatch, Overdue, storeVars,
       callerVars, history, GuardInv, ClaimInv, HoldsClaim,
       ExclusiveExecution, ReplyInv, TypeOK, StoreTypeOK, Record, Answers,
       Executing
  <1>5. ASSUME NEW c \in Callers, ReclaimExpired(c) PROVE GuardInv'
    <2>0. now' = now /\ guard' = guard /\ seen' = seen /\ at' = at
      BY <1>5 DEF ReclaimExpired
    <2>1. \A d \in Callers : pc'[d] = "reclaimExpired" => seen'[d].expires <= at'[d]
      BY <1>5, <2>0 DEF ReclaimExpired, GuardInv, TypeOK
    <2>2. ASSUME anomalies' = {}, now < guard PROVE FALSE
      <3>1. anomalies = {} /\ rec = seen[c]
        BY <1>5, <2>2 DEF ReclaimExpired, Note
      <3>2. rec.expires <= at[c] /\ at[c] <= now /\ rec.expires >= guard
        BY <1>5, <2>2, <3>1 DEF ReclaimExpired, GuardInv, ClaimInv
      <3> QED
        BY <2>2, <3>2 DEF TypeOK, StoreTypeOK, Record
    <2> QED
      BY <2>0, <2>1, <2>2 DEF GuardInv
  <1>6. ASSUME NEW c \in Callers, ReclaimExpiredLost(c) PROVE GuardInv'
    BY <1>6 DEF ReclaimExpiredLost, Overdue, storeVars, callerVars,
       history, GuardInv, ClaimInv, HoldsClaim, ExclusiveExecution,
       ReplyInv, TypeOK, StoreTypeOK, Record, Answers, Executing
  <1>7. ASSUME NEW c \in Callers, GetLatest(c) PROVE GuardInv'
    BY <1>7 DEF GetLatest, Comparable, Dispatch, Overdue, storeVars,
       callerVars, history, GuardInv, ClaimInv, HoldsClaim,
       ExclusiveExecution, ReplyInv, TypeOK, StoreTypeOK, Record, Answers,
       Executing
  <1>8. ASSUME NEW c \in Callers, ReclaimFailed(c) PROVE GuardInv'
    BY <1>8 DEF ReclaimFailed, TryReclaim, Reclaimable, Claimed, Note,
       Overdue, storeVars, callerVars, history, GuardInv, ClaimInv,
       HoldsClaim, ExclusiveExecution, ReplyInv, TypeOK, StoreTypeOK,
       Record, Answers, Executing
  <1>9. ASSUME NEW c \in Callers, ReclaimFailedLost(c) PROVE GuardInv'
    BY <1>9 DEF ReclaimFailedLost, Overdue, storeVars, callerVars,
       history, GuardInv, ClaimInv, HoldsClaim, ExclusiveExecution,
       ReplyInv, TypeOK, StoreTypeOK, Record, Answers, Executing
  <1>10. ASSUME NEW c \in Callers, ExecuteSucceeds(c) PROVE GuardInv'
    BY <1>10 DEF ExecuteSucceeds, Overdue, storeVars, callerVars, history,
       GuardInv, ClaimInv, HoldsClaim, ExclusiveExecution, ReplyInv,
       TypeOK, StoreTypeOK, Record, Answers, Executing
  <1>11. ASSUME NEW c \in Callers, ExecuteFails(c) PROVE GuardInv'
    BY <1>11 DEF ExecuteFails, Overdue, storeVars, callerVars, history,
       GuardInv, ClaimInv, HoldsClaim, ExclusiveExecution, ReplyInv,
       TypeOK, StoreTypeOK, Record, Answers, Executing
  <1>12. ASSUME NEW c \in Callers, MarkOK(c) PROVE GuardInv'
    BY <1>12 DEF MarkOK, MarkSucceeded, Overdue, storeVars, callerVars,
       history, GuardInv, ClaimInv, HoldsClaim, ExclusiveExecution,
       ReplyInv, TypeOK, StoreTypeOK, Record, Answers, Executing
  <1>13. ASSUME NEW c \in Callers, MarkFail(c) PROVE GuardInv'
    BY <1>13 DEF MarkFail, MarkFailedRetryable, Overdue, storeVars,
       callerVars, history, GuardInv, ClaimInv, HoldsClaim,
       ExclusiveExecution, ReplyInv, TypeOK, StoreTypeOK, Record, Answers,
       Executing
  <1>14. ASSUME NEW c \in Callers, GiveUp(c) PROVE GuardInv'
    BY <1>14 DEF GiveUp, Overdue, storeVars, callerVars, history,
       GuardInv, ClaimInv, HoldsClaim, ExclusiveExecution, ReplyInv,
       TypeOK, StoreTypeOK, Record, Answers, Executing
  <1>15. ASSUME CleanupSelects PROVE GuardInv'
    BY <1>15 DEF CleanupSelects, SelectVictims, Overdue, storeVars,
       callerVars, history, GuardInv, ClaimInv, HoldsClaim,
       ExclusiveExecution, ReplyInv, TypeOK, StoreTypeOK, Record, Answers,
       Executing
  <1>18. ASSUME NEW i \in victims, CleanupDeletes(i) PROVE GuardInv'
    BY <1>18 DEF CleanupDeletes, DeleteVictim, SweepsLive, Note, NoRecord, Overdue, storeVars,
       callerVars, history, GuardInv, ClaimInv, HoldsClaim,
       ExclusiveExecution, ReplyInv, TypeOK, StoreTypeOK, Record, Answers,
       Executing
  <1>16. ASSUME Tick PROVE GuardInv'
    BY <1>16 DEF Tick, Note, Overdue, storeVars, callerVars, history,
       GuardInv, ClaimInv, HoldsClaim, ExclusiveExecution, ReplyInv,
       TypeOK, StoreTypeOK, Record, Answers, Executing
  <1>17. CASE UNCHANGED vars
    BY <1>17 DEF vars, storeVars, callerVars, history, GuardInv, ClaimInv,
       HoldsClaim, ExclusiveExecution, ReplyInv, TypeOK, StoreTypeOK,
       Record, Answers, Executing, Overdue
  <1> QED
    BY <1>1, <1>2, <1>3, <1>4, <1>5, <1>6, <1>7, <1>8, <1>9, <1>10, <1>11,
       <1>12, <1>13, <1>14, <1>15, <1>16, <1>17, <1>18 DEF Next

(* Every reachable state satisfies the types and the three invariants.     *)
THEOREM IdempotencyInvariant == Spec => [](TypeOK /\ ReplyInv /\ ClaimInv /\ GuardInv)
  <1> DEFINE Inv == TypeOK /\ ReplyInv /\ ClaimInv /\ GuardInv
  <1>1. Init => Inv
    BY InitialInv
  <1>2. Inv /\ [Next]_vars => Inv'
    BY TypeOKStep, ReplyInvStep, ClaimInvStep, GuardInvStep
  <1> QED
    BY <1>1, <1>2, PTL DEF Spec

(* Type correctness of the record and of the callers.                      *)
THEOREM TypeCorrect == Spec => []TypeOK
  BY IdempotencyInvariant, PTL

(* No two requests execute under one key while claims are honoured and the *)
(* cleanup takes no renewed row.                                           *)
THEOREM ExecutionIsExclusive == Spec => []ExclusiveExecution
  BY IdempotencyInvariant, PTL DEF ClaimInv

(* A replay is the stored answer of the same request.                      *)
THEOREM RepliesAnswerTheRequest == Spec => []RepliesMatchRequest
  <1>1. ReplyInv => RepliesMatchRequest
    BY DEF ReplyInv, RepliesMatchRequest
  <1> QED
    BY <1>1, IdempotencyInvariant, PTL

(* A claim while a side effect is protected needs a record that GuardInv   *)
(* excludes: none, a failed one, or one read as expired and unchanged.     *)
LEMMA ClaimStep ==
  TypeOK /\ ReplyInv /\ ClaimInv /\ GuardInv /\ [Next]_vars =>
    (anomalies' = {} => \A c \in Callers : ~Repeats(c))
  <1> SUFFICES ASSUME TypeOK, ReplyInv, ClaimInv, GuardInv, [Next]_vars,
                      anomalies' = {}, NEW q \in Callers, Repeats(q)
               PROVE  FALSE
    OBVIOUS
  <1> USE StoreAssumption DEF To, Repeats
  <1>1. ASSUME NEW c \in Callers, NEW f \in Fingerprints, Start(c, f) PROVE FALSE
    BY <1>1 DEF Start, callerVars, history, GuardInv, ClaimInv, TypeOK,
       StoreTypeOK, Record
  <1>2. ASSUME NEW c \in Callers, Create(c) PROVE FALSE
    BY <1>2 DEF Create, CreateProcessing, Claimed, Note, Overdue,
       callerVars, history, GuardInv, ClaimInv, TypeOK, StoreTypeOK,
       Record
  <1>3. ASSUME NEW c \in Callers, CreateConflict(c) PROVE FALSE
    BY <1>3 DEF CreateConflict, callerVars, history, GuardInv, ClaimInv,
       TypeOK, StoreTypeOK, Record
  <1>4. ASSUME NEW c \in Callers, GetExisting(c) PROVE FALSE
    BY <1>4 DEF GetExisting, Comparable, Dispatch, callerVars, history,
       GuardInv, ClaimInv, TypeOK, StoreTypeOK, Record
  <1>5. ASSUME NEW c \in Callers, ReclaimExpired(c) PROVE FALSE
    BY <1>5 DEF ReclaimExpired, TryReclaim, Reclaimable, Note, Overdue,
       callerVars, history, GuardInv, ClaimInv, TypeOK, StoreTypeOK,
       Record
  <1>6. ASSUME NEW c \in Callers, ReclaimExpiredLost(c) PROVE FALSE
    BY <1>6 DEF ReclaimExpiredLost, callerVars, history, GuardInv,
       ClaimInv, TypeOK, StoreTypeOK, Record
  <1>7. ASSUME NEW c \in Callers, GetLatest(c) PROVE FALSE
    BY <1>7 DEF GetLatest, Comparable, Dispatch, callerVars, history,
       GuardInv, ClaimInv, TypeOK, StoreTypeOK, Record
  <1>8. ASSUME NEW c \in Callers, ReclaimFailed(c) PROVE FALSE
    BY <1>8 DEF ReclaimFailed, TryReclaim, Reclaimable, Claimed, Note,
       Overdue, callerVars, history, GuardInv, ClaimInv, TypeOK,
       StoreTypeOK, Record
  <1>9. ASSUME NEW c \in Callers, ReclaimFailedLost(c) PROVE FALSE
    BY <1>9 DEF ReclaimFailedLost, callerVars, history, GuardInv,
       ClaimInv, TypeOK, StoreTypeOK, Record
  <1>10. ASSUME NEW c \in Callers, ExecuteSucceeds(c) PROVE FALSE
    BY <1>10 DEF ExecuteSucceeds, callerVars, history, GuardInv, ClaimInv,
       TypeOK, StoreTypeOK, Record
  <1>11. ASSUME NEW c \in Callers, ExecuteFails(c) PROVE FALSE
    BY <1>11 DEF ExecuteFails, callerVars, history, GuardInv, ClaimInv,
       TypeOK, StoreTypeOK, Record
  <1>12. ASSUME NEW c \in Callers, MarkOK(c) PROVE FALSE
    BY <1>12 DEF MarkOK, MarkSucceeded, callerVars, history, GuardInv,
       ClaimInv, TypeOK, StoreTypeOK, Record
  <1>13. ASSUME NEW c \in Callers, MarkFail(c) PROVE FALSE
    BY <1>13 DEF MarkFail, MarkFailedRetryable, callerVars, history,
       GuardInv, ClaimInv, TypeOK, StoreTypeOK, Record
  <1>14. ASSUME NEW c \in Callers, GiveUp(c) PROVE FALSE
    BY <1>14 DEF GiveUp, callerVars, history, GuardInv, ClaimInv, TypeOK,
       StoreTypeOK, Record
  <1>15. ASSUME CleanupSelects PROVE FALSE
    BY <1>15 DEF CleanupSelects, callerVars, history, GuardInv, ClaimInv, TypeOK,
       StoreTypeOK, Record
  <1>18. ASSUME NEW i \in victims, CleanupDeletes(i) PROVE FALSE
    BY <1>18 DEF CleanupDeletes, Note, callerVars, history, GuardInv, ClaimInv, TypeOK,
       StoreTypeOK, Record
  <1>16. ASSUME Tick PROVE FALSE
    BY <1>16 DEF Tick, Note, Overdue, callerVars, history, GuardInv,
       ClaimInv, TypeOK, StoreTypeOK, Record
  <1>17. CASE UNCHANGED vars
    BY <1>17 DEF vars, callerVars
  <1> QED
    BY <1>1, <1>2, <1>3, <1>4, <1>5, <1>6, <1>7, <1>8, <1>9, <1>10, <1>11,
       <1>12, <1>13, <1>14, <1>15, <1>16, <1>17, <1>18 DEF Next

(* Within the lifetime of its record a side effect is executed once, as    *)
(* long as claims are honoured and no expired record is overtaken or swept.*)
THEOREM SideEffectsAreNotRepeated == Spec => NoRepeatWithinTTL
  <1>1. TypeOK /\ ReplyInv /\ ClaimInv /\ GuardInv /\ [Next]_vars =>
          [anomalies' = {} => \A c \in Callers : ~Repeats(c)]_vars
    BY ClaimStep
  <1> QED
    BY <1>1, IdempotencyInvariant, PTL DEF Spec, NoRepeatWithinTTL

-----------------------------------------------------------------------------
(***************************************************************************)
(* SystemOperationLock, for any runners, operation ids and durations.      *)
(***************************************************************************)
(* Ids are not reused, and no runner's clock reading is ahead of time.     *)
LeaseInv ==
    /\ rec.id <= lastId
    /\ \A p \in Runners : began[p] <= now
    /\ \A p \in Runners : renewer[p] # "off" => stage[p] = "held"

(* While nothing went wrong a running operation owns the row, and its      *)
(* lease has not run out.                                                  *)
Holds(p) ==
    /\ rec.id = recordID[p] /\ recordID[p] # 0
    /\ rec.status = "processing"
    /\ rec.locked > now /\ rec.expires > now

(* At most one operation runs.                                             *)
Alone == \A p, q \in Runners : stage[p] = "held" /\ stage[q] = "held" => p = q

(* Both as long as no lease has lapsed. The second alone is not inductive. *)
HolderInv ==
    lapses = {} =>
        /\ \A p \in Runners : stage[p] = "held" => Holds(p)
        /\ Alone

(* What a renewal writes is a record.                                      *)
LEMMA RecordRenewed ==
  ASSUME NEW r \in Record, NEW l \in Nat, NEW e \in Nat
  PROVE  [r EXCEPT !.locked = l, !.expires = e] \in Record
  BY DEF Record

(* The initial state satisfies them.                                       *)
LEMMA LockInvInit == LockInit => LockTypeOK /\ LeaseInv /\ HolderInv
  BY StoreAssumption DEF LockInit, StoreInit, NoRecord, LockTypeOK,
     StoreTypeOK, Record, LeaseInv, HolderInv, Holds, Alone

(* What a first claim finds and leaves.                                    *)
LEMMA CreateOK ==
  ASSUME LockTypeOK, NEW p \in Runners, CreateProcessing(op[p], began[p])
  PROVE  /\ rec' \in Record /\ lastId' = lastId + 1 /\ rec'.id = lastId'
         /\ victims' = victims
         /\ rec.id = 0 /\ rec'.fp = op[p] /\ rec'.status = "processing"
         /\ rec'.locked = began[p] + ProcessingTimeout /\ rec'.expires = began[p] + TTL
  BY StoreAssumption DEF CreateProcessing, LockTypeOK, StoreTypeOK, Record

(* What a reclaim finds and leaves.                                        *)
LEMMA ReclaimOK ==
  ASSUME LockTypeOK, NEW p \in Runners, NEW i, NEW s, TryReclaim(i, s, began[p])
  PROVE  /\ rec' \in Record /\ lastId' = lastId /\ rec'.id = rec.id
         /\ victims' = victims
         /\ rec.id # 0 /\ rec.id = i /\ rec'.fp = rec.fp /\ rec'.status = "processing"
         /\ rec.locked <= began[p]
         /\ rec'.locked = began[p] + ProcessingTimeout /\ rec'.expires = began[p] + TTL
<1>1. began[p] + ProcessingTimeout \in Nat /\ began[p] + TTL \in Nat /\ rec \in Record
  BY StoreAssumption DEF LockTypeOK, StoreTypeOK
<1>2. rec' \in Record
  BY <1>1, RecordUpdate DEF TryReclaim
<1> QED
  BY <1>1, <1>2 DEF TryReclaim, Reclaimable, Record

(* A release writes a record and keeps its id.                             *)
LEMMA ReleaseOK ==
  ASSUME LockTypeOK, NEW p \in Runners, 
         \/ MarkSucceeded(recordID[p], op[p], now + TTL)
         \/ MarkFailedRetryable(recordID[p], now, now + TTL)
  PROVE  /\ rec' \in Record /\ lastId' = lastId /\ rec'.id = rec.id
         /\ victims' = victims
<1>1. now \in Nat /\ now + TTL \in Nat /\ rec \in Record /\ op[p] \in Fingerprints
  BY StoreAssumption DEF LockTypeOK, StoreTypeOK
<1>2. CASE MarkSucceeded(recordID[p], op[p], now + TTL)
  <2>1. [rec EXCEPT !.status = "succeeded", !.body = op[p], !.locked = 0,
                    !.expires = now + TTL] \in Record
    BY <1>1, RecordSuccess
  <2> QED
    BY <1>1, <1>2, <2>1 DEF MarkSucceeded, Record
<1>3. CASE MarkFailedRetryable(recordID[p], now, now + TTL)
  <2>1. [rec EXCEPT !.status = "failed_retryable", !.locked = now,
                    !.expires = now + TTL] \in Record
    BY <1>1, RecordUpdate
  <2> QED
    BY <1>1, <1>3, <2>1 DEF MarkFailedRetryable, Record
<1> QED
  BY <1>2, <1>3

(* Every step keeps the types.                                             *)
LEMMA LockTypeStep == LockTypeOK /\ LeaseInv /\ [LockNext]_lockVars => LockTypeOK'
<1> SUFFICES ASSUME LockTypeOK, LeaseInv, [LockNext]_lockVars PROVE LockTypeOK'
  OBVIOUS
<1> USE StoreAssumption DEF Goto
<1>0. NoRecord \in Record
  BY DEF NoRecord, Record
<1>1. ASSUME NEW p \in Runners, NEW o \in Fingerprints, Acquire(p, o) PROVE LockTypeOK'
  BY <1>1 DEF Acquire, LockTypeOK, StoreTypeOK, storeVars, lockHistory
<1>2. ASSUME NEW p \in Runners, AcquireCreate(p) PROVE LockTypeOK'
  <2>1. rec' \in Record /\ lastId' = lastId + 1 /\ victims' = victims
    BY <1>2, CreateOK DEF AcquireCreate
  <2>2. lapses' \in SUBSET {"late", "unrenewed", "swept"}
    BY <1>2 DEF AcquireCreate, Granted, Add, LockTypeOK
  <2> QED
    BY <1>0, <1>2, <2>1, <2>2 DEF AcquireCreate, Granted, LockTypeOK,
       StoreTypeOK
<1>3. ASSUME NEW p \in Runners, AcquireConflict(p) PROVE LockTypeOK'
  BY <1>3 DEF AcquireConflict, LockTypeOK, StoreTypeOK, storeVars, lockHistory
<1>4. ASSUME NEW p \in Runners, AcquireGet(p) PROVE LockTypeOK'
  BY <1>4 DEF AcquireGet, LockTypeOK, StoreTypeOK, storeVars, lockHistory
<1>5. ASSUME NEW p \in Runners, AcquireReclaim(p) PROVE LockTypeOK'
  <2>1. /\ rec' \in Record /\ lastId' = lastId /\ found[p].id = rec.id
        /\ victims' = victims
    BY <1>5, ReclaimOK DEF AcquireReclaim
  <2>2. lapses' \in SUBSET {"late", "unrenewed", "swept"}
    BY <1>5 DEF AcquireReclaim, Granted, Add, LockTypeOK
  <2>3. found[p].id \in 0..lastId
    BY <2>1 DEF LeaseInv, LockTypeOK, StoreTypeOK, Record
  <2> QED
    BY <1>0, <1>5, <2>1, <2>2, <2>3 DEF AcquireReclaim, Granted, LockTypeOK,
       StoreTypeOK
<1>6. ASSUME NEW p \in Runners, AcquireReclaimLost(p) PROVE LockTypeOK'
  BY <1>0, <1>6 DEF AcquireReclaimLost, LockTypeOK, StoreTypeOK, storeVars,
     lockHistory
<1>7. ASSUME NEW p \in Runners, AcquireFails(p) PROVE LockTypeOK'
  <2>1. rec' \in Record /\ lastId' \in {lastId, lastId + 1} /\ victims' = victims
    BY <1>7, CreateOK, ReclaimOK DEF AcquireFails, storeVars, LockTypeOK,
       StoreTypeOK
  <2> QED
    BY <1>0, <1>7, <2>1 DEF AcquireFails, LockTypeOK, StoreTypeOK, lockHistory
<1>8. ASSUME NEW p \in Runners, Renew(p) PROVE LockTypeOK'
  <2>1. now + ProcessingTimeout \in Nat /\ now + TTL \in Nat
    BY DEF LockTypeOK, StoreTypeOK
  <2>2. rec' \in Record
    BY <1>8, <2>1, RecordRenewed DEF Renew, LockTypeOK, StoreTypeOK
  <2> QED
    BY <1>8, <2>2 DEF Renew, LockTypeOK, StoreTypeOK, runnerVars, lockHistory
<1>9. ASSUME NEW p \in Runners, RenewLost(p) PROVE LockTypeOK'
  BY <1>9 DEF RenewLost, LockTypeOK, StoreTypeOK, storeVars, lockHistory
<1>10. ASSUME NEW p \in Runners, Release(p) PROVE LockTypeOK'
  <2>1. rec' \in Record /\ lastId' = lastId /\ victims' = victims
    BY <1>10, ReleaseOK DEF Release
  <2> QED
    BY <1>10, <2>1 DEF Release, Ended, LockTypeOK, StoreTypeOK, lockHistory
<1>11. ASSUME NEW p \in Runners, Crash(p) PROVE LockTypeOK'
  BY <1>11 DEF Crash, Ended, LockTypeOK, StoreTypeOK, storeVars, lockHistory
<1>12. CASE LockCleanupSelects
  BY <1>12 DEF LockCleanupSelects, SelectVictims, LockTypeOK, StoreTypeOK,
     Record, runnerVars, lockHistory
<1>15. ASSUME NEW i \in victims, LockCleanupDeletes(i) PROVE LockTypeOK'
  BY <1>0, <1>15 DEF LockCleanupDeletes, DeleteVictim, Add, LockTypeOK,
     StoreTypeOK, runnerVars
<1>13. CASE LockTick
  BY <1>13 DEF LockTick, Add, LockTypeOK, StoreTypeOK, storeVars, runnerVars
<1>14. CASE UNCHANGED lockVars
  BY <1>14 DEF lockVars, LockTypeOK, StoreTypeOK, storeVars, runnerVars,
     lockHistory
<1> QED
  BY <1>1, <1>2, <1>3, <1>4, <1>5, <1>6, <1>7, <1>8, <1>9, <1>10, <1>11, <1>12,
     <1>13, <1>14, <1>15 DEF LockNext

(* Every step keeps ids, clock readings and renewers in order.             *)
LEMMA LeaseStep == LockTypeOK /\ LeaseInv /\ [LockNext]_lockVars => LeaseInv'
<1> SUFFICES ASSUME LockTypeOK, LeaseInv, [LockNext]_lockVars PROVE LeaseInv'
  OBVIOUS
<1> USE StoreAssumption DEF Goto, LeaseInv
<1>1. ASSUME NEW p \in Runners, NEW o \in Fingerprints, Acquire(p, o) PROVE LeaseInv'
  BY <1>1 DEF Acquire, LockTypeOK, StoreTypeOK, storeVars
<1>2. ASSUME NEW p \in Runners, AcquireCreate(p) PROVE LeaseInv'
  <2>1. rec'.id = lastId' /\ lastId' = lastId + 1
    BY <1>2, CreateOK DEF AcquireCreate
  <2> QED
    BY <1>2, <2>1 DEF AcquireCreate, Granted, LockTypeOK, StoreTypeOK
<1>3. ASSUME NEW p \in Runners, AcquireConflict(p) PROVE LeaseInv'
  BY <1>3 DEF AcquireConflict, LockTypeOK, storeVars
<1>4. ASSUME NEW p \in Runners, AcquireGet(p) PROVE LeaseInv'
  BY <1>4 DEF AcquireGet, LockTypeOK, storeVars
<1>5. ASSUME NEW p \in Runners, AcquireReclaim(p) PROVE LeaseInv'
  <2>1. rec'.id = rec.id /\ lastId' = lastId
    BY <1>5, ReclaimOK DEF AcquireReclaim
  <2> QED
    BY <1>5, <2>1 DEF AcquireReclaim, Granted, LockTypeOK
<1>6. ASSUME NEW p \in Runners, AcquireReclaimLost(p) PROVE LeaseInv'
  BY <1>6 DEF AcquireReclaimLost, LockTypeOK, storeVars
<1>7. ASSUME NEW p \in Runners, AcquireFails(p) PROVE LeaseInv'
  <2>1. rec'.id <= lastId'
    <3>1. CASE UNCHANGED storeVars
      BY <3>1 DEF storeVars
    <3>2. CASE CreateProcessing(op[p], began[p])
      BY <3>2, CreateOK DEF LockTypeOK, StoreTypeOK
    <3>3. CASE TryReclaim(found[p].id, found[p].status, began[p])
      BY <3>3, ReclaimOK
    <3> QED
      BY <1>7, <3>1, <3>2, <3>3 DEF AcquireFails
  <2> QED
    BY <1>7, <2>1 DEF AcquireFails, LockTypeOK
<1>8. ASSUME NEW p \in Runners, Renew(p) PROVE LeaseInv'
  BY <1>8 DEF Renew, LockTypeOK, StoreTypeOK, Record, runnerVars
<1>9. ASSUME NEW p \in Runners, RenewLost(p) PROVE LeaseInv'
  BY <1>9 DEF RenewLost, LockTypeOK, storeVars
<1>10. ASSUME NEW p \in Runners, Release(p) PROVE LeaseInv'
  <2>1. rec'.id = rec.id /\ lastId' = lastId
    BY <1>10, ReleaseOK DEF Release
  <2> QED
    BY <1>10, <2>1 DEF Release, Ended, LockTypeOK
<1>11. ASSUME NEW p \in Runners, Crash(p) PROVE LeaseInv'
  BY <1>11 DEF Crash, Ended, LockTypeOK, storeVars
<1>12. CASE LockCleanupSelects
  BY <1>12 DEF LockCleanupSelects, SelectVictims, runnerVars
<1>15. ASSUME NEW i \in victims, LockCleanupDeletes(i) PROVE LeaseInv'
  BY <1>15 DEF LockCleanupDeletes, DeleteVictim, NoRecord, LockTypeOK,
     StoreTypeOK, runnerVars
<1>13. CASE LockTick
  BY <1>13 DEF LockTick, LockTypeOK, StoreTypeOK, storeVars, runnerVars
<1>14. CASE UNCHANGED lockVars
  BY <1>14 DEF lockVars, storeVars, runnerVars
<1> QED
  BY <1>1, <1>2, <1>3, <1>4, <1>5, <1>6, <1>7, <1>8, <1>9, <1>10, <1>11, <1>12,
     <1>13, <1>14, <1>15 DEF LockNext

(* Every step keeps the row with the runner whose operation runs.          *)
LEMMA HolderStep ==
    LockTypeOK /\ LeaseInv /\ HolderInv /\ [LockNext]_lockVars => HolderInv'
<1> SUFFICES ASSUME LockTypeOK, LeaseInv, HolderInv, [LockNext]_lockVars, lapses' = {}
             PROVE  /\ \A q \in Runners : stage'[q] = "held" => Holds(q)'
                    /\ Alone'
  BY DEF HolderInv
<1> USE StoreAssumption DEF Goto
<1>0. lapses = {}
  <2>1. lapses \subseteq lapses'
    BY DEF LockNext, lockVars, Acquire, AcquireCreate, AcquireConflict,
       AcquireGet, AcquireReclaim, AcquireReclaimLost, AcquireFails, Renew,
       RenewLost, Release, Crash, LockCleanupSelects, LockCleanupDeletes, LockTick, Granted, Ended,
       lockHistory
  <2> QED
    BY <2>1
<1>a. /\ \A q \in Runners : stage[q] = "held" => Holds(q)
      /\ Alone
  BY <1>0 DEF HolderInv
<1> USE DEF Holds, Alone
(* A claim by p finds no other holder, and p then holds the row.           *)
<1>b. ASSUME NEW p \in Runners, NEW i, Granted(p, i), i # 0, rec'.id = i,
             rec'.status = "processing",
             rec'.locked = began[p] + ProcessingTimeout, rec'.expires = began[p] + TTL,
             \A q \in Runners : stage[q] # "held"
      PROVE  /\ \A q \in Runners : stage'[q] = "held" => Holds(q)'
             /\ Alone'
  <2>1. /\ now < began[p] + ProcessingTimeout
        /\ now < began[p] + TTL
    BY <1>b DEF Granted, Add, LockTypeOK, StoreTypeOK
  <2> QED
    BY <1>b, <2>1 DEF Granted, LockTypeOK, StoreTypeOK
<1>1. ASSUME NEW p \in Runners, NEW o \in Fingerprints, Acquire(p, o)
      PROVE  /\ \A q \in Runners : stage'[q] = "held" => Holds(q)'
             /\ Alone'
  BY <1>a, <1>1 DEF Acquire, LockTypeOK, storeVars
<1>2. ASSUME NEW p \in Runners, AcquireCreate(p)
      PROVE  /\ \A q \in Runners : stage'[q] = "held" => Holds(q)'
             /\ Alone'
  <2>1. /\ rec.id = 0 /\ rec'.id = lastId + 1 /\ rec'.status = "processing"
        /\ rec'.locked = began[p] + ProcessingTimeout /\ rec'.expires = began[p] + TTL
    BY <1>2, CreateOK DEF AcquireCreate
  <2>2. \A q \in Runners : stage[q] # "held"
    BY <1>a, <2>1
  <2>3. Granted(p, lastId + 1) /\ lastId + 1 # 0
    BY <1>2 DEF AcquireCreate, LockTypeOK, StoreTypeOK
  <2> QED
    BY <1>b, <2>1, <2>2, <2>3
<1>3. ASSUME NEW p \in Runners, AcquireConflict(p)
      PROVE  /\ \A q \in Runners : stage'[q] = "held" => Holds(q)'
             /\ Alone'
  BY <1>a, <1>3 DEF AcquireConflict, LockTypeOK, storeVars
<1>4. ASSUME NEW p \in Runners, AcquireGet(p)
      PROVE  /\ \A q \in Runners : stage'[q] = "held" => Holds(q)'
             /\ Alone'
  BY <1>a, <1>4 DEF AcquireGet, LockTypeOK, storeVars
<1>5. ASSUME NEW p \in Runners, AcquireReclaim(p)
      PROVE  /\ \A q \in Runners : stage'[q] = "held" => Holds(q)'
             /\ Alone'
  <2>1. /\ rec.id # 0 /\ rec.id = found[p].id /\ rec'.id = rec.id
        /\ rec.locked <= began[p] /\ rec'.status = "processing"
        /\ rec'.locked = began[p] + ProcessingTimeout /\ rec'.expires = began[p] + TTL
    BY <1>5, ReclaimOK DEF AcquireReclaim
  <2>2. \A q \in Runners : stage[q] # "held"
    BY <1>a, <2>1 DEF LeaseInv, LockTypeOK, StoreTypeOK, Record
  <2>3. Granted(p, found[p].id)
    BY <1>5 DEF AcquireReclaim
  <2> QED
    BY <1>b, <2>1, <2>2, <2>3
<1>6. ASSUME NEW p \in Runners, AcquireReclaimLost(p)
      PROVE  /\ \A q \in Runners : stage'[q] = "held" => Holds(q)'
             /\ Alone'
  BY <1>a, <1>6 DEF AcquireReclaimLost, LockTypeOK, storeVars
<1>7. ASSUME NEW p \in Runners, AcquireFails(p)
      PROVE  /\ \A q \in Runners : stage'[q] = "held" => Holds(q)'
             /\ Alone'
  <2>1. CASE UNCHANGED storeVars
    BY <1>a, <1>7, <2>1 DEF AcquireFails, LockTypeOK, storeVars
  <2>2. CASE CreateProcessing(op[p], began[p]) \/ TryReclaim(found[p].id, found[p].status, began[p])
    <3>1. rec.id = 0 \/ rec.locked <= began[p]
      BY <2>2, CreateOK, ReclaimOK
    <3>2. \A q \in Runners : stage[q] # "held"
      BY <1>a, <3>1 DEF LeaseInv, LockTypeOK, StoreTypeOK, Record
    <3> QED
      BY <1>7, <3>2 DEF AcquireFails, LockTypeOK
  <2> QED
    BY <1>7, <2>1, <2>2 DEF AcquireFails
<1>8. ASSUME NEW p \in Runners, Renew(p)
      PROVE  /\ \A q \in Runners : stage'[q] = "held" => Holds(q)'
             /\ Alone'
  <2>1. /\ rec'.id = rec.id /\ rec'.status = rec.status /\ rec'.fp = rec.fp
        /\ rec'.locked > now /\ rec'.expires > now
    BY <1>8 DEF Renew, LockTypeOK, StoreTypeOK, Record
  <2> QED
    BY <1>a, <1>8, <2>1 DEF Renew, runnerVars
<1>9. ASSUME NEW p \in Runners, RenewLost(p)
      PROVE  /\ \A q \in Runners : stage'[q] = "held" => Holds(q)'
             /\ Alone'
  BY <1>a, <1>9 DEF RenewLost, storeVars
<1>10. ASSUME NEW p \in Runners, Release(p)
      PROVE  /\ \A q \in Runners : stage'[q] = "held" => Holds(q)'
             /\ Alone'
  BY <1>a, <1>10 DEF Release, Ended, LockTypeOK
<1>11. ASSUME NEW p \in Runners, Crash(p)
      PROVE  /\ \A q \in Runners : stage'[q] = "held" => Holds(q)'
             /\ Alone'
  BY <1>a, <1>11 DEF Crash, Ended, LockTypeOK
<1>12. ASSUME LockCleanupSelects
      PROVE  /\ \A q \in Runners : stage'[q] = "held" => Holds(q)'
             /\ Alone'
  BY <1>a, <1>12 DEF LockCleanupSelects, SelectVictims, runnerVars
<1>15. ASSUME NEW i \in victims, LockCleanupDeletes(i)
      PROVE  /\ \A q \in Runners : stage'[q] = "held" => Holds(q)'
             /\ Alone'
  <2>1. ~SweepsLive(i)
    BY <1>15 DEF LockCleanupDeletes, Add
  <2>2. CASE rec.id = i
    <3>1. \A q \in Runners : stage[q] # "held"
      BY <1>a, <2>1, <2>2 DEF SweepsLive, LockTypeOK, StoreTypeOK, Record
    <3> QED
      BY <1>15, <3>1 DEF LockCleanupDeletes, runnerVars
  <2>3. CASE rec.id # i
    BY <1>a, <1>15, <2>3 DEF LockCleanupDeletes, DeleteVictim, runnerVars
  <2> QED
    BY <2>2, <2>3
<1>13. ASSUME LockTick
      PROVE  /\ \A q \in Runners : stage'[q] = "held" => Holds(q)'
             /\ Alone'
  <2>1. \A q \in Runners : ~RunsOut(q)
    BY <1>13 DEF LockTick, Add
  <2>2. \A q \in Runners : stage[q] = "held" => now + 1 < rec.locked /\ now + 1 < rec.expires
    BY <1>a, <2>1 DEF RunsOut, LockTypeOK, StoreTypeOK, Record
  <2> QED
    BY <1>a, <1>13, <2>2 DEF LockTick, storeVars, runnerVars
<1>14. ASSUME UNCHANGED lockVars
      PROVE  /\ \A q \in Runners : stage'[q] = "held" => Holds(q)'
             /\ Alone'
  BY <1>a, <1>14 DEF lockVars, storeVars, runnerVars
<1> QED
  BY <1>1, <1>2, <1>3, <1>4, <1>5, <1>6, <1>7, <1>8, <1>9, <1>10, <1>11, <1>12,
     <1>13, <1>14, <1>15 DEF LockNext

(* The lock's records and program counters keep their types.               *)
THEOREM LockTypeCorrect == LockSpec => []LockTypeOK
<1>1. LockTypeOK /\ LeaseInv /\ [LockNext]_lockVars => (LockTypeOK /\ LeaseInv)'
  BY LockTypeStep, LeaseStep
<1>2. QED
  BY <1>1, LockInvInit, PTL DEF LockSpec

(* Two system operations never run at once, while no lease runs out under  *)
(* a running operation and the cleanup takes no renewed row.               *)
THEOREM OneOperationAtATime == LockSpec => []ExclusiveOperation
<1>1. HolderInv => ExclusiveOperation
  BY DEF HolderInv, Alone, ExclusiveOperation
<1>2. QED
  BY <1>1, LockInvInit, LockTypeStep, LeaseStep, HolderStep, PTL DEF LockSpec
=============================================================================
