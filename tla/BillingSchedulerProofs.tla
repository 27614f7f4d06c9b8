----------------------- MODULE BillingSchedulerProofs ------------------------
(***************************************************************************)
(* Two ends of the scheduler's outbox: the billing transaction, which      *)
(* writes an event when it takes an account to its limit, and the snapshot *)
(* that follows the events, for any deliveries, requests and costs, and    *)
(* any writers, pollers, rebuilds, readers and sizes of a batch.           *)
(***************************************************************************)
EXTENDS UsageBilling, SchedulerSnapshot, SequenceTheorems, FiniteSetTheorems, TLAPS

(***************************************************************************)
(* The billing transaction                                                 *)
(***************************************************************************)
(* Every step keeps the types (BillingTypeOK).                             *)
LEMMA BillingTypeStep == BillingTypeOK /\ [BillingNext]_billingVars => BillingTypeOK'
  <1> SUFFICES ASSUME BillingTypeOK, [BillingNext]_billingVars
               PROVE  BillingTypeOK'
    OBVIOUS
  <1> USE BillingAssumption DEF Advance, Unclaim
  <1>1. ASSUME NEW d \in Deliveries, InsertClaim(d) PROVE BillingTypeOK'
    BY <1>1 DEF InsertClaim, rows, effects, BillingTypeOK, Ended
  <1>2. ASSUME NEW d \in Deliveries, InsertConflict(d) PROVE BillingTypeOK'
    BY <1>2 DEF InsertConflict, rows, effects, BillingTypeOK, Ended
  <1>3. ASSUME NEW d \in Deliveries, SelectExisting(d) PROVE BillingTypeOK'
    BY <1>3 DEF SelectExisting, rows, effects, BillingTypeOK, Ended
  <1>4. ASSUME NEW d \in Deliveries, SelectArchived(d) PROVE BillingTypeOK'
    BY <1>4 DEF SelectArchived, rows, effects, BillingTypeOK, Ended
  <1>5. ASSUME NEW d \in Deliveries, Commit(d) PROVE BillingTypeOK'
    <2>1. Cost[d] \in Nat
      OBVIOUS
    <2>2. balance' \in Int /\ quotaUsed' \in Nat /\ accountUsed' \in Nat
      BY <1>5, <2>1 DEF Commit, BillingTypeOK
    <2>3. keyStatus' \in {"active", "quota_exhausted"}
      BY <1>5 DEF Commit, MarkedStatus, BillingTypeOK
    <2>4. notified' \in BOOLEAN
      BY <1>5 DEF Commit, AccountCrosses, BillingTypeOK
    <2>5. exhausted' \subseteq Deliveries
      BY <1>5 DEF Commit, BillingTypeOK
    <2> QED
      BY <1>5, <2>2, <2>3, <2>4, <2>5 DEF Commit, BillingTypeOK, Ended
  <1>6. ASSUME NEW d \in Deliveries, Finalize(d) PROVE BillingTypeOK'
    BY <1>6 DEF Finalize, rows, effects, BillingTypeOK, Ended
  <1>7. ASSUME NEW d \in Deliveries, Fail(d) PROVE BillingTypeOK'
    BY <1>7 DEF Fail, rows, effects, BillingTypeOK, Ended
  <1>8. ASSUME NEW r \in Requests, Archive(r) PROVE BillingTypeOK'
    BY <1>8 DEF Archive, rows, effects, BillingTypeOK, Ended
  <1>9. CASE UNCHANGED billingVars
    BY <1>9 DEF billingVars, rows, effects, BillingTypeOK, Ended
  <1> QED
    BY <1>1, <1>2, <1>3, <1>4, <1>5, <1>6, <1>7, <1>8, <1>9 DEF BillingNext, Step

(* Every step keeps ClaimInv: an insert waits for a claim on its key, and  *)
(* a row is in the archive before it leaves the table.                     *)
LEMMA ClaimInvStep ==
  BillingTypeOK /\ ClaimInv /\ [BillingNext]_billingVars => ClaimInv'
  <1> SUFFICES ASSUME BillingTypeOK, ClaimInv, [BillingNext]_billingVars
               PROVE  ClaimInv'
    OBVIOUS
  <1> USE BillingAssumption DEF Advance, Unclaim
  <1>1. ASSUME NEW d \in Deliveries, InsertClaim(d) PROVE ClaimInv'
    BY <1>1 DEF InsertClaim, rows, effects, ClaimInv, Recorded, BillingTypeOK,
       Ended
  <1>2. ASSUME NEW d \in Deliveries, InsertConflict(d) PROVE ClaimInv'
    BY <1>2 DEF InsertConflict, rows, effects, ClaimInv, Recorded, BillingTypeOK,
       Ended
  <1>3. ASSUME NEW d \in Deliveries, SelectExisting(d) PROVE ClaimInv'
    BY <1>3 DEF SelectExisting, rows, effects, ClaimInv, Recorded, BillingTypeOK,
       Ended
  <1>4. ASSUME NEW d \in Deliveries, SelectArchived(d) PROVE ClaimInv'
    BY <1>4 DEF SelectArchived, rows, effects, ClaimInv, Recorded, BillingTypeOK,
       Ended
  <1>5. ASSUME NEW d \in Deliveries, Commit(d) PROVE ClaimInv'
    BY <1>5 DEF Commit, rows, effects, ClaimInv, Recorded, BillingTypeOK, Ended
  <1>6. ASSUME NEW d \in Deliveries, Finalize(d) PROVE ClaimInv'
    BY <1>6 DEF Finalize, rows, effects, ClaimInv, Recorded, BillingTypeOK, Ended
  <1>7. ASSUME NEW d \in Deliveries, Fail(d) PROVE ClaimInv'
    BY <1>7 DEF Fail, rows, effects, ClaimInv, Recorded, BillingTypeOK, Ended
  <1>8. ASSUME NEW r \in Requests, Archive(r) PROVE ClaimInv'
    BY <1>8 DEF Archive, rows, effects, ClaimInv, Recorded, BillingTypeOK, Ended
  <1>9. CASE UNCHANGED billingVars
    BY <1>9 DEF billingVars, rows, effects, ClaimInv, Recorded, BillingTypeOK, Ended
  <1> QED
    BY <1>1, <1>2, <1>3, <1>4, <1>5, <1>6, <1>7, <1>8, <1>9 DEF BillingNext, Step

(* Every step keeps FinalInv: a commit needs an unrecorded key, which no   *)
(* earlier committed delivery has.                                         *)
LEMMA FinalInvStep ==
  BillingTypeOK /\ ClaimInv /\ FinalInv /\ [BillingNext]_billingVars => FinalInv'
  <1> SUFFICES ASSUME BillingTypeOK, ClaimInv, FinalInv, [BillingNext]_billingVars
               PROVE  FinalInv'
    OBVIOUS
  <1> USE BillingAssumption DEF Advance, Unclaim
  <1>1. ASSUME NEW d \in Deliveries, InsertClaim(d) PROVE FinalInv'
    BY <1>1 DEF InsertClaim, rows, effects, FinalInv, ClaimInv, Recorded,
       BillingTypeOK, Ended
  <1>2. ASSUME NEW d \in Deliveries, InsertConflict(d) PROVE FinalInv'
    BY <1>2 DEF InsertConflict, rows, effects, FinalInv, ClaimInv,
       Recorded, BillingTypeOK, Ended
  <1>3. ASSUME NEW d \in Deliveries, SelectExisting(d) PROVE FinalInv'
    BY <1>3 DEF SelectExisting, rows, effects, FinalInv, ClaimInv,
       Recorded, BillingTypeOK, Ended
  <1>4. ASSUME NEW d \in Deliveries, SelectArchived(d) PROVE FinalInv'
    BY <1>4 DEF SelectArchived, rows, effects, FinalInv, ClaimInv,
       Recorded, BillingTypeOK, Ended
  <1>5. ASSUME NEW d \in Deliveries, Commit(d) PROVE FinalInv'
    <2>1. ~Recorded(Req[d]) /\ Recorded(Req[d])'
      BY <1>5 DEF Commit, ClaimInv, Recorded, BillingTypeOK
    <2>2. \A r \in Requests : Recorded(r) => Recorded(r)'
      BY <1>5, <2>1 DEF Commit, Recorded, BillingTypeOK
    <2>3. /\ finalized' = finalized /\ stage'[d] = "committed"
          /\ \A e \in Deliveries : e # d => stage'[e] = stage[e]
      BY <1>5 DEF Commit, BillingTypeOK
    <2>4. \A e \in Deliveries :
            e \in finalized \/ stage[e] = "committed" => Req[e] # Req[d]
      BY <2>1 DEF FinalInv
    <2> QED
      BY <2>1, <2>2, <2>3, <2>4 DEF FinalInv
  <1>6. ASSUME NEW d \in Deliveries, Finalize(d) PROVE FinalInv'
    BY <1>6 DEF Finalize, rows, effects, FinalInv, ClaimInv, Recorded,
       BillingTypeOK, Ended
  <1>7. ASSUME NEW d \in Deliveries, Fail(d) PROVE FinalInv'
    BY <1>7 DEF Fail, rows, effects, FinalInv, ClaimInv, Recorded, BillingTypeOK,
       Ended
  <1>8. ASSUME NEW r \in Requests, Archive(r) PROVE FinalInv'
    BY <1>8 DEF Archive, rows, effects, FinalInv, ClaimInv, Recorded,
       BillingTypeOK, Ended
  <1>9. CASE UNCHANGED billingVars
    BY <1>9 DEF billingVars, rows, effects, FinalInv, ClaimInv, Recorded, BillingTypeOK,
       Ended
  <1> QED
    BY <1>1, <1>2, <1>3, <1>4, <1>5, <1>6, <1>7, <1>8, <1>9 DEF BillingNext, Step

(* Every step keeps ExhaustedByOneCharge: only one charge crosses the      *)
(* quota.                                                                  *)
LEMMA ExhaustedByOneChargeStep ==
  BillingTypeOK /\ ExhaustedByOneCharge /\ [BillingNext]_billingVars =>
    ExhaustedByOneCharge'
  <1> SUFFICES ASSUME BillingTypeOK, ExhaustedByOneCharge, [BillingNext]_billingVars
               PROVE  ExhaustedByOneCharge'
    OBVIOUS
  <1> USE BillingAssumption DEF Advance, Unclaim
  <1>1. ASSUME NEW d \in Deliveries, InsertClaim(d) PROVE ExhaustedByOneCharge'
    BY <1>1 DEF InsertClaim, rows, effects, ExhaustedByOneCharge, BillingTypeOK,
       Ended
  <1>2. ASSUME NEW d \in Deliveries, InsertConflict(d) PROVE ExhaustedByOneCharge'
    BY <1>2 DEF InsertConflict, rows, effects, ExhaustedByOneCharge,
       BillingTypeOK, Ended
  <1>3. ASSUME NEW d \in Deliveries, SelectExisting(d) PROVE ExhaustedByOneCharge'
    BY <1>3 DEF SelectExisting, rows, effects, ExhaustedByOneCharge,
       BillingTypeOK, Ended
  <1>4. ASSUME NEW d \in Deliveries, SelectArchived(d) PROVE ExhaustedByOneCharge'
    BY <1>4 DEF SelectArchived, rows, effects, ExhaustedByOneCharge,
       BillingTypeOK, Ended
  <1>5. ASSUME NEW d \in Deliveries, Commit(d) PROVE ExhaustedByOneCharge'
    <2>1. Cost[d] \in Nat /\ Cost[d] > 0 /\ quotaUsed \in Nat
      BY DEF BillingTypeOK
    <2>2. CASE KeyCrosses(Cost[d])
      <3>1. quotaUsed < KeyQuota /\ quotaUsed + Cost[d] >= KeyQuota
        BY <2>2 DEF KeyCrosses
      <3>2. keyStatus = "active" /\ exhausted = {}
        BY <2>1, <3>1 DEF BillingTypeOK, ExhaustedByOneCharge
      <3>3. /\ keyStatus' = "quota_exhausted" /\ exhausted' = {d}
            /\ quotaUsed' = quotaUsed + Cost[d]
        BY <1>5, <2>2, <3>2 DEF Commit, MarkedStatus
      <3>4. quotaUsed' >= KeyQuota
        BY <3>1, <3>3
      <3> QED
        BY <3>3, <3>4 DEF ExhaustedByOneCharge
    <2>3. CASE ~KeyCrosses(Cost[d])
      <3>1. /\ keyStatus' = keyStatus /\ exhausted' = exhausted
            /\ quotaUsed' = quotaUsed + Cost[d]
        BY <1>5, <2>3 DEF Commit, MarkedStatus
      <3>2. (quotaUsed' >= KeyQuota) <=> (quotaUsed >= KeyQuota)
        BY <2>1, <2>3, <3>1 DEF KeyCrosses
      <3> QED
        BY <3>1, <3>2 DEF ExhaustedByOneCharge
    <2> QED
      BY <2>2, <2>3
  <1>6. ASSUME NEW d \in Deliveries, Finalize(d) PROVE ExhaustedByOneCharge'
    BY <1>6 DEF Finalize, rows, effects, ExhaustedByOneCharge, BillingTypeOK,
       Ended
  <1>7. ASSUME NEW d \in Deliveries, Fail(d) PROVE ExhaustedByOneCharge'
    BY <1>7 DEF Fail, rows, effects, ExhaustedByOneCharge, BillingTypeOK, Ended
  <1>8. ASSUME NEW r \in Requests, Archive(r) PROVE ExhaustedByOneCharge'
    BY <1>8 DEF Archive, rows, effects, ExhaustedByOneCharge, BillingTypeOK,
       Ended
  <1>9. CASE UNCHANGED billingVars
    BY <1>9 DEF billingVars, rows, effects, ExhaustedByOneCharge, BillingTypeOK, Ended
  <1> QED
    BY <1>1, <1>2, <1>3, <1>4, <1>5, <1>6, <1>7, <1>8, <1>9 DEF BillingNext, Step

(* Every step keeps SchedulerTold: some charge crossed the limit and wrote *)
(* the event.                                                              *)
LEMMA SchedulerToldStep ==
  BillingTypeOK /\ SchedulerTold /\ [BillingNext]_billingVars => SchedulerTold'
  <1> SUFFICES ASSUME BillingTypeOK, SchedulerTold, [BillingNext]_billingVars
               PROVE  SchedulerTold'
    OBVIOUS
  <1> USE BillingAssumption DEF Advance, Unclaim
  <1>1. ASSUME NEW d \in Deliveries, InsertClaim(d) PROVE SchedulerTold'
    BY <1>1 DEF InsertClaim, rows, effects, SchedulerTold, BillingTypeOK, Ended
  <1>2. ASSUME NEW d \in Deliveries, InsertConflict(d) PROVE SchedulerTold'
    BY <1>2 DEF InsertConflict, rows, effects, SchedulerTold, BillingTypeOK,
       Ended
  <1>3. ASSUME NEW d \in Deliveries, SelectExisting(d) PROVE SchedulerTold'
    BY <1>3 DEF SelectExisting, rows, effects, SchedulerTold, BillingTypeOK,
       Ended
  <1>4. ASSUME NEW d \in Deliveries, SelectArchived(d) PROVE SchedulerTold'
    BY <1>4 DEF SelectArchived, rows, effects, SchedulerTold, BillingTypeOK,
       Ended
  <1>5. ASSUME NEW d \in Deliveries, Commit(d) PROVE SchedulerTold'
    <2>1. Cost[d] \in Nat /\ accountUsed \in Nat /\ accountUsed' = accountUsed + Cost[d]
      BY <1>5 DEF Commit, BillingTypeOK
    <2>2. CASE AccountCrosses(Cost[d])
      BY <1>5, <2>2 DEF Commit, SchedulerTold
    <2>3. CASE ~AccountCrosses(Cost[d])
      <3>1. accountUsed' >= AccountLimit
              => accountUsed >= AccountLimit
        BY <2>1, <2>3 DEF AccountCrosses
      <3>2. notified => notified'
        BY <1>5 DEF Commit
      <3> QED
        BY <3>1, <3>2 DEF SchedulerTold
    <2> QED
      BY <2>2, <2>3
  <1>6. ASSUME NEW d \in Deliveries, Finalize(d) PROVE SchedulerTold'
    BY <1>6 DEF Finalize, rows, effects, SchedulerTold, BillingTypeOK, Ended
  <1>7. ASSUME NEW d \in Deliveries, Fail(d) PROVE SchedulerTold'
    BY <1>7 DEF Fail, rows, effects, SchedulerTold, BillingTypeOK, Ended
  <1>8. ASSUME NEW r \in Requests, Archive(r) PROVE SchedulerTold'
    BY <1>8 DEF Archive, rows, effects, SchedulerTold, BillingTypeOK, Ended
  <1>9. CASE UNCHANGED billingVars
    BY <1>9 DEF billingVars, rows, effects, SchedulerTold, BillingTypeOK, Ended
  <1> QED
    BY <1>1, <1>2, <1>3, <1>4, <1>5, <1>6, <1>7, <1>8, <1>9 DEF BillingNext, Step

(* The conjunction of the invariants holds in every reachable state.       *)
THEOREM BillingInvariant ==
  BillingSpec => [](BillingTypeOK /\ ClaimInv /\ FinalInv
                      /\ ExhaustedByOneCharge /\ SchedulerTold)
  <1> DEFINE Inv == BillingTypeOK /\ ClaimInv /\ FinalInv
                    /\ ExhaustedByOneCharge /\ SchedulerTold
  <1>1. BillingInit => Inv
    <2> SUFFICES ASSUME BillingInit PROVE Inv
      OBVIOUS
    <2> USE BillingAssumption DEF BillingInit
    <2>1. BillingTypeOK
      BY DEF BillingTypeOK, Ended
    <2>2. ClaimInv /\ FinalInv
      BY DEF ClaimInv, Recorded, FinalInv
    <2>3. ExhaustedByOneCharge
      <3>1. ~(quotaUsed >= KeyQuota)
        OBVIOUS
      <3> QED
        BY <3>1 DEF ExhaustedByOneCharge
    <2>4. SchedulerTold
      BY DEF SchedulerTold
    <2> QED
      BY <2>1, <2>2, <2>3, <2>4
  <1>2. Inv /\ [BillingNext]_billingVars => Inv'
    BY BillingTypeStep, ClaimInvStep, FinalInvStep, ExhaustedByOneChargeStep,
       SchedulerToldStep
  <1> QED
    BY <1>1, <1>2, PTL DEF BillingSpec

(* Type correctness of the billing tables and deliveries.                  *)
THEOREM BillingTypeCorrect == BillingSpec => []BillingTypeOK
  BY BillingInvariant, PTL

(* A charge is passed to the cache at most once, and only when committed.  *)
THEOREM CacheIsToldOnce == BillingSpec => []CacheToldOnce
  <1>1. BillingTypeOK /\ FinalInv => CacheToldOnce
    BY DEF FinalInv, CacheToldOnce, BillingTypeOK
  <1> QED
    BY BillingInvariant, <1>1, PTL

(* One charge marks the key exhausted.                                     *)
THEOREM ExhaustionIsReportedOnce == BillingSpec => []ExhaustedByOneCharge
  BY BillingInvariant, PTL

(* The scheduler is told of an account over its limit.                     *)
THEOREM SchedulerIsTold == BillingSpec => []SchedulerTold
  BY BillingInvariant, PTL

(* Before any charge nothing is recorded.                                  *)
LEMMA LedgerInit == BillingInit => Ledger!Init
  BY DEF BillingInit, Ledger!Init, Recorded

(* A commit is a charge of the ledger.                                     *)
LEMMA CommitCharges ==
  ASSUME BillingTypeOK, ClaimInv, NEW d \in Deliveries, Commit(d)
  PROVE  Ledger!Next
  <1> USE BillingAssumption
  <1>1. ~Recorded(Req[d]) /\ Recorded(Req[d])'
    BY DEF Commit, ClaimInv, Recorded, BillingTypeOK
  <1>2. \A r \in Requests : r # Req[d] => (Recorded(r)' <=> Recorded(r))
    BY DEF Commit, Recorded, BillingTypeOK
  <1>3. {r \in Requests : Recorded(r)}' = {r \in Requests : Recorded(r)} \cup {Req[d]}
    BY <1>1, <1>2
  <1>4. balance' = balance - Cost[d] /\ quotaUsed' = quotaUsed + Cost[d]
    BY DEF Commit
  <1>5. Ledger!Charge(Req[d], Cost[d])
    BY <1>1, <1>3, <1>4 DEF Ledger!Charge
  <1> QED
    BY <1>5 DEF Ledger!Next

(* No other step changes what is recorded or charged.                      *)
LEMMA OthersStutter ==
  ASSUME BillingTypeOK, ClaimInv, [BillingNext]_billingVars,
         \A d \in Deliveries : ~Commit(d)
  PROVE  UNCHANGED Ledger!ledger
  <1>1. UNCHANGED <<balance, quotaUsed>>
    BY DEF BillingNext, Step, billingVars, rows, effects, InsertClaim, InsertConflict,
       SelectExisting, SelectArchived, Finalize, Fail, Archive
  <1>2. \A r \in Requests : Recorded(r)' <=> Recorded(r)
    <2>1. CASE UNCHANGED <<dedup, archive>>
      BY <2>1 DEF Recorded
    <2>2. CASE \E r \in Requests : Archive(r)
      BY <2>2, BillingAssumption DEF Archive, Recorded, BillingTypeOK, ClaimInv
    <2> QED
      BY <2>1, <2>2 DEF BillingNext, Step, billingVars, rows, effects, InsertClaim,
         InsertConflict, SelectExisting, SelectArchived, Finalize, Fail
  <1>3. {r \in Requests : Recorded(r)}' = {r \in Requests : Recorded(r)}
    BY <1>2
  <1> QED
    BY <1>1, <1>3 DEF Ledger!ledger

(* Usage billing implements the ledger: at most one charge per request.    *)
THEOREM ChargesAtMostOnce == BillingSpec => AtMostOnce
  <1> DEFINE Inv == BillingTypeOK /\ ClaimInv
  <1>1. Inv /\ [BillingNext]_billingVars => [Ledger!Next]_(Ledger!ledger)
    BY CommitCharges, OthersStutter
  <1>2. BillingSpec => []Inv
    BY BillingInvariant, PTL
  <1> QED
    BY <1>1, <1>2, LedgerInit, PTL DEF BillingSpec, AtMostOnce, Ledger!Spec

(***************************************************************************)
(* Types of the scheduler snapshot                                         *)
(***************************************************************************)

(* A row of scheduler_outbox.                                              *)
Entry == [kind : EventKinds, state : {"open", "committed", "aborted"}]

(* Every process with a place of its own.                                  *)
Actors == Writers \cup Billers \cup Jobs

(* Values that are numbers, jobs or kinds of events.                       *)
ValuesOK ==
    /\ row \in Versions
    /\ snap \in Versions \cup {None} /\ meta \in Versions \cup {None}
    /\ drawn \in Nat /\ vers \in [Jobs -> 0..drawn]
    /\ lock \in Jobs \cup {Nobody}
    /\ val \in [Actors -> Versions \cup {None}]
    /\ kind \in [Writers -> EventKinds]
    /\ faults \in 0..MaxFaults

(* Where each kind of actor may be.                                        *)
PcOK ==
    /\ pc \in [Actors -> {"idle", "delete", "enqueue", "syncRead", "syncWrite",
                          "tx", "next", "read", "set", "lock"} \cup Locked]
    /\ \A w \in Writers :
         pc[w] \in {"idle", "delete", "enqueue", "syncRead", "syncWrite"}
    /\ \A w \in Billers : pc[w] \in {"idle", "tx"}
    /\ \A j \in Rebuilders : pc[j] \in {"idle", "lock"} \cup Locked
    /\ \A j \in Readers : pc[j] \in {"idle", "load", "incr", "activate"}
    /\ \A p \in Pollers :
         pc[p] \notin {"delete", "enqueue", "syncRead", "syncWrite", "tx"}

(* A copy in flight is a version.                                          *)
HeldOK ==
    /\ \A j \in Jobs : InFlight(j) => val[j] \in Versions
    /\ \A w \in Writers : pc[w] = "syncWrite" => val[w] \in Versions

(* The outbox, and the transactions with an uncommitted row in it.         *)
OutboxOK ==
    /\ outbox \in Seq(Entry) /\ watermark \in 0..Len(outbox)
    /\ id \in [Billers -> Nat]
    /\ \A w \in Billers : id[w] # 0 =>
         /\ pc[w] = "tx" /\ id[w] \in 1..Len(outbox)
         /\ outbox[id[w]].state = "open" /\ outbox[id[w]].kind = "account"
    /\ \A v, w \in Billers : pc[v] = "tx" /\ pc[w] = "tx" => v = w

(* What pollers have listed; an entry event is read and set before it is   *)
(* rebuilt.                                                                *)
PollOK ==
    /\ batch \in [Pollers -> SUBSET Nat] /\ listed \in [Pollers -> Nat]
    /\ seen \in [Pollers -> BOOLEAN]
    /\ \A p \in Pollers : batch[p] \subseteq Visible /\ listed[p] \in {0} \cup Visible
    /\ \A p \in Pollers : pc[p] \in {"read", "set"} =>
         batch[p] # {} /\ Event(p) \in {"account", "groups", "used"}

(* Every step keeps the values in range.                                   *)
LEMMA ValuesStep == ValuesOK /\ PcOK /\ HeldOK /\ [Next]_vars => ValuesOK'
<1> SUFFICES ASSUME ValuesOK, PcOK, HeldOK, [Next]_vars PROVE ValuesOK'
  OBVIOUS
<1>1. ASSUME NEW w \in Writers, NEW k \in Kinds, Change(w, k)
      PROVE  ValuesOK'
  BY <1>1, SnapshotAssumption DEF Change, To, dbVars, cacheVars, versionVars,
     writerVars, pollVars, ValuesOK, PcOK, HeldOK, InFlight, Actors, Jobs,
     Versions, None, Nobody, EventKinds, Locked
<1>2. ASSUME NEW w \in Writers, Delete(w) PROVE ValuesOK'
  BY <1>2, SnapshotAssumption DEF Delete, To, dbVars, cacheVars, versionVars,
     writerVars, pollVars, ValuesOK, PcOK, HeldOK, InFlight, Actors, Jobs,
     Versions, None, Nobody, EventKinds, Locked
<1>3. ASSUME NEW w \in Writers, DeleteEntry(w) PROVE ValuesOK'
  BY <1>3, SnapshotAssumption DEF DeleteEntry, To, dbVars, cacheVars,
     versionVars, writerVars, pollVars, ValuesOK, PcOK, HeldOK, InFlight,
     Actors, Jobs, Versions, None, Nobody, EventKinds, Locked
<1>4. ASSUME NEW w \in Writers, Enqueue(w) PROVE ValuesOK'
  BY <1>4, SnapshotAssumption DEF Enqueue, AfterEnqueue, To, dbVars, cacheVars,
     versionVars, writerVars, pollVars, ValuesOK, PcOK, HeldOK, InFlight,
     Actors, Jobs, Versions, None, Nobody, EventKinds, Locked
<1>5. ASSUME NEW w \in Writers, EnqueueDeduped(w) PROVE ValuesOK'
  BY <1>5, SnapshotAssumption DEF EnqueueDeduped, AfterEnqueue, To, dbVars,
     cacheVars, versionVars, writerVars, pollVars, ValuesOK, PcOK, HeldOK,
     InFlight, Actors, Jobs, Versions, None, Nobody, EventKinds, Locked
<1>6. ASSUME NEW w \in Writers, EnqueueFails(w) PROVE ValuesOK'
  BY <1>6, SnapshotAssumption DEF EnqueueFails, AfterEnqueue, To, dbVars,
     cacheVars, versionVars, writerVars, pollVars, ValuesOK, PcOK, HeldOK,
     InFlight, Actors, Jobs, Versions, None, Nobody, EventKinds, Locked
<1>7. ASSUME NEW w \in Writers, SyncRead(w) PROVE ValuesOK'
  BY <1>7, SnapshotAssumption DEF SyncRead, To, Keep, dbVars, cacheVars,
     versionVars, writerVars, pollVars, ValuesOK, PcOK, HeldOK, InFlight,
     Actors, Jobs, Versions, None, Nobody, EventKinds, Locked
<1>8. ASSUME NEW w \in Writers, SyncWrite(w) PROVE ValuesOK'
  BY <1>8, SnapshotAssumption DEF SyncWrite, To, Keep, dbVars, cacheVars,
     versionVars, writerVars, pollVars, ValuesOK, PcOK, HeldOK, InFlight,
     Actors, Jobs, Versions, None, Nobody, EventKinds, Locked
<1>9. ASSUME NEW w \in Writers, SyncFails(w) PROVE ValuesOK'
  BY <1>9, SnapshotAssumption DEF SyncFails, To, Keep, dbVars, cacheVars,
     versionVars, writerVars, pollVars, ValuesOK, PcOK, HeldOK, InFlight,
     Actors, Jobs, Versions, None, Nobody, EventKinds, Locked
<1>10. ASSUME NEW w \in Billers, TxInsert(w) PROVE ValuesOK'
  BY <1>10, SnapshotAssumption DEF TxInsert, To, dbVars, cacheVars,
     versionVars, writerVars, pollVars, ValuesOK, PcOK, HeldOK, InFlight,
     Actors, Jobs, Versions, None, Nobody, EventKinds, Locked
<1>11. ASSUME NEW w \in Billers, TxDeduped(w) PROVE ValuesOK'
  BY <1>11, SnapshotAssumption DEF TxDeduped, To, dbVars, cacheVars,
     versionVars, writerVars, pollVars, ValuesOK, PcOK, HeldOK, InFlight,
     Actors, Jobs, Versions, None, Nobody, EventKinds, Locked
<1>12. ASSUME NEW w \in Billers, TxCommit(w) PROVE ValuesOK'
  BY <1>12, SnapshotAssumption DEF TxCommit, To, TxEnds, dbVars, cacheVars,
     versionVars, writerVars, pollVars, ValuesOK, PcOK, HeldOK, InFlight,
     Actors, Jobs, Versions, None, Nobody, EventKinds, Locked
<1>13. ASSUME NEW w \in Billers, TxRollback(w) PROVE ValuesOK'
  BY <1>13, SnapshotAssumption DEF TxRollback, To, TxEnds, dbVars, cacheVars,
     versionVars, writerVars, pollVars, ValuesOK, PcOK, HeldOK, InFlight,
     Actors, Jobs, Versions, None, Nobody, EventKinds, Locked
<1>14. ASSUME NEW j \in Jobs, TryLockBucket(j) PROVE ValuesOK'
  BY <1>14, SnapshotAssumption DEF TryLockBucket, To, MarkSeen, dbVars,
     cacheVars, versionVars, writerVars, pollVars, ValuesOK, PcOK, HeldOK,
     InFlight, Actors, Jobs, Versions, None, Nobody, EventKinds, Locked
<1>15. ASSUME NEW j \in Jobs, LockTaken(j) PROVE ValuesOK'
  BY <1>15, SnapshotAssumption DEF LockTaken, To, MarkSeen, Return, dbVars,
     cacheVars, versionVars, writerVars, pollVars, ValuesOK, PcOK, HeldOK,
     InFlight, Actors, Jobs, Versions, None, Nobody, EventKinds, Locked
<1>16. ASSUME NEW j \in Jobs, Load(j) PROVE ValuesOK'
  BY <1>16, SnapshotAssumption DEF Load, To, Keep, dbVars, cacheVars,
     versionVars, writerVars, pollVars, ValuesOK, PcOK, HeldOK, InFlight,
     Actors, Jobs, Versions, None, Nobody, EventKinds, Locked
<1>17. ASSUME NEW j \in Jobs, Incr(j) PROVE ValuesOK'
  BY <1>17, SnapshotAssumption DEF Incr, To, dbVars, cacheVars, versionVars,
     writerVars, pollVars, ValuesOK, PcOK, HeldOK, InFlight, Actors, Jobs,
     Versions, None, Nobody, EventKinds, Locked
<1>18. ASSUME NEW j \in Jobs, Activate(j) PROVE ValuesOK'
  BY <1>18, SnapshotAssumption DEF Activate, To, Keep, WriteAccounts,
     CountFrom, Current, dbVars, cacheVars, versionVars, writerVars, pollVars,
     ValuesOK, PcOK, HeldOK, InFlight, Actors, Jobs, Versions, None, Nobody,
     EventKinds, Locked
<1>19. ASSUME NEW j \in Jobs, UnlockBucket(j) PROVE ValuesOK'
  BY <1>19, SnapshotAssumption DEF UnlockBucket, To, Return, dbVars, cacheVars,
     versionVars, writerVars, pollVars, ValuesOK, PcOK, HeldOK, InFlight,
     Actors, Jobs, Versions, None, Nobody, EventKinds, Locked
<1>20. ASSUME NEW j \in Jobs, JobFails(j) PROVE ValuesOK'
  BY <1>20, SnapshotAssumption DEF JobFails, To, Keep, ForgetBatch,
     WriteAccounts, dbVars, cacheVars, versionVars, writerVars, pollVars,
     ValuesOK, PcOK, HeldOK, InFlight, Actors, Jobs, Versions, None, Nobody,
     EventKinds, Locked
<1>21. ASSUME NEW p \in Pollers, Poll(p) PROVE ValuesOK'
  BY <1>21, SnapshotAssumption DEF Poll, To, dbVars, cacheVars, versionVars,
     writerVars, pollVars, ValuesOK, PcOK, HeldOK, InFlight, Actors, Jobs,
     Versions, None, Nobody, EventKinds, Locked
<1>22. ASSUME NEW p \in Pollers, Handle(p) PROVE ValuesOK'
  BY <1>22, SnapshotAssumption DEF Handle, To, Return, dbVars, cacheVars,
     versionVars, writerVars, pollVars, ValuesOK, PcOK, HeldOK, InFlight,
     Actors, Jobs, Versions, None, Nobody, EventKinds, Locked
<1>23. ASSUME NEW p \in Pollers, ReadAccount(p) PROVE ValuesOK'
  BY <1>23, SnapshotAssumption DEF ReadAccount, To, Keep, dbVars, cacheVars,
     versionVars, writerVars, pollVars, ValuesOK, PcOK, HeldOK, InFlight,
     Actors, Jobs, Versions, None, Nobody, EventKinds, Locked
<1>24. ASSUME NEW p \in Pollers, SetAccount(p) PROVE ValuesOK'
  BY <1>24, SnapshotAssumption DEF SetAccount, To, Keep, Return, SetEntry,
     dbVars, cacheVars, versionVars, writerVars, pollVars, ValuesOK, PcOK,
     HeldOK, InFlight, Actors, Jobs, Versions, None, Nobody, EventKinds, Locked
<1>25. ASSUME NEW p \in Pollers, SetOutboxWatermark(p) PROVE ValuesOK'
  BY <1>25, SnapshotAssumption DEF SetOutboxWatermark, To, ForgetBatch, dbVars,
     cacheVars, versionVars, writerVars, pollVars, ValuesOK, PcOK, HeldOK,
     InFlight, Actors, Jobs, Versions, None, Nobody, EventKinds, Locked
<1>26. ASSUME NEW j \in Rebuilders, StartRebuild(j) PROVE ValuesOK'
  BY <1>26, SnapshotAssumption DEF StartRebuild, To, dbVars, cacheVars,
     versionVars, writerVars, pollVars, ValuesOK, PcOK, HeldOK, InFlight,
     Actors, Jobs, Versions, None, Nobody, EventKinds, Locked
<1>27. ASSUME NEW j \in Readers, Fallback(j) PROVE ValuesOK'
  BY <1>27, SnapshotAssumption DEF Fallback, To, dbVars, cacheVars,
     versionVars, writerVars, pollVars, ValuesOK, PcOK, HeldOK, InFlight,
     Actors, Jobs, Versions, None, Nobody, EventKinds, Locked
<1>28. ASSUME Unannounced PROVE ValuesOK'
  BY <1>28, SnapshotAssumption DEF Unannounced, dbVars, cacheVars, versionVars,
     writerVars, pollVars, ValuesOK, PcOK, HeldOK, InFlight, Actors, Jobs,
     Versions, None, Nobody, EventKinds, Locked
<1>29. ASSUME LockExpires PROVE ValuesOK'
  BY <1>29, SnapshotAssumption DEF LockExpires, dbVars, cacheVars, versionVars,
     writerVars, pollVars, ValuesOK, PcOK, HeldOK, InFlight, Actors, Jobs,
     Versions, None, Nobody, EventKinds, Locked
<1>30. ASSUME LockLapses PROVE ValuesOK'
  BY <1>30, SnapshotAssumption DEF LockLapses, dbVars, cacheVars, versionVars,
     writerVars, pollVars, ValuesOK, PcOK, HeldOK, InFlight, Actors, Jobs,
     Versions, None, Nobody, EventKinds, Locked
<1>31. ASSUME UNCHANGED vars PROVE ValuesOK'
  BY <1>31, SnapshotAssumption DEF vars, dbVars, cacheVars, versionVars,
     writerVars, pollVars, ValuesOK, PcOK, HeldOK, InFlight, Actors, Jobs,
     Versions, None, Nobody, EventKinds, Locked
<1> QED
  BY <1>1, <1>2, <1>3, <1>4, <1>5, <1>6, <1>7, <1>8, <1>9, <1>10, <1>11, <1>12,
     <1>13, <1>14, <1>15, <1>16, <1>17, <1>18, <1>19, <1>20, <1>21, <1>22,
     <1>23, <1>24, <1>25, <1>26, <1>27, <1>28, <1>29, <1>30, <1>31 DEF Next,
     WriterStep, TxStep, JobStep, PollStep

(* Every step takes an actor to a place of its kind.                       *)
LEMMA PcStep == PcOK /\ [Next]_vars => PcOK'
<1> SUFFICES ASSUME PcOK, [Next]_vars PROVE PcOK'
  OBVIOUS
<1>1. ASSUME NEW w \in Writers, NEW k \in Kinds, Change(w, k) PROVE PcOK'
  BY <1>1, SnapshotAssumption DEF Change, To, dbVars, cacheVars, versionVars,
     writerVars, pollVars, PcOK, Actors, Jobs, Locked
<1>2. ASSUME NEW w \in Writers, Delete(w) PROVE PcOK'
  BY <1>2, SnapshotAssumption DEF Delete, To, dbVars, cacheVars, versionVars,
     writerVars, pollVars, PcOK, Actors, Jobs, Locked
<1>3. ASSUME NEW w \in Writers, DeleteEntry(w) PROVE PcOK'
  BY <1>3, SnapshotAssumption DEF DeleteEntry, To, dbVars, cacheVars,
     versionVars, writerVars, pollVars, PcOK, Actors, Jobs, Locked
<1>4. ASSUME NEW w \in Writers, Enqueue(w) PROVE PcOK'
  BY <1>4, SnapshotAssumption DEF Enqueue, AfterEnqueue, To, dbVars, cacheVars,
     versionVars, writerVars, pollVars, PcOK, Actors, Jobs, Locked
<1>5. ASSUME NEW w \in Writers, EnqueueDeduped(w) PROVE PcOK'
  BY <1>5, SnapshotAssumption DEF EnqueueDeduped, AfterEnqueue, To, dbVars,
     cacheVars, versionVars, writerVars, pollVars, PcOK, Actors, Jobs, Locked
<1>6. ASSUME NEW w \in Writers, EnqueueFails(w) PROVE PcOK'
  BY <1>6, SnapshotAssumption DEF EnqueueFails, AfterEnqueue, To, dbVars,
     cacheVars, versionVars, writerVars, pollVars, PcOK, Actors, Jobs, Locked
<1>7. ASSUME NEW w \in Writers, SyncRead(w) PROVE PcOK'
  BY <1>7, SnapshotAssumption DEF SyncRead, To, Keep, dbVars, cacheVars,
     versionVars, writerVars, pollVars, PcOK, Actors, Jobs, Locked
<1>8. ASSUME NEW w \in Writers, SyncWrite(w) PROVE PcOK'
  BY <1>8, SnapshotAssumption DEF SyncWrite, To, Keep, dbVars, cacheVars,
     versionVars, writerVars, pollVars, PcOK, Actors, Jobs, Locked
<1>9. ASSUME NEW w \in Writers, SyncFails(w) PROVE PcOK'
  BY <1>9, SnapshotAssumption DEF SyncFails, To, Keep, dbVars, cacheVars,
     versionVars, writerVars, pollVars, PcOK, Actors, Jobs, Locked
<1>10. ASSUME NEW w \in Billers, TxInsert(w) PROVE PcOK'
  BY <1>10, SnapshotAssumption DEF TxInsert, To, dbVars, cacheVars,
     versionVars, writerVars, pollVars, PcOK, Actors, Jobs, Locked
<1>11. ASSUME NEW w \in Billers, TxDeduped(w) PROVE PcOK'
  BY <1>11, SnapshotAssumption DEF TxDeduped, To, dbVars, cacheVars,
     versionVars, writerVars, pollVars, PcOK, Actors, Jobs, Locked
<1>12. ASSUME NEW w \in Billers, TxCommit(w) PROVE PcOK'
  BY <1>12, SnapshotAssumption DEF TxCommit, To, TxEnds, dbVars, cacheVars,
     versionVars, writerVars, pollVars, PcOK, Actors, Jobs, Locked
<1>13. ASSUME NEW w \in Billers, TxRollback(w) PROVE PcOK'
  BY <1>13, SnapshotAssumption DEF TxRollback, To, TxEnds, dbVars, cacheVars,
     versionVars, writerVars, pollVars, PcOK, Actors, Jobs, Locked
<1>14. ASSUME NEW j \in Jobs, TryLockBucket(j) PROVE PcOK'
  BY <1>14, SnapshotAssumption DEF TryLockBucket, To, MarkSeen, dbVars,
     cacheVars, versionVars, writerVars, pollVars, PcOK, Actors, Jobs, Locked
<1>15. ASSUME NEW j \in Jobs, LockTaken(j) PROVE PcOK'
  BY <1>15, SnapshotAssumption DEF LockTaken, To, MarkSeen, Return, dbVars,
     cacheVars, versionVars, writerVars, pollVars, PcOK, Actors, Jobs, Locked
<1>16. ASSUME NEW j \in Jobs, Load(j) PROVE PcOK'
  BY <1>16, SnapshotAssumption DEF Load, To, Keep, dbVars, cacheVars,
     versionVars, writerVars, pollVars, PcOK, Actors, Jobs, Locked
<1>17. ASSUME NEW j \in Jobs, Incr(j) PROVE PcOK'
  BY <1>17, SnapshotAssumption DEF Incr, To, dbVars, cacheVars, versionVars,
     writerVars, pollVars, PcOK, Actors, Jobs, Locked
<1>18. ASSUME NEW j \in Jobs, Activate(j) PROVE PcOK'
  BY <1>18, SnapshotAssumption DEF Activate, To, Keep, WriteAccounts,
     CountFrom, Current, dbVars, cacheVars, versionVars, writerVars, pollVars,
     PcOK, Actors, Jobs, Locked
<1>19. ASSUME NEW j \in Jobs, UnlockBucket(j) PROVE PcOK'
  BY <1>19, SnapshotAssumption DEF UnlockBucket, To, Return, dbVars, cacheVars,
     versionVars, writerVars, pollVars, PcOK, Actors, Jobs, Locked
<1>20. ASSUME NEW j \in Jobs, JobFails(j) PROVE PcOK'
  BY <1>20, SnapshotAssumption DEF JobFails, To, Keep, ForgetBatch,
     WriteAccounts, dbVars, cacheVars, versionVars, writerVars, pollVars, PcOK,
     Actors, Jobs, Locked
<1>21. ASSUME NEW p \in Pollers, Poll(p) PROVE PcOK'
  BY <1>21, SnapshotAssumption DEF Poll, To, dbVars, cacheVars, versionVars,
     writerVars, pollVars, PcOK, Actors, Jobs, Locked
<1>22. ASSUME NEW p \in Pollers, Handle(p) PROVE PcOK'
  BY <1>22, SnapshotAssumption DEF Handle, To, Return, dbVars, cacheVars,
     versionVars, writerVars, pollVars, PcOK, Actors, Jobs, Locked
<1>23. ASSUME NEW p \in Pollers, ReadAccount(p) PROVE PcOK'
  BY <1>23, SnapshotAssumption DEF ReadAccount, To, Keep, dbVars, cacheVars,
     versionVars, writerVars, pollVars, PcOK, Actors, Jobs, Locked
<1>24. ASSUME NEW p \in Pollers, SetAccount(p) PROVE PcOK'
  BY <1>24, SnapshotAssumption DEF SetAccount, To, Keep, Return, SetEntry,
     dbVars, cacheVars, versionVars, writerVars, pollVars, PcOK, Actors, Jobs,
     Locked
<1>25. ASSUME NEW p \in Pollers, SetOutboxWatermark(p) PROVE PcOK'
  BY <1>25, SnapshotAssumption DEF SetOutboxWatermark, To, ForgetBatch, dbVars,
     cacheVars, versionVars, writerVars, pollVars, PcOK, Actors, Jobs, Locked
<1>26. ASSUME NEW j \in Rebuilders, StartRebuild(j) PROVE PcOK'
  BY <1>26, SnapshotAssumption DEF StartRebuild, To, dbVars, cacheVars,
     versionVars, writerVars, pollVars, PcOK, Actors, Jobs, Locked
<1>27. ASSUME NEW j \in Readers, Fallback(j) PROVE PcOK'
  BY <1>27, SnapshotAssumption DEF Fallback, To, dbVars, cacheVars,
     versionVars, writerVars, pollVars, PcOK, Actors, Jobs, Locked
<1>28. ASSUME Unannounced PROVE PcOK'
  BY <1>28, SnapshotAssumption DEF Unannounced, dbVars, cacheVars, versionVars,
     writerVars, pollVars, PcOK, Actors, Jobs, Locked
<1>29. ASSUME LockExpires PROVE PcOK'
  BY <1>29, SnapshotAssumption DEF LockExpires, dbVars, cacheVars, versionVars,
     writerVars, pollVars, PcOK, Actors, Jobs, Locked
<1>30. ASSUME LockLapses PROVE PcOK'
  BY <1>30, SnapshotAssumption DEF LockLapses, dbVars, cacheVars, versionVars,
     writerVars, pollVars, PcOK, Actors, Jobs, Locked
<1>31. ASSUME UNCHANGED vars PROVE PcOK'
  BY <1>31, SnapshotAssumption DEF vars, dbVars, cacheVars, versionVars,
     writerVars, pollVars, PcOK, Actors, Jobs, Locked
<1> QED
  BY <1>1, <1>2, <1>3, <1>4, <1>5, <1>6, <1>7, <1>8, <1>9, <1>10, <1>11, <1>12,
     <1>13, <1>14, <1>15, <1>16, <1>17, <1>18, <1>19, <1>20, <1>21, <1>22,
     <1>23, <1>24, <1>25, <1>26, <1>27, <1>28, <1>29, <1>30, <1>31 DEF Next,
     WriterStep, TxStep, JobStep, PollStep

(* A copy is taken where it is read and given up where it is stored.       *)
LEMMA HeldStep == ValuesOK /\ PcOK /\ HeldOK /\ [Next]_vars => HeldOK'
<1> SUFFICES ASSUME ValuesOK, PcOK, HeldOK, [Next]_vars PROVE HeldOK'
  OBVIOUS
<1>1. ASSUME NEW w \in Writers, NEW k \in Kinds, Change(w, k) PROVE HeldOK'
  BY <1>1, SnapshotAssumption DEF Change, To, dbVars, cacheVars, versionVars,
     writerVars, pollVars, ValuesOK, PcOK, HeldOK, InFlight, Actors, Jobs,
     Versions, None, Locked
<1>2. ASSUME NEW w \in Writers, Delete(w) PROVE HeldOK'
  BY <1>2, SnapshotAssumption DEF Delete, To, dbVars, cacheVars, versionVars,
     writerVars, pollVars, ValuesOK, PcOK, HeldOK, InFlight, Actors, Jobs,
     Versions, None, Locked
<1>3. ASSUME NEW w \in Writers, DeleteEntry(w) PROVE HeldOK'
  BY <1>3, SnapshotAssumption DEF DeleteEntry, To, dbVars, cacheVars,
     versionVars, writerVars, pollVars, ValuesOK, PcOK, HeldOK, InFlight,
     Actors, Jobs, Versions, None, Locked
<1>4. ASSUME NEW w \in Writers, Enqueue(w) PROVE HeldOK'
  BY <1>4, SnapshotAssumption DEF Enqueue, AfterEnqueue, To, dbVars, cacheVars,
     versionVars, writerVars, pollVars, ValuesOK, PcOK, HeldOK, InFlight,
     Actors, Jobs, Versions, None, Locked
<1>5. ASSUME NEW w \in Writers, EnqueueDeduped(w) PROVE HeldOK'
  BY <1>5, SnapshotAssumption DEF EnqueueDeduped, AfterEnqueue, To, dbVars,
     cacheVars, versionVars, writerVars, pollVars, ValuesOK, PcOK, HeldOK,
     InFlight, Actors, Jobs, Versions, None, Locked
<1>6. ASSUME NEW w \in Writers, EnqueueFails(w) PROVE HeldOK'
  BY <1>6, SnapshotAssumption DEF EnqueueFails, AfterEnqueue, To, dbVars,
     cacheVars, versionVars, writerVars, pollVars, ValuesOK, PcOK, HeldOK,
     InFlight, Actors, Jobs, Versions, None, Locked
<1>7. ASSUME NEW w \in Writers, SyncRead(w) PROVE HeldOK'
  BY <1>7, SnapshotAssumption DEF SyncRead, To, Keep, dbVars, cacheVars,
     versionVars, writerVars, pollVars, ValuesOK, PcOK, HeldOK, InFlight,
     Actors, Jobs, Versions, None, Locked
<1>8. ASSUME NEW w \in Writers, SyncWrite(w) PROVE HeldOK'
  BY <1>8, SnapshotAssumption DEF SyncWrite, To, Keep, dbVars, cacheVars,
     versionVars, writerVars, pollVars, ValuesOK, PcOK, HeldOK, InFlight,
     Actors, Jobs, Versions, None, Locked
<1>9. ASSUME NEW w \in Writers, SyncFails(w) PROVE HeldOK'
  BY <1>9, SnapshotAssumption DEF SyncFails, To, Keep, dbVars, cacheVars,
     versionVars, writerVars, pollVars, ValuesOK, PcOK, HeldOK, InFlight,
     Actors, Jobs, Versions, None, Locked
<1>10. ASSUME NEW w \in Billers, TxInsert(w) PROVE HeldOK'
  BY <1>10, SnapshotAssumption DEF TxInsert, To, dbVars, cacheVars,
     versionVars, writerVars, pollVars, ValuesOK, PcOK, HeldOK, InFlight,
     Actors, Jobs, Versions, None, Locked
<1>11. ASSUME NEW w \in Billers, TxDeduped(w) PROVE HeldOK'
  BY <1>11, SnapshotAssumption DEF TxDeduped, To, dbVars, cacheVars,
     versionVars, writerVars, pollVars, ValuesOK, PcOK, HeldOK, InFlight,
     Actors, Jobs, Versions, None, Locked
<1>12. ASSUME NEW w \in Billers, TxCommit(w) PROVE HeldOK'
  BY <1>12, SnapshotAssumption DEF TxCommit, To, TxEnds, dbVars, cacheVars,
     versionVars, writerVars, pollVars, ValuesOK, PcOK, HeldOK, InFlight,
     Actors, Jobs, Versions, None, Locked
<1>13. ASSUME NEW w \in Billers, TxRollback(w) PROVE HeldOK'
  BY <1>13, SnapshotAssumption DEF TxRollback, To, TxEnds, dbVars, cacheVars,
     versionVars, writerVars, pollVars, ValuesOK, PcOK, HeldOK, InFlight,
     Actors, Jobs, Versions, None, Locked
<1>14. ASSUME NEW j \in Jobs, TryLockBucket(j) PROVE HeldOK'
  BY <1>14, SnapshotAssumption DEF TryLockBucket, To, MarkSeen, dbVars,
     cacheVars, versionVars, writerVars, pollVars, ValuesOK, PcOK, HeldOK,
     InFlight, Actors, Jobs, Versions, None, Locked
<1>15. ASSUME NEW j \in Jobs, LockTaken(j) PROVE HeldOK'
  BY <1>15, SnapshotAssumption DEF LockTaken, To, MarkSeen, Return, dbVars,
     cacheVars, versionVars, writerVars, pollVars, ValuesOK, PcOK, HeldOK,
     InFlight, Actors, Jobs, Versions, None, Locked
<1>16. ASSUME NEW j \in Jobs, Load(j) PROVE HeldOK'
  BY <1>16, SnapshotAssumption DEF Load, To, Keep, dbVars, cacheVars,
     versionVars, writerVars, pollVars, ValuesOK, PcOK, HeldOK, InFlight,
     Actors, Jobs, Versions, None, Locked
<1>17. ASSUME NEW j \in Jobs, Incr(j) PROVE HeldOK'
  BY <1>17, SnapshotAssumption DEF Incr, To, dbVars, cacheVars, versionVars,
     writerVars, pollVars, ValuesOK, PcOK, HeldOK, InFlight, Actors, Jobs,
     Versions, None, Locked
<1>18. ASSUME NEW j \in Jobs, Activate(j) PROVE HeldOK'
  BY <1>18, SnapshotAssumption DEF Activate, To, Keep, WriteAccounts,
     CountFrom, Current, dbVars, cacheVars, versionVars, writerVars, pollVars,
     ValuesOK, PcOK, HeldOK, InFlight, Actors, Jobs, Versions, None, Locked
<1>19. ASSUME NEW j \in Jobs, UnlockBucket(j) PROVE HeldOK'
  BY <1>19, SnapshotAssumption DEF UnlockBucket, To, Return, dbVars, cacheVars,
     versionVars, writerVars, pollVars, ValuesOK, PcOK, HeldOK, InFlight,
     Actors, Jobs, Versions, None, Locked
<1>20. ASSUME NEW j \in Jobs, JobFails(j) PROVE HeldOK'
  BY <1>20, SnapshotAssumption DEF JobFails, To, Keep, ForgetBatch,
     WriteAccounts, dbVars, cacheVars, versionVars, writerVars, pollVars,
     ValuesOK, PcOK, HeldOK, InFlight, Actors, Jobs, Versions, None, Locked
<1>21. ASSUME NEW p \in Pollers, Poll(p) PROVE HeldOK'
  BY <1>21, SnapshotAssumption DEF Poll, To, dbVars, cacheVars, versionVars,
     writerVars, pollVars, ValuesOK, PcOK, HeldOK, InFlight, Actors, Jobs,
     Versions, None, Locked
<1>22. ASSUME NEW p \in Pollers, Handle(p) PROVE HeldOK'
  BY <1>22, SnapshotAssumption DEF Handle, To, Return, dbVars, cacheVars,
     versionVars, writerVars, pollVars, ValuesOK, PcOK, HeldOK, InFlight,
     Actors, Jobs, Versions, None, Locked
<1>23. ASSUME NEW p \in Pollers, ReadAccount(p) PROVE HeldOK'
  BY <1>23, SnapshotAssumption DEF ReadAccount, To, Keep, dbVars, cacheVars,
     versionVars, writerVars, pollVars, ValuesOK, PcOK, HeldOK, InFlight,
     Actors, Jobs, Versions, None, Locked
<1>24. ASSUME NEW p \in Pollers, SetAccount(p) PROVE HeldOK'
  BY <1>24, SnapshotAssumption DEF SetAccount, To, Keep, Return, SetEntry,
     dbVars, cacheVars, versionVars, writerVars, pollVars, ValuesOK, PcOK,
     HeldOK, InFlight, Actors, Jobs, Versions, None, Locked
<1>25. ASSUME NEW p \in Pollers, SetOutboxWatermark(p) PROVE HeldOK'
  BY <1>25, SnapshotAssumption DEF SetOutboxWatermark, To, ForgetBatch, dbVars,
     cacheVars, versionVars, writerVars, pollVars, ValuesOK, PcOK, HeldOK,
     InFlight, Actors, Jobs, Versions, None, Locked
<1>26. ASSUME NEW j \in Rebuilders, StartRebuild(j) PROVE HeldOK'
  BY <1>26, SnapshotAssumption DEF StartRebuild, To, dbVars, cacheVars,
     versionVars, writerVars, pollVars, ValuesOK, PcOK, HeldOK, InFlight,
     Actors, Jobs, Versions, None, Locked
<1>27. ASSUME NEW j \in Readers, Fallback(j) PROVE HeldOK'
  BY <1>27, SnapshotAssumption DEF Fallback, To, dbVars, cacheVars,
     versionVars, writerVars, pollVars, ValuesOK, PcOK, HeldOK, InFlight,
     Actors, Jobs, Versions, None, Locked
<1>28. ASSUME Unannounced PROVE HeldOK'
  BY <1>28, SnapshotAssumption DEF Unannounced, dbVars, cacheVars, versionVars,
     writerVars, pollVars, ValuesOK, PcOK, HeldOK, InFlight, Actors, Jobs,
     Versions, None, Locked
<1>29. ASSUME LockExpires PROVE HeldOK'
  BY <1>29, SnapshotAssumption DEF LockExpires, dbVars, cacheVars, versionVars,
     writerVars, pollVars, ValuesOK, PcOK, HeldOK, InFlight, Actors, Jobs,
     Versions, None, Locked
<1>30. ASSUME LockLapses PROVE HeldOK'
  BY <1>30, SnapshotAssumption DEF LockLapses, dbVars, cacheVars, versionVars,
     writerVars, pollVars, ValuesOK, PcOK, HeldOK, InFlight, Actors, Jobs,
     Versions, None, Locked
<1>31. ASSUME UNCHANGED vars PROVE HeldOK'
  BY <1>31, SnapshotAssumption DEF vars, dbVars, cacheVars, versionVars,
     writerVars, pollVars, ValuesOK, PcOK, HeldOK, InFlight, Actors, Jobs,
     Versions, None, Locked
<1> QED
  BY <1>1, <1>2, <1>3, <1>4, <1>5, <1>6, <1>7, <1>8, <1>9, <1>10, <1>11, <1>12,
     <1>13, <1>14, <1>15, <1>16, <1>17, <1>18, <1>19, <1>20, <1>21, <1>22,
     <1>23, <1>24, <1>25, <1>26, <1>27, <1>28, <1>29, <1>30, <1>31 DEF Next,
     WriterStep, TxStep, JobStep, PollStep

(* A row of the outbox keeps its kind, and its state once it is visible.   *)
Kept ==
    /\ outbox' \in Seq(Entry) /\ Len(outbox) <= Len(outbox')
    /\ \A i \in 1..Len(outbox) : outbox'[i].kind = outbox[i].kind
    /\ Visible \subseteq Visible'

(* An INSERT keeps the rows before it.                                     *)
LEMMA OutboxAppended ==
  ASSUME outbox \in Seq(Entry), NEW e \in Entry, outbox' = Append(outbox, e)
  PROVE  Kept /\ Len(outbox') = Len(outbox) + 1 /\ outbox'[Len(outbox) + 1] = e
<1>1. /\ outbox' \in Seq(Entry) /\ Len(outbox') = Len(outbox) + 1
      /\ \A i \in 1..Len(outbox) : outbox'[i] = outbox[i]
      /\ outbox'[Len(outbox) + 1] = e /\ Len(outbox) \in Nat
  BY AppendProperties, LenProperties
<1>2. DOMAIN outbox = 1..Len(outbox) /\ DOMAIN outbox' = 1..Len(outbox')
  BY <1>1, LenProperties
<1> QED
  BY <1>1, <1>2 DEF Kept, Visible

(* COMMIT or ROLLBACK of an open row touches no other row.                 *)
LEMMA OutboxEnds ==
  ASSUME outbox \in Seq(Entry), NEW n \in 1..Len(outbox), outbox[n].state = "open",
         NEW s \in {"committed", "aborted"},
         outbox' = [outbox EXCEPT ![n].state = s]
  PROVE  /\ Kept /\ Len(outbox') = Len(outbox) /\ outbox'[n].state = s
         /\ \A i \in 1..Len(outbox) : i # n => outbox'[i] = outbox[i]
<1> DEFINE e == [outbox[n] EXCEPT !.state = s]
<1>1. outbox[n] \in Entry
  BY ElementOfSeq
<1>2. e \in Entry /\ e.state = s /\ e.kind = outbox[n].kind
  BY <1>1 DEF Entry
<1>3. outbox' = [outbox EXCEPT ![n] = e]
  OBVIOUS
<1> HIDE DEF e
<1>4. /\ outbox' \in Seq(Entry) /\ Len(outbox') = Len(outbox)
      /\ \A i \in 1..Len(outbox) : outbox'[i] = IF i = n THEN e ELSE outbox[i]
  BY <1>2, <1>3, ExceptSeq
<1>5. DOMAIN outbox = 1..Len(outbox) /\ DOMAIN outbox' = 1..Len(outbox')
  BY <1>4, LenProperties
<1> QED
  BY <1>2, <1>4, <1>5, LenProperties DEF Kept, Visible

(* Most steps leave the outbox alone.                                      *)
LEMMA OutboxStays ==
  ASSUME outbox \in Seq(Entry), outbox' = outbox
  PROVE  Kept
  BY LenProperties DEF Kept, Visible

(* Every step keeps what the outbox says.                                  *)
LEMMA KeptStep == ValuesOK /\ OutboxOK /\ [Next]_vars => Kept
<1> SUFFICES ASSUME ValuesOK, OutboxOK, [Next]_vars PROVE Kept
  OBVIOUS
<1>1. ASSUME NEW w \in Writers, NEW k \in Kinds, Change(w, k) PROVE Kept
  BY <1>1, OutboxStays DEF Change, dbVars, OutboxOK
<1>2. ASSUME NEW w \in Writers, Delete(w) PROVE Kept
  BY <1>2, OutboxStays DEF Delete, dbVars, OutboxOK
<1>3. ASSUME NEW w \in Writers, DeleteEntry(w) PROVE Kept
  BY <1>3, OutboxStays DEF DeleteEntry, dbVars, OutboxOK
<1>4. ASSUME NEW w \in Writers, Enqueue(w) PROVE Kept
  <2>1. [kind |-> kind[w], state |-> "committed"] \in Entry
    BY DEF Entry, ValuesOK, EventKinds
  <2> QED
    BY <1>4, <2>1, OutboxAppended DEF Enqueue, OutboxOK
<1>5. ASSUME NEW w \in Writers, EnqueueDeduped(w) PROVE Kept
  BY <1>5, OutboxStays DEF EnqueueDeduped, dbVars, OutboxOK
<1>6. ASSUME NEW w \in Writers, EnqueueFails(w) PROVE Kept
  BY <1>6, OutboxStays DEF EnqueueFails, dbVars, OutboxOK
<1>7. ASSUME NEW w \in Writers, SyncRead(w) PROVE Kept
  BY <1>7, OutboxStays DEF SyncRead, dbVars, OutboxOK
<1>8. ASSUME NEW w \in Writers, SyncWrite(w) PROVE Kept
  BY <1>8, OutboxStays DEF SyncWrite, dbVars, OutboxOK
<1>9. ASSUME NEW w \in Writers, SyncFails(w) PROVE Kept
  BY <1>9, OutboxStays DEF SyncFails, dbVars, OutboxOK
<1>10. ASSUME NEW w \in Billers, TxInsert(w) PROVE Kept
  <2>1. [kind |-> "account", state |-> "open"] \in Entry
    BY DEF Entry, ValuesOK, EventKinds
  <2> QED
    BY <1>10, <2>1, OutboxAppended DEF TxInsert, OutboxOK
<1>11. ASSUME NEW w \in Billers, TxDeduped(w) PROVE Kept
  BY <1>11, OutboxStays DEF TxDeduped, dbVars, OutboxOK
<1>12. ASSUME NEW w \in Billers, TxCommit(w) PROVE Kept
  <2>1. CASE id[w] = 0
    BY <1>12, <2>1, OutboxStays DEF TxCommit, TxEnds, OutboxOK
  <2>2. CASE id[w] # 0
    BY <1>12, <2>2, OutboxEnds DEF TxCommit, TxEnds, OutboxOK
  <2> QED
    BY <2>1, <2>2
<1>13. ASSUME NEW w \in Billers, TxRollback(w) PROVE Kept
  <2>1. CASE id[w] = 0
    BY <1>13, <2>1, OutboxStays DEF TxRollback, TxEnds, OutboxOK
  <2>2. CASE id[w] # 0
    BY <1>13, <2>2, OutboxEnds DEF TxRollback, TxEnds, OutboxOK
  <2> QED
    BY <2>1, <2>2
<1>14. ASSUME NEW j \in Jobs, TryLockBucket(j) PROVE Kept
  BY <1>14, OutboxStays DEF TryLockBucket, dbVars, OutboxOK
<1>15. ASSUME NEW j \in Jobs, LockTaken(j) PROVE Kept
  BY <1>15, OutboxStays DEF LockTaken, dbVars, OutboxOK
<1>16. ASSUME NEW j \in Jobs, Load(j) PROVE Kept
  BY <1>16, OutboxStays DEF Load, dbVars, OutboxOK
<1>17. ASSUME NEW j \in Jobs, Incr(j) PROVE Kept
  BY <1>17, OutboxStays DEF Incr, dbVars, OutboxOK
<1>18. ASSUME NEW j \in Jobs, Activate(j) PROVE Kept
  BY <1>18, OutboxStays DEF Activate, dbVars, OutboxOK
<1>19. ASSUME NEW j \in Jobs, UnlockBucket(j) PROVE Kept
  BY <1>19, OutboxStays DEF UnlockBucket, dbVars, OutboxOK
<1>20. ASSUME NEW j \in Jobs, JobFails(j) PROVE Kept
  BY <1>20, OutboxStays DEF JobFails, dbVars, OutboxOK
<1>21. ASSUME NEW p \in Pollers, Poll(p) PROVE Kept
  BY <1>21, OutboxStays DEF Poll, dbVars, OutboxOK
<1>22. ASSUME NEW p \in Pollers, Handle(p) PROVE Kept
  BY <1>22, OutboxStays DEF Handle, dbVars, OutboxOK
<1>23. ASSUME NEW p \in Pollers, ReadAccount(p) PROVE Kept
  BY <1>23, OutboxStays DEF ReadAccount, dbVars, OutboxOK
<1>24. ASSUME NEW p \in Pollers, SetAccount(p) PROVE Kept
  BY <1>24, OutboxStays DEF SetAccount, dbVars, OutboxOK
<1>25. ASSUME NEW p \in Pollers, SetOutboxWatermark(p) PROVE Kept
  BY <1>25, OutboxStays DEF SetOutboxWatermark, dbVars, OutboxOK
<1>26. ASSUME NEW j \in Rebuilders, StartRebuild(j) PROVE Kept
  BY <1>26, OutboxStays DEF StartRebuild, dbVars, OutboxOK
<1>27. ASSUME NEW j \in Readers, Fallback(j) PROVE Kept
  BY <1>27, OutboxStays DEF Fallback, dbVars, OutboxOK
<1>28. ASSUME Unannounced PROVE Kept
  BY <1>28, OutboxStays DEF Unannounced, dbVars, OutboxOK
<1>29. ASSUME LockExpires PROVE Kept
  BY <1>29, OutboxStays DEF LockExpires, dbVars, OutboxOK
<1>30. ASSUME LockLapses PROVE Kept
  BY <1>30, OutboxStays DEF LockLapses, dbVars, OutboxOK
<1>31. ASSUME UNCHANGED vars PROVE Kept
  BY <1>31, OutboxStays DEF vars, dbVars, OutboxOK
<1> QED
  BY <1>1, <1>2, <1>3, <1>4, <1>5, <1>6, <1>7, <1>8, <1>9, <1>10, <1>11, <1>12,
     <1>13, <1>14, <1>15, <1>16, <1>17, <1>18, <1>19, <1>20, <1>21, <1>22,
     <1>23, <1>24, <1>25, <1>26, <1>27, <1>28, <1>29, <1>30, <1>31 DEF Next,
     WriterStep, TxStep, JobStep, PollStep

(* Rows that are not visible belong to the one open transaction.           *)
LEMMA OutboxStep ==
    ValuesOK /\ PcOK /\ OutboxOK /\ PollOK /\ [Next]_vars => OutboxOK'
<1> SUFFICES ASSUME ValuesOK, PcOK, OutboxOK, PollOK, [Next]_vars PROVE OutboxOK'
  OBVIOUS
<1>1. ASSUME NEW w \in Writers, NEW k \in Kinds, Change(w, k)
      PROVE  OutboxOK'
  BY <1>1, SnapshotAssumption DEF Change, To, dbVars, cacheVars, versionVars,
     writerVars, pollVars, OutboxOK, PcOK, Actors, Jobs
<1>2. ASSUME NEW w \in Writers, Delete(w) PROVE OutboxOK'
  BY <1>2, SnapshotAssumption DEF Delete, To, dbVars, cacheVars, versionVars,
     writerVars, pollVars, OutboxOK, PcOK, Actors, Jobs
<1>3. ASSUME NEW w \in Writers, DeleteEntry(w) PROVE OutboxOK'
  BY <1>3, SnapshotAssumption DEF DeleteEntry, To, dbVars, cacheVars,
     versionVars, writerVars, pollVars, OutboxOK, PcOK, Actors, Jobs
<1>4. ASSUME NEW w \in Writers, Enqueue(w) PROVE OutboxOK'
  <2>1. [kind |-> kind[w], state |-> "committed"] \in Entry
    BY DEF Entry, ValuesOK, EventKinds
  <2>2. Kept /\ Len(outbox') = Len(outbox) + 1
    BY <1>4, <2>1, OutboxAppended DEF Enqueue, OutboxOK
  <2>3. \A i \in 1..Len(outbox) : outbox'[i] = outbox[i]
    BY <1>4, <2>1, AppendProperties DEF Enqueue, OutboxOK
  <2>4. Len(outbox) \in Nat
    BY LenProperties DEF OutboxOK
  <2>5. \A v \in Billers : pc'[v] = pc[v]
    BY <1>4, SnapshotAssumption DEF Enqueue, AfterEnqueue, To, PcOK, Actors
  <2> QED
    BY <1>4, <2>2, <2>3, <2>4, <2>5 DEF Enqueue, OutboxOK, Kept
<1>5. ASSUME NEW w \in Writers, EnqueueDeduped(w) PROVE OutboxOK'
  BY <1>5, SnapshotAssumption DEF EnqueueDeduped, AfterEnqueue, To, dbVars,
     cacheVars, versionVars, writerVars, pollVars, OutboxOK, PcOK, Actors, Jobs
<1>6. ASSUME NEW w \in Writers, EnqueueFails(w) PROVE OutboxOK'
  BY <1>6, SnapshotAssumption DEF EnqueueFails, AfterEnqueue, To, dbVars,
     cacheVars, versionVars, writerVars, pollVars, OutboxOK, PcOK, Actors, Jobs
<1>7. ASSUME NEW w \in Writers, SyncRead(w) PROVE OutboxOK'
  BY <1>7, SnapshotAssumption DEF SyncRead, To, Keep, dbVars, cacheVars,
     versionVars, writerVars, pollVars, OutboxOK, PcOK, Actors, Jobs
<1>8. ASSUME NEW w \in Writers, SyncWrite(w) PROVE OutboxOK'
  BY <1>8, SnapshotAssumption DEF SyncWrite, To, Keep, dbVars, cacheVars,
     versionVars, writerVars, pollVars, OutboxOK, PcOK, Actors, Jobs
<1>9. ASSUME NEW w \in Writers, SyncFails(w) PROVE OutboxOK'
  BY <1>9, SnapshotAssumption DEF SyncFails, To, Keep, dbVars, cacheVars,
     versionVars, writerVars, pollVars, OutboxOK, PcOK, Actors, Jobs
<1>10. ASSUME NEW w \in Billers, TxInsert(w) PROVE OutboxOK'
  <2>1. [kind |-> "account", state |-> "open"] \in Entry
    BY DEF Entry, EventKinds
  <2>2. /\ Kept /\ Len(outbox') = Len(outbox) + 1
        /\ outbox'[Len(outbox) + 1].state = "open"
        /\ outbox'[Len(outbox) + 1].kind = "account"
    BY <1>10, <2>1, OutboxAppended DEF TxInsert, OutboxOK
  <2>3. \A i \in 1..Len(outbox) : outbox'[i] = outbox[i]
    BY <1>10, <2>1, AppendProperties DEF TxInsert, OutboxOK
  <2>4. Len(outbox) \in Nat
    BY LenProperties DEF OutboxOK
  <2>5. \A v \in Billers : pc'[v] = IF v = w THEN "tx" ELSE pc[v]
    BY <1>10, SnapshotAssumption DEF TxInsert, To, PcOK, Actors
  <2>6. \A v \in Billers : id'[v] = IF v = w THEN Len(outbox) + 1 ELSE id[v]
    BY <1>10 DEF TxInsert, OutboxOK
  <2>7. id' \in [Billers -> Nat]
    BY <1>10, <2>4 DEF TxInsert, OutboxOK
  <2>8. watermark' = watermark /\ \A v \in Billers : pc[v] # "tx"
    BY <1>10 DEF TxInsert
  <2>9. \A v \in Billers : id'[v] # 0 => v = w
    BY <2>6, <2>8 DEF OutboxOK
  <2>10. ASSUME NEW v \in Billers, id'[v] # 0
         PROVE  /\ pc'[v] = "tx" /\ id'[v] \in 1..Len(outbox')
                /\ outbox'[id'[v]].state = "open" /\ outbox'[id'[v]].kind = "account"
    <3>1. v = w
      BY <2>9, <2>10
    <3>2. pc'[v] = "tx" /\ id'[v] = Len(outbox) + 1
      BY <2>5, <2>6, <3>1
    <3> QED
      BY <2>2, <2>4, <3>2
  <2>11. watermark' \in 0..Len(outbox')
    BY <2>2, <2>4, <2>8 DEF OutboxOK
  <2> QED
    BY <2>2, <2>5, <2>7, <2>8, <2>10, <2>11 DEF OutboxOK, Kept
<1>11. ASSUME NEW w \in Billers, TxDeduped(w) PROVE OutboxOK'
  BY <1>11, SnapshotAssumption DEF TxDeduped, To, dbVars, cacheVars,
     versionVars, writerVars, pollVars, OutboxOK, PcOK, Actors, Jobs
<1>12. ASSUME NEW w \in Billers, TxCommit(w) PROVE OutboxOK'
  <2>1. /\ outbox' \in Seq(Entry) /\ Len(outbox') = Len(outbox)
        /\ \A i \in 1..Len(outbox) : i # id[w] => outbox'[i] = outbox[i]
    <3>1. CASE id[w] = 0
      BY <1>12, <3>1 DEF TxCommit, TxEnds, OutboxOK
    <3>2. CASE id[w] # 0
      BY <1>12, <3>2, OutboxEnds DEF TxCommit, TxEnds, OutboxOK, Kept
    <3> QED
      BY <3>1, <3>2
  <2>2. \A v \in Billers : pc'[v] = IF v = w THEN "idle" ELSE pc[v]
    BY <1>12, SnapshotAssumption DEF TxCommit, TxEnds, To, PcOK, Actors
  <2>3. /\ id' \in [Billers -> Nat]
        /\ \A v \in Billers : id'[v] = IF v = w THEN 0 ELSE id[v]
    BY <1>12 DEF TxCommit, TxEnds, OutboxOK
  <2>4. watermark' = watermark /\ pc[w] = "tx"
    BY <1>12 DEF TxCommit
  <2> QED
    BY <2>1, <2>2, <2>3, <2>4 DEF OutboxOK
<1>13. ASSUME NEW w \in Billers, TxRollback(w) PROVE OutboxOK'
  <2>1. /\ outbox' \in Seq(Entry) /\ Len(outbox') = Len(outbox)
        /\ \A i \in 1..Len(outbox) : i # id[w] => outbox'[i] = outbox[i]
    <3>1. CASE id[w] = 0
      BY <1>13, <3>1 DEF TxRollback, TxEnds, OutboxOK
    <3>2. CASE id[w] # 0
      BY <1>13, <3>2, OutboxEnds DEF TxRollback, TxEnds, OutboxOK, Kept
    <3> QED
      BY <3>1, <3>2
  <2>2. \A v \in Billers : pc'[v] = IF v = w THEN "idle" ELSE pc[v]
    BY <1>13, SnapshotAssumption DEF TxRollback, TxEnds, To, PcOK, Actors
  <2>3. /\ id' \in [Billers -> Nat]
        /\ \A v \in Billers : id'[v] = IF v = w THEN 0 ELSE id[v]
    BY <1>13 DEF TxRollback, TxEnds, OutboxOK
  <2>4. watermark' = watermark /\ pc[w] = "tx"
    BY <1>13 DEF TxRollback
  <2> QED
    BY <2>1, <2>2, <2>3, <2>4 DEF OutboxOK
<1>14. ASSUME NEW j \in Jobs, TryLockBucket(j) PROVE OutboxOK'
  BY <1>14, SnapshotAssumption DEF TryLockBucket, To, MarkSeen, dbVars,
     cacheVars, versionVars, writerVars, pollVars, OutboxOK, PcOK, Actors, Jobs
<1>15. ASSUME NEW j \in Jobs, LockTaken(j) PROVE OutboxOK'
  BY <1>15, SnapshotAssumption DEF LockTaken, To, MarkSeen, Return, dbVars,
     cacheVars, versionVars, writerVars, pollVars, OutboxOK, PcOK, Actors, Jobs
<1>16. ASSUME NEW j \in Jobs, Load(j) PROVE OutboxOK'
  BY <1>16, SnapshotAssumption DEF Load, To, Keep, dbVars, cacheVars,
     versionVars, writerVars, pollVars, OutboxOK, PcOK, Actors, Jobs
<1>17. ASSUME NEW j \in Jobs, Incr(j) PROVE OutboxOK'
  BY <1>17, SnapshotAssumption DEF Incr, To, dbVars, cacheVars, versionVars,
     writerVars, pollVars, OutboxOK, PcOK, Actors, Jobs
<1>18. ASSUME NEW j \in Jobs, Activate(j) PROVE OutboxOK'
  BY <1>18, SnapshotAssumption DEF Activate, To, Keep, WriteAccounts,
     CountFrom, Current, dbVars, cacheVars, versionVars, writerVars, pollVars,
     OutboxOK, PcOK, Actors, Jobs
<1>19. ASSUME NEW j \in Jobs, UnlockBucket(j) PROVE OutboxOK'
  BY <1>19, SnapshotAssumption DEF UnlockBucket, To, Return, dbVars, cacheVars,
     versionVars, writerVars, pollVars, OutboxOK, PcOK, Actors, Jobs
<1>20. ASSUME NEW j \in Jobs, JobFails(j) PROVE OutboxOK'
  BY <1>20, SnapshotAssumption DEF JobFails, To, Keep, ForgetBatch,
     WriteAccounts, dbVars, cacheVars, versionVars, writerVars, pollVars,
     OutboxOK, PcOK, Actors, Jobs
<1>21. ASSUME NEW p \in Pollers, Poll(p) PROVE OutboxOK'
  BY <1>21, SnapshotAssumption DEF Poll, To, dbVars, cacheVars, versionVars,
     writerVars, pollVars, OutboxOK, PcOK, Actors, Jobs
<1>22. ASSUME NEW p \in Pollers, Handle(p) PROVE OutboxOK'
  BY <1>22, SnapshotAssumption DEF Handle, To, Return, dbVars, cacheVars,
     versionVars, writerVars, pollVars, OutboxOK, PcOK, Actors, Jobs
<1>23. ASSUME NEW p \in Pollers, ReadAccount(p) PROVE OutboxOK'
  BY <1>23, SnapshotAssumption DEF ReadAccount, To, Keep, dbVars, cacheVars,
     versionVars, writerVars, pollVars, OutboxOK, PcOK, Actors, Jobs
<1>24. ASSUME NEW p \in Pollers, SetAccount(p) PROVE OutboxOK'
  BY <1>24, SnapshotAssumption DEF SetAccount, To, Keep, Return, SetEntry,
     dbVars, cacheVars, versionVars, writerVars, pollVars, OutboxOK, PcOK,
     Actors, Jobs
<1>25. ASSUME NEW p \in Pollers, SetOutboxWatermark(p) PROVE OutboxOK'
  <2>1. listed[p] \in 0..Len(outbox)
    BY LenProperties DEF PollOK, Visible, OutboxOK
  <2>2. \A v \in Billers : pc'[v] = pc[v]
    BY <1>25, SnapshotAssumption DEF SetOutboxWatermark, To, PcOK, Actors, Jobs
  <2> QED
    BY <1>25, <2>1, <2>2 DEF SetOutboxWatermark, OutboxOK, dbVars, writerVars
<1>26. ASSUME NEW j \in Rebuilders, StartRebuild(j) PROVE OutboxOK'
  BY <1>26, SnapshotAssumption DEF StartRebuild, To, dbVars, cacheVars,
     versionVars, writerVars, pollVars, OutboxOK, PcOK, Actors, Jobs
<1>27. ASSUME NEW j \in Readers, Fallback(j) PROVE OutboxOK'
  BY <1>27, SnapshotAssumption DEF Fallback, To, dbVars, cacheVars,
     versionVars, writerVars, pollVars, OutboxOK, PcOK, Actors, Jobs
<1>28. ASSUME Unannounced PROVE OutboxOK'
  BY <1>28, SnapshotAssumption DEF Unannounced, dbVars, cacheVars, versionVars,
     writerVars, pollVars, OutboxOK, PcOK, Actors, Jobs
<1>29. ASSUME LockExpires PROVE OutboxOK'
  BY <1>29, SnapshotAssumption DEF LockExpires, dbVars, cacheVars, versionVars,
     writerVars, pollVars, OutboxOK, PcOK, Actors, Jobs
<1>30. ASSUME LockLapses PROVE OutboxOK'
  BY <1>30, SnapshotAssumption DEF LockLapses, dbVars, cacheVars, versionVars,
     writerVars, pollVars, OutboxOK, PcOK, Actors, Jobs
<1>31. ASSUME UNCHANGED vars PROVE OutboxOK'
  BY <1>31, SnapshotAssumption DEF vars, dbVars, cacheVars, versionVars,
     writerVars, pollVars, OutboxOK, PcOK, Actors, Jobs
<1> QED
  BY <1>1, <1>2, <1>3, <1>4, <1>5, <1>6, <1>7, <1>8, <1>9, <1>10, <1>11, <1>12,
     <1>13, <1>14, <1>15, <1>16, <1>17, <1>18, <1>19, <1>20, <1>21, <1>22,
     <1>23, <1>24, <1>25, <1>26, <1>27, <1>28, <1>29, <1>30, <1>31 DEF Next,
     WriterStep, TxStep, JobStep, PollStep

(* The lowest of a set of numbers.                                         *)
LEMMA LowestIn ==
  ASSUME NEW S \in SUBSET Nat, S # {}
  PROVE  Min(S) \in S /\ \A y \in S : Min(S) <= y
<1>1. PICK x \in S : \A y \in S : ~(<<y, x>> \in OpToRel(<, Nat))
  BY NatLessThanWellFounded, WFMin
<1>2. \A y \in S : x <= y
  <2> TAKE y \in S
  <2>1. x \in Nat /\ y \in Nat
    OBVIOUS
  <2>2. ~(y < x)
    BY <1>1, <2>1, Zenon DEF OpToRel
  <2> QED
    BY <2>1, <2>2
<1> QED
  BY <1>2 DEF Min

(* The highest of a bounded one.                                           *)
LEMMA HighestIn ==
  ASSUME NEW n \in Nat, NEW S \in SUBSET (0..n), S # {}
  PROVE  Max(S) \in S /\ \A y \in S : y <= Max(S)
<1> DEFINE U == {x \in Nat : \A y \in S : y <= x}
<1>1. n \in U
  OBVIOUS
<1>2. Min(U) \in U /\ \A x \in U : Min(U) <= x
  BY <1>1, LowestIn
<1> DEFINE m == Min(U)
<1>3. m \in Nat /\ \A y \in S : y <= m
  BY <1>2
<1>4. m \in S
  <2> SUFFICES ASSUME m \notin S PROVE FALSE
    OBVIOUS
  <2>1. PICK y \in S : TRUE
    OBVIOUS
  <2>2. \A z \in S : z <= m - 1 /\ z \in Nat
    BY <1>3
  <2>3. m - 1 \in Nat
    BY <1>3, <2>1, <2>2
  <2>4. m - 1 \in U
    BY <2>2, <2>3
  <2>5. m <= m - 1
    BY <1>2, <2>4
  <2> HIDE DEF m
  <2> QED
    BY <1>3, <2>5
<1> HIDE DEF m, U
<1>5. \E x \in S : \A y \in S : x >= y
  BY <1>3, <1>4
<1> QED
  BY <1>5 DEF Max

(* ListAfter: the unread events up to the last one listed.                 *)
LEMMA BatchIs ==
  ASSUME OutboxOK, Unread # {}
  PROVE  /\ BatchOf \subseteq Unread /\ BatchOf # {}
         /\ Max(BatchOf) \in BatchOf
         /\ \A i \in Unread : i <= Max(BatchOf) => i \in BatchOf
<1>1. Unread \subseteq 1..Len(outbox) /\ Len(outbox) \in Nat
  BY LenProperties DEF Unread, Visible, OutboxOK
<1>2. IsFiniteSet(Unread)
  <2>1. IsFiniteSet(1..Len(outbox))
    BY <1>1, FS_Interval
  <2> QED
    BY <1>1, <2>1, FS_Subset
<1> DEFINE Below(i) == {k \in Unread : k < i}
<1>3. \A i \in Unread : IsFiniteSet(Below(i)) /\ Cardinality(Below(i)) \in Nat
  BY <1>2, FS_Subset, FS_CardinalityType
<1>4. BatchOf # {}
  <2>1. Unread \in SUBSET Nat
    BY <1>1
  <2>2. Min(Unread) \in Unread /\ \A y \in Unread : Min(Unread) <= y
    BY <2>1, LowestIn
  <2>3. Below(Min(Unread)) = {}
    <3> SUFFICES ASSUME NEW k \in Unread, k < Min(Unread) PROVE FALSE
      OBVIOUS
    <3>1. k \in Nat /\ Min(Unread) \in Nat /\ Min(Unread) <= k
      BY <2>1, <2>2
    <3> QED
      BY <3>1
  <2>4. Cardinality(Below(Min(Unread))) = 0
    BY <2>3, FS_EmptySet
  <2> QED
    BY <2>2, <2>4, SnapshotAssumption DEF BatchOf
<1>5. BatchOf \in SUBSET (0..Len(outbox)) /\ BatchOf \subseteq Unread
  <2>1. BatchOf \subseteq Unread
    BY DEF BatchOf
  <2>2. 1..Len(outbox) \subseteq 0..Len(outbox)
    BY <1>1
  <2> QED
    BY <1>1, <2>1, <2>2
<1>6. Max(BatchOf) \in BatchOf
  BY <1>1, <1>4, <1>5, HighestIn
<1>7. ASSUME NEW i \in Unread, i <= Max(BatchOf) PROVE i \in BatchOf
  <2> DEFINE m == Max(BatchOf)
  <2>1. m \in Unread /\ Cardinality(Below(m)) < BatchLimit
    BY <1>6 DEF BatchOf
  <2>2. Below(i) \in SUBSET Below(m)
    <3>1. i \in Nat /\ m \in Nat /\ Unread \in SUBSET Nat
      <4>1. Unread \in SUBSET Nat
        BY <1>1
      <4> HIDE DEF m
      <4> QED
        BY <2>1, <4>1
    <3>2. i <= m
      BY <1>7
    <3>3. ASSUME NEW k \in Unread, k < i PROVE k < m
      <4> HIDE DEF m
      <4> QED
        BY <3>1, <3>2, <3>3
    <3> QED
      BY <3>3
  <2>3. Cardinality(Below(i)) <= Cardinality(Below(m))
    BY <1>3, <2>1, <2>2, FS_Subset
  <2>4. Cardinality(Below(i)) < BatchLimit
    <3> HIDE DEF m, Below
    <3> QED
      BY <1>3, <2>1, <2>3, SnapshotAssumption
  <2> QED
    BY <2>4 DEF BatchOf
<1> QED
  BY <1>4, <1>5, <1>6, <1>7

(* A poller's next event stays what it is.                                 *)
LEMMA EventKept ==
  ASSUME OutboxOK, PollOK, Kept, NEW p \in Pollers, batch[p] # {}, batch'[p] = batch[p]
  PROVE  Event(p)' = Event(p)
<1>1. First(p) \in batch[p]
  BY LowestIn DEF First, PollOK
<1>2. First(p) \in 1..Len(outbox)
  BY <1>1, LenProperties DEF PollOK, Visible, OutboxOK
<1>3. First(p)' = First(p)
  BY DEF First
<1> QED
  BY <1>2, <1>3 DEF Event, Kept

(* A step that lists nothing keeps PollOK if it reads no other event.      *)
LEMMA PollKept ==
  ASSUME PollOK, Kept,
         \A p \in Pollers :
            batch[p] # {} /\ batch'[p] = batch[p] => Event(p)' = Event(p),
         batch' \in [Pollers -> SUBSET Nat], listed' \in [Pollers -> Nat],
         seen' \in [Pollers -> BOOLEAN],
         \A p \in Pollers :
            batch'[p] \subseteq batch[p] /\ listed'[p] \in {0, listed[p]},
         \A p \in Pollers : pc'[p] \in {"read", "set"} =>
            /\ batch[p] # {} /\ batch'[p] = batch[p]
            /\ Event(p) \in {"account", "groups", "used"}
  PROVE  PollOK'
<1>1. \A p \in Pollers :
         batch'[p] \subseteq Visible' /\ listed'[p] \in {0} \cup Visible'
  BY DEF PollOK, Kept
<1>2. \A p \in Pollers : pc'[p] \in {"read", "set"} =>
         batch'[p] # {} /\ Event(p)' \in {"account", "groups", "used"}
  OBVIOUS
<1> QED
  BY <1>1, <1>2 DEF PollOK

(* Pollers list, and keep in their batch, visible events only.             *)
LEMMA PollKeeps ==
    ValuesOK /\ PcOK /\ OutboxOK /\ PollOK /\ [Next]_vars => PollOK'
<1> SUFFICES ASSUME ValuesOK, PcOK, OutboxOK, PollOK, [Next]_vars PROVE PollOK'
  OBVIOUS
<1>k. Kept
  BY KeptStep
<1>e. \A p \in Pollers :
        batch[p] # {} /\ batch'[p] = batch[p] => Event(p)' = Event(p)
  BY <1>k, EventKept
<1>1. ASSUME NEW w \in Writers, NEW k \in Kinds, Change(w, k) PROVE PollOK'
  BY <1>1, <1>k, <1>e, SnapshotAssumption DEF Change, To, dbVars, cacheVars,
     versionVars, writerVars, pollVars, PollOK, PcOK, Actors, Jobs, Kept,
     InFlight, Locked
<1>2. ASSUME NEW w \in Writers, Delete(w) PROVE PollOK'
  BY <1>2, <1>k, <1>e, SnapshotAssumption DEF Delete, To, dbVars, cacheVars,
     versionVars, writerVars, pollVars, PollOK, PcOK, Actors, Jobs, Kept,
     InFlight, Locked
<1>3. ASSUME NEW w \in Writers, DeleteEntry(w) PROVE PollOK'
  BY <1>3, <1>k, <1>e, SnapshotAssumption DEF DeleteEntry, To, dbVars,
     cacheVars, versionVars, writerVars, pollVars, PollOK, PcOK, Actors, Jobs,
     Kept, InFlight, Locked
<1>4. ASSUME NEW w \in Writers, Enqueue(w) PROVE PollOK'
  BY <1>4, <1>k, <1>e, SnapshotAssumption DEF Enqueue, AfterEnqueue, To,
     dbVars, cacheVars, versionVars, writerVars, pollVars, PollOK, PcOK,
     Actors, Jobs, Kept, InFlight, Locked
<1>5. ASSUME NEW w \in Writers, EnqueueDeduped(w) PROVE PollOK'
  BY <1>5, <1>k, <1>e, SnapshotAssumption DEF EnqueueDeduped, AfterEnqueue, To,
     dbVars, cacheVars, versionVars, writerVars, pollVars, PollOK, PcOK,
     Actors, Jobs, Kept, InFlight, Locked
<1>6. ASSUME NEW w \in Writers, EnqueueFails(w) PROVE PollOK'
  BY <1>6, <1>k, <1>e, SnapshotAssumption DEF EnqueueFails, AfterEnqueue, To,
     dbVars, cacheVars, versionVars, writerVars, pollVars, PollOK, PcOK,
     Actors, Jobs, Kept, InFlight, Locked
<1>7. ASSUME NEW w \in Writers, SyncRead(w) PROVE PollOK'
  BY <1>7, <1>k, <1>e, SnapshotAssumption DEF SyncRead, To, Keep, dbVars,
     cacheVars, versionVars, writerVars, pollVars, PollOK, PcOK, Actors, Jobs,
     Kept, InFlight, Locked
<1>8. ASSUME NEW w \in Writers, SyncWrite(w) PROVE PollOK'
  BY <1>8, <1>k, <1>e, SnapshotAssumption DEF SyncWrite, To, Keep, dbVars,
     cacheVars, versionVars, writerVars, pollVars, PollOK, PcOK, Actors, Jobs,
     Kept, InFlight, Locked
<1>9. ASSUME NEW w \in Writers, SyncFails(w) PROVE PollOK'
  BY <1>9, <1>k, <1>e, SnapshotAssumption DEF SyncFails, To, Keep, dbVars,
     cacheVars, versionVars, writerVars, pollVars, PollOK, PcOK, Actors, Jobs,
     Kept, InFlight, Locked
<1>10. ASSUME NEW w \in Billers, TxInsert(w) PROVE PollOK'
  BY <1>10, <1>k, <1>e, SnapshotAssumption DEF TxInsert, To, dbVars, cacheVars,
     versionVars, writerVars, pollVars, PollOK, PcOK, Actors, Jobs, Kept,
     InFlight, Locked
<1>11. ASSUME NEW w \in Billers, TxDeduped(w) PROVE PollOK'
  BY <1>11, <1>k, <1>e, SnapshotAssumption DEF TxDeduped, To, dbVars,
     cacheVars, versionVars, writerVars, pollVars, PollOK, PcOK, Actors, Jobs,
     Kept, InFlight, Locked
<1>12. ASSUME NEW w \in Billers, TxCommit(w) PROVE PollOK'
  BY <1>12, <1>k, <1>e, SnapshotAssumption DEF TxCommit, To, TxEnds, dbVars,
     cacheVars, versionVars, writerVars, pollVars, PollOK, PcOK, Actors, Jobs,
     Kept, InFlight, Locked
<1>13. ASSUME NEW w \in Billers, TxRollback(w) PROVE PollOK'
  BY <1>13, <1>k, <1>e, SnapshotAssumption DEF TxRollback, To, TxEnds, dbVars,
     cacheVars, versionVars, writerVars, pollVars, PollOK, PcOK, Actors, Jobs,
     Kept, InFlight, Locked
<1>14. ASSUME NEW j \in Jobs, TryLockBucket(j) PROVE PollOK'
  <2>1. /\ batch' \in [Pollers -> SUBSET Nat] /\ listed' \in [Pollers -> Nat]
        /\ \A q \in Pollers :
             batch'[q] \subseteq batch[q] /\ listed'[q] \in {0, listed[q]}
    BY <1>14 DEF TryLockBucket, To, MarkSeen, pollVars, PollOK
  <2>2. seen' \in [Pollers -> BOOLEAN]
    BY <1>14 DEF TryLockBucket, To, MarkSeen, pollVars, PollOK
  <2>3. \A q \in Pollers : pc'[q] \in {"read", "set"} =>
           /\ batch[q] # {} /\ batch'[q] = batch[q]
           /\ Event(q) \in {"account", "groups", "used"}
    BY <1>14, SnapshotAssumption DEF TryLockBucket, To, MarkSeen, pollVars,
       PollOK, PcOK, Actors, Jobs, Locked
  <2> QED
    BY <1>k, <1>e, <2>1, <2>2, <2>3, PollKept
<1>15. ASSUME NEW j \in Jobs, LockTaken(j) PROVE PollOK'
  <2>1. /\ batch' \in [Pollers -> SUBSET Nat] /\ listed' \in [Pollers -> Nat]
        /\ \A q \in Pollers :
             batch'[q] \subseteq batch[q] /\ listed'[q] \in {0, listed[q]}
    BY <1>15 DEF LockTaken, To, MarkSeen, Return, pollVars, PollOK
  <2>2. seen' \in [Pollers -> BOOLEAN]
    BY <1>15 DEF LockTaken, To, MarkSeen, Return, pollVars, PollOK
  <2>3. \A q \in Pollers : pc'[q] \in {"read", "set"} =>
           /\ batch[q] # {} /\ batch'[q] = batch[q]
           /\ Event(q) \in {"account", "groups", "used"}
    BY <1>15, SnapshotAssumption DEF LockTaken, To, MarkSeen, Return, pollVars,
       PollOK, PcOK, Actors, Jobs, Locked
  <2> QED
    BY <1>k, <1>e, <2>1, <2>2, <2>3, PollKept
<1>16. ASSUME NEW j \in Jobs, Load(j) PROVE PollOK'
  BY <1>16, <1>k, <1>e, SnapshotAssumption DEF Load, To, Keep, dbVars,
     cacheVars, versionVars, writerVars, pollVars, PollOK, PcOK, Actors, Jobs,
     Kept, InFlight, Locked
<1>17. ASSUME NEW j \in Jobs, Incr(j) PROVE PollOK'
  BY <1>17, <1>k, <1>e, SnapshotAssumption DEF Incr, To, dbVars, cacheVars,
     versionVars, writerVars, pollVars, PollOK, PcOK, Actors, Jobs, Kept,
     InFlight, Locked
<1>18. ASSUME NEW j \in Jobs, Activate(j) PROVE PollOK'
  <2>1. /\ batch' \in [Pollers -> SUBSET Nat] /\ listed' \in [Pollers -> Nat]
        /\ \A q \in Pollers :
             batch'[q] \subseteq batch[q] /\ listed'[q] \in {0, listed[q]}
    BY <1>18 DEF Activate, To, Keep, WriteAccounts, CountFrom, Current, pollVars,
       PollOK
  <2>2. seen' \in [Pollers -> BOOLEAN]
    BY <1>18 DEF Activate, To, Keep, WriteAccounts, CountFrom, Current, pollVars,
       PollOK
  <2>3. \A q \in Pollers : pc'[q] \in {"read", "set"} =>
           /\ batch[q] # {} /\ batch'[q] = batch[q]
           /\ Event(q) \in {"account", "groups", "used"}
    BY <1>18, SnapshotAssumption DEF Activate, To, Keep, WriteAccounts, CountFrom,
       Current, pollVars, PollOK, PcOK, Actors, Jobs, Locked
  <2> QED
    BY <1>k, <1>e, <2>1, <2>2, <2>3, PollKept
<1>19. ASSUME NEW j \in Jobs, UnlockBucket(j) PROVE PollOK'
  <2>1. /\ batch' \in [Pollers -> SUBSET Nat] /\ listed' \in [Pollers -> Nat]
        /\ \A q \in Pollers :
             batch'[q] \subseteq batch[q] /\ listed'[q] \in {0, listed[q]}
    BY <1>19 DEF UnlockBucket, To, Return, pollVars, PollOK
  <2>2. seen' \in [Pollers -> BOOLEAN]
    BY <1>19 DEF UnlockBucket, To, Return, pollVars, PollOK
  <2>3. \A q \in Pollers : pc'[q] \in {"read", "set"} =>
           /\ batch[q] # {} /\ batch'[q] = batch[q]
           /\ Event(q) \in {"account", "groups", "used"}
    BY <1>19, SnapshotAssumption DEF UnlockBucket, To, Return, pollVars, PollOK,
       PcOK, Actors, Jobs, Locked
  <2> QED
    BY <1>k, <1>e, <2>1, <2>2, <2>3, PollKept
<1>20. ASSUME NEW j \in Jobs, JobFails(j) PROVE PollOK'
  <2>1. /\ batch' \in [Pollers -> SUBSET Nat] /\ listed' \in [Pollers -> Nat]
        /\ \A q \in Pollers :
             batch'[q] \subseteq batch[q] /\ listed'[q] \in {0, listed[q]}
    BY <1>20 DEF JobFails, To, Keep, ForgetBatch, WriteAccounts, pollVars, PollOK
  <2>2. seen' \in [Pollers -> BOOLEAN]
    BY <1>20 DEF JobFails, To, Keep, ForgetBatch, WriteAccounts, pollVars, PollOK
  <2>3. \A q \in Pollers : pc'[q] \in {"read", "set"} =>
           /\ batch[q] # {} /\ batch'[q] = batch[q]
           /\ Event(q) \in {"account", "groups", "used"}
    BY <1>20, SnapshotAssumption DEF JobFails, To, Keep, ForgetBatch,
       WriteAccounts, pollVars, PollOK, PcOK, Actors, Jobs, Locked
  <2> QED
    BY <1>k, <1>e, <2>1, <2>2, <2>3, PollKept
<1>21. ASSUME NEW p \in Pollers, Poll(p) PROVE PollOK'
  <2>1. /\ BatchOf \subseteq Visible /\ Max(BatchOf) \in Visible
    BY <1>21, BatchIs DEF Poll, Unread
  <2>2. Visible \subseteq Nat /\ Visible' = Visible
    BY <1>21, LenProperties DEF Poll, dbVars, Visible, OutboxOK
  <2>3. \A q \in Pollers :
          /\ pc'[q] = IF q = p THEN "next" ELSE pc[q]
          /\ batch'[q] = IF q = p THEN BatchOf ELSE batch[q]
          /\ listed'[q] = IF q = p THEN Max(BatchOf) ELSE listed[q]
    BY <1>21 DEF Poll, To, PcOK, PollOK, Actors, Jobs
  <2>4. /\ batch' \in [Pollers -> SUBSET Nat] /\ listed' \in [Pollers -> Nat]
    BY <1>21, <2>1, <2>2 DEF Poll, PollOK
  <2>5. seen' \in [Pollers -> BOOLEAN]
    BY <1>21 DEF Poll, PollOK
  <2>6. \A q \in Pollers :
           batch'[q] \subseteq Visible' /\ listed'[q] \in {0} \cup Visible'
    BY <2>1, <2>2, <2>3 DEF PollOK
  <2>7. ASSUME NEW q \in Pollers, pc'[q] \in {"read", "set"}
        PROVE  batch'[q] # {} /\ Event(q)' \in {"account", "groups", "used"}
    <3>1. q # p /\ pc[q] \in {"read", "set"} /\ batch'[q] = batch[q]
      BY <2>3, <2>7
    <3> QED
      BY <1>e, <3>1 DEF PollOK
  <2> QED
    BY <2>4, <2>5, <2>6, <2>7 DEF PollOK
<1>22. ASSUME NEW p \in Pollers, Handle(p) PROVE PollOK'
  <2>1. /\ batch' \in [Pollers -> SUBSET Nat] /\ listed' \in [Pollers -> Nat]
        /\ \A q \in Pollers :
             batch'[q] \subseteq batch[q] /\ listed'[q] \in {0, listed[q]}
    BY <1>22 DEF Handle, To, Return, pollVars, PollOK
  <2>2. seen' \in [Pollers -> BOOLEAN]
    BY <1>22 DEF Handle, To, Return, pollVars, PollOK
  <2>3. \A q \in Pollers : pc'[q] \in {"read", "set"} =>
           /\ batch[q] # {} /\ batch'[q] = batch[q]
           /\ Event(q) \in {"account", "groups", "used"}
    BY <1>22, SnapshotAssumption DEF Handle, To, Return, pollVars, PollOK, PcOK,
       Actors, Jobs, Locked
  <2> QED
    BY <1>k, <1>e, <2>1, <2>2, <2>3, PollKept
<1>23. ASSUME NEW p \in Pollers, ReadAccount(p) PROVE PollOK'
  BY <1>23, <1>k, <1>e, SnapshotAssumption DEF ReadAccount, To, Keep, dbVars,
     cacheVars, versionVars, writerVars, pollVars, PollOK, PcOK, Actors, Jobs,
     Kept, InFlight, Locked
<1>24. ASSUME NEW p \in Pollers, SetAccount(p) PROVE PollOK'
  <2>1. /\ batch' \in [Pollers -> SUBSET Nat] /\ listed' \in [Pollers -> Nat]
        /\ \A q \in Pollers :
             batch'[q] \subseteq batch[q] /\ listed'[q] \in {0, listed[q]}
    BY <1>24 DEF SetAccount, To, Keep, Return, SetEntry, pollVars, PollOK
  <2>2. seen' \in [Pollers -> BOOLEAN]
    BY <1>24 DEF SetAccount, To, Keep, Return, SetEntry, pollVars, PollOK
  <2>3. \A q \in Pollers : pc'[q] \in {"read", "set"} =>
           /\ batch[q] # {} /\ batch'[q] = batch[q]
           /\ Event(q) \in {"account", "groups", "used"}
    BY <1>24, SnapshotAssumption DEF SetAccount, To, Keep, Return, SetEntry,
       pollVars, PollOK, PcOK, Actors, Jobs, Locked
  <2> QED
    BY <1>k, <1>e, <2>1, <2>2, <2>3, PollKept
<1>25. ASSUME NEW p \in Pollers, SetOutboxWatermark(p) PROVE PollOK'
  <2>1. /\ batch' \in [Pollers -> SUBSET Nat] /\ listed' \in [Pollers -> Nat]
        /\ \A q \in Pollers :
             batch'[q] \subseteq batch[q] /\ listed'[q] \in {0, listed[q]}
    BY <1>25 DEF SetOutboxWatermark, To, ForgetBatch, pollVars, PollOK
  <2>2. seen' \in [Pollers -> BOOLEAN]
    BY <1>25 DEF SetOutboxWatermark, To, ForgetBatch, pollVars, PollOK
  <2>3. \A q \in Pollers : pc'[q] \in {"read", "set"} =>
           /\ batch[q] # {} /\ batch'[q] = batch[q]
           /\ Event(q) \in {"account", "groups", "used"}
    BY <1>25, SnapshotAssumption DEF SetOutboxWatermark, To, ForgetBatch,
       pollVars, PollOK, PcOK, Actors, Jobs, Locked
  <2> QED
    BY <1>k, <1>e, <2>1, <2>2, <2>3, PollKept
<1>26. ASSUME NEW j \in Rebuilders, StartRebuild(j) PROVE PollOK'
  BY <1>26, <1>k, <1>e, SnapshotAssumption DEF StartRebuild, To, dbVars,
     cacheVars, versionVars, writerVars, pollVars, PollOK, PcOK, Actors, Jobs,
     Kept, InFlight, Locked
<1>27. ASSUME NEW j \in Readers, Fallback(j) PROVE PollOK'
  BY <1>27, <1>k, <1>e, SnapshotAssumption DEF Fallback, To, dbVars, cacheVars,
     versionVars, writerVars, pollVars, PollOK, PcOK, Actors, Jobs, Kept,
     InFlight, Locked
<1>28. ASSUME Unannounced PROVE PollOK'
  BY <1>28, <1>k, <1>e, SnapshotAssumption DEF Unannounced, dbVars, cacheVars,
     versionVars, writerVars, pollVars, PollOK, PcOK, Actors, Jobs, Kept,
     InFlight, Locked
<1>29. ASSUME LockExpires PROVE PollOK'
  BY <1>29, <1>k, <1>e, SnapshotAssumption DEF LockExpires, dbVars, cacheVars,
     versionVars, writerVars, pollVars, PollOK, PcOK, Actors, Jobs, Kept,
     InFlight, Locked
<1>30. ASSUME LockLapses PROVE PollOK'
  BY <1>30, <1>k, <1>e, SnapshotAssumption DEF LockLapses, dbVars, cacheVars,
     versionVars, writerVars, pollVars, PollOK, PcOK, Actors, Jobs, Kept,
     InFlight, Locked
<1>31. ASSUME UNCHANGED vars PROVE PollOK'
  BY <1>31, <1>k, <1>e, SnapshotAssumption DEF vars, dbVars, cacheVars,
     versionVars, writerVars, pollVars, PollOK, PcOK, Actors, Jobs, Kept,
     InFlight, Locked
<1> QED
  BY <1>1, <1>2, <1>3, <1>4, <1>5, <1>6, <1>7, <1>8, <1>9, <1>10, <1>11, <1>12,
     <1>13, <1>14, <1>15, <1>16, <1>17, <1>18, <1>19, <1>20, <1>21, <1>22,
     <1>23, <1>24, <1>25, <1>26, <1>27, <1>28, <1>29, <1>30, <1>31 DEF Next,
     WriterStep, TxStep, JobStep, PollStep

(* All of it together.                                                     *)
Types == ValuesOK /\ PcOK /\ HeldOK /\ OutboxOK /\ PollOK

(* Types holds at first.                                                   *)
LEMMA TypesInit == Init => Types
<1> SUFFICES ASSUME Init PROVE Types
  OBVIOUS
<1> USE SnapshotAssumption
<1>1. ValuesOK
  BY DEF Init, ValuesOK, Versions, Actors, Jobs, None, Nobody, EventKinds
<1>2. PcOK
  BY DEF Init, PcOK, Actors, Jobs, Locked
<1>3. HeldOK
  BY DEF Init, HeldOK, InFlight, Jobs
<1>4. OutboxOK
  BY EmptySeq DEF Init, OutboxOK
<1>5. PollOK
  BY DEF Init, PollOK, Jobs
<1> QED
  BY <1>1, <1>2, <1>3, <1>4, <1>5 DEF Types

(* And every step keeps it.                                                *)
LEMMA TypesStep == Types /\ [Next]_vars => Types'
  BY ValuesStep, PcStep, HeldStep, OutboxStep, PollKeeps DEF Types

(* So it holds throughout.                                                 *)
LEMMA SnapshotTypes == Spec => []Types
  BY TypesInit, TypesStep, PTL DEF Spec

(* Types of the scheduler snapshot. A poller lists and remembers committed *)
(* events only, so that its watermark never passes the last one            *)
(* (pollOutbox stores the id of the last event of the batch).              *)
THEOREM SnapshotTypeCorrect == Spec => []TypeOK
<1>1. Init => excuse \in BOOLEAN
  BY Zenon DEF Init
<1>2. excuse \in BOOLEAN /\ [Next]_vars => (excuse \in BOOLEAN)'
  BY Zenon DEF Next, WriterStep, TxStep, JobStep, PollStep, vars, Blame,
     Change, Delete, DeleteEntry, Enqueue, EnqueueDeduped, EnqueueFails,
     SyncRead, SyncWrite, SyncFails, TxInsert, TxDeduped, TxCommit, TxRollback,
     TryLockBucket, LockTaken, Load, Incr, Activate, UnlockBucket, JobFails,
     Poll, Handle, ReadAccount, SetAccount, SetOutboxWatermark, StartRebuild,
     Fallback, Unannounced, LockExpires, LockLapses
<1>3. Types /\ excuse \in BOOLEAN => TypeOK
  <2> SUFFICES ASSUME Types, excuse \in BOOLEAN PROVE TypeOK
    OBVIOUS
  <2>1. \A i \in DOMAIN outbox : outbox[i] \in Entry
    BY ElementOfSeq, LenProperties DEF Types, OutboxOK
  <2> QED
    BY <2>1 DEF Types, ValuesOK, OutboxOK, PollOK, Entry, Actors, TypeOK
<1> QED
  BY <1>1, <1>2, <1>3, SnapshotTypes, PTL DEF Spec

(***************************************************************************)
(* The bucket lock                                                         *)
(***************************************************************************)
(* Until the first failure a job that rebuilds under the lock has it.      *)
LockInv ==
    faults = 0 => \A j \in Pollers \cup Rebuilders : pc[j] \in Locked => lock = j

(* TryLockBucket is refused while the key exists; faults end it early.     *)
LEMMA LockStep == Types /\ LockInv /\ [Next]_vars => LockInv'
<1> SUFFICES ASSUME Types, LockInv, [Next]_vars PROVE LockInv'
  OBVIOUS
<1> USE DEF Types
<1>1. ASSUME NEW w \in Writers, NEW k \in Kinds, Change(w, k)
      PROVE  LockInv'
  BY <1>1, SnapshotAssumption DEF Change, To, dbVars, cacheVars, versionVars,
     writerVars, pollVars, LockInv, ValuesOK, PcOK, Actors, Jobs, Locked,
     Nobody
<1>2. ASSUME NEW w \in Writers, Delete(w) PROVE LockInv'
  BY <1>2, SnapshotAssumption DEF Delete, To, dbVars, cacheVars, versionVars,
     writerVars, pollVars, LockInv, ValuesOK, PcOK, Actors, Jobs, Locked,
     Nobody
<1>3. ASSUME NEW w \in Writers, DeleteEntry(w) PROVE LockInv'
  BY <1>3, SnapshotAssumption DEF DeleteEntry, To, dbVars, cacheVars,
     versionVars, writerVars, pollVars, LockInv, ValuesOK, PcOK, Actors, Jobs,
     Locked, Nobody
<1>4. ASSUME NEW w \in Writers, Enqueue(w) PROVE LockInv'
  BY <1>4, SnapshotAssumption DEF Enqueue, AfterEnqueue, To, dbVars, cacheVars,
     versionVars, writerVars, pollVars, LockInv, ValuesOK, PcOK, Actors, Jobs,
     Locked, Nobody
<1>5. ASSUME NEW w \in Writers, EnqueueDeduped(w) PROVE LockInv'
  BY <1>5, SnapshotAssumption DEF EnqueueDeduped, AfterEnqueue, To, dbVars,
     cacheVars, versionVars, writerVars, pollVars, LockInv, ValuesOK, PcOK,
     Actors, Jobs, Locked, Nobody
<1>6. ASSUME NEW w \in Writers, EnqueueFails(w) PROVE LockInv'
  BY <1>6, SnapshotAssumption DEF EnqueueFails, AfterEnqueue, To, dbVars,
     cacheVars, versionVars, writerVars, pollVars, LockInv, ValuesOK, PcOK,
     Actors, Jobs, Locked, Nobody
<1>7. ASSUME NEW w \in Writers, SyncRead(w) PROVE LockInv'
  BY <1>7, SnapshotAssumption DEF SyncRead, To, Keep, dbVars, cacheVars,
     versionVars, writerVars, pollVars, LockInv, ValuesOK, PcOK, Actors, Jobs,
     Locked, Nobody
<1>8. ASSUME NEW w \in Writers, SyncWrite(w) PROVE LockInv'
  BY <1>8, SnapshotAssumption DEF SyncWrite, To, Keep, dbVars, cacheVars,
     versionVars, writerVars, pollVars, LockInv, ValuesOK, PcOK, Actors, Jobs,
     Locked, Nobody
<1>9. ASSUME NEW w \in Writers, SyncFails(w) PROVE LockInv'
  BY <1>9, SnapshotAssumption DEF SyncFails, To, Keep, dbVars, cacheVars,
     versionVars, writerVars, pollVars, LockInv, ValuesOK, PcOK, Actors, Jobs,
     Locked, Nobody
<1>10. ASSUME NEW w \in Billers, TxInsert(w) PROVE LockInv'
  BY <1>10, SnapshotAssumption DEF TxInsert, To, dbVars, cacheVars,
     versionVars, writerVars, pollVars, LockInv, ValuesOK, PcOK, Actors, Jobs,
     Locked, Nobody
<1>11. ASSUME NEW w \in Billers, TxDeduped(w) PROVE LockInv'
  BY <1>11, SnapshotAssumption DEF TxDeduped, To, dbVars, cacheVars,
     versionVars, writerVars, pollVars, LockInv, ValuesOK, PcOK, Actors, Jobs,
     Locked, Nobody
<1>12. ASSUME NEW w \in Billers, TxCommit(w) PROVE LockInv'
  BY <1>12, SnapshotAssumption DEF TxCommit, To, TxEnds, dbVars, cacheVars,
     versionVars, writerVars, pollVars, LockInv, ValuesOK, PcOK, Actors, Jobs,
     Locked, Nobody
<1>13. ASSUME NEW w \in Billers, TxRollback(w) PROVE LockInv'
  BY <1>13, SnapshotAssumption DEF TxRollback, To, TxEnds, dbVars, cacheVars,
     versionVars, writerVars, pollVars, LockInv, ValuesOK, PcOK, Actors, Jobs,
     Locked, Nobody
<1>14. ASSUME NEW j \in Jobs, TryLockBucket(j) PROVE LockInv'
  BY <1>14, SnapshotAssumption DEF TryLockBucket, To, MarkSeen, dbVars,
     cacheVars, versionVars, writerVars, pollVars, LockInv, ValuesOK, PcOK,
     Actors, Jobs, Locked, Nobody
<1>15. ASSUME NEW j \in Jobs, LockTaken(j) PROVE LockInv'
  BY <1>15, SnapshotAssumption DEF LockTaken, To, MarkSeen, Return, dbVars,
     cacheVars, versionVars, writerVars, pollVars, LockInv, ValuesOK, PcOK,
     Actors, Jobs, Locked, Nobody
<1>16. ASSUME NEW j \in Jobs, Load(j) PROVE LockInv'
  BY <1>16, SnapshotAssumption DEF Load, To, Keep, dbVars, cacheVars,
     versionVars, writerVars, pollVars, LockInv, ValuesOK, PcOK, Actors, Jobs,
     Locked, Nobody
<1>17. ASSUME NEW j \in Jobs, Incr(j) PROVE LockInv'
  BY <1>17, SnapshotAssumption DEF Incr, To, dbVars, cacheVars, versionVars,
     writerVars, pollVars, LockInv, ValuesOK, PcOK, Actors, Jobs, Locked,
     Nobody
<1>18. ASSUME NEW j \in Jobs, Activate(j) PROVE LockInv'
  BY <1>18, SnapshotAssumption DEF Activate, To, Keep, WriteAccounts,
     CountFrom, Current, dbVars, cacheVars, versionVars, writerVars, pollVars,
     LockInv, ValuesOK, PcOK, Actors, Jobs, Locked, Nobody
<1>19. ASSUME NEW j \in Jobs, UnlockBucket(j) PROVE LockInv'
  BY <1>19, SnapshotAssumption DEF UnlockBucket, To, Return, dbVars, cacheVars,
     versionVars, writerVars, pollVars, LockInv, ValuesOK, PcOK, Actors, Jobs,
     Locked, Nobody
<1>20. ASSUME NEW j \in Jobs, JobFails(j) PROVE LockInv'
  BY <1>20, SnapshotAssumption DEF JobFails, To, Keep, ForgetBatch,
     WriteAccounts, dbVars, cacheVars, versionVars, writerVars, pollVars,
     LockInv, ValuesOK, PcOK, Actors, Jobs, Locked, Nobody
<1>21. ASSUME NEW p \in Pollers, Poll(p) PROVE LockInv'
  BY <1>21, SnapshotAssumption DEF Poll, To, dbVars, cacheVars, versionVars,
     writerVars, pollVars, LockInv, ValuesOK, PcOK, Actors, Jobs, Locked,
     Nobody
<1>22. ASSUME NEW p \in Pollers, Handle(p) PROVE LockInv'
  BY <1>22, SnapshotAssumption DEF Handle, To, Return, dbVars, cacheVars,
     versionVars, writerVars, pollVars, LockInv, ValuesOK, PcOK, Actors, Jobs,
     Locked, Nobody
<1>23. ASSUME NEW p \in Pollers, ReadAccount(p) PROVE LockInv'
  BY <1>23, SnapshotAssumption DEF ReadAccount, To, Keep, dbVars, cacheVars,
     versionVars, writerVars, pollVars, LockInv, ValuesOK, PcOK, Actors, Jobs,
     Locked, Nobody
<1>24. ASSUME NEW p \in Pollers, SetAccount(p) PROVE LockInv'
  BY <1>24, SnapshotAssumption DEF SetAccount, To, Keep, Return, SetEntry,
     dbVars, cacheVars, versionVars, writerVars, pollVars, LockInv, ValuesOK,
     PcOK, Actors, Jobs, Locked, Nobody
<1>25. ASSUME NEW p \in Pollers, SetOutboxWatermark(p) PROVE LockInv'
  BY <1>25, SnapshotAssumption DEF SetOutboxWatermark, To, ForgetBatch, dbVars,
     cacheVars, versionVars, writerVars, pollVars, LockInv, ValuesOK, PcOK,
     Actors, Jobs, Locked, Nobody
<1>26. ASSUME NEW j \in Rebuilders, StartRebuild(j) PROVE LockInv'
  BY <1>26, SnapshotAssumption DEF StartRebuild, To, dbVars, cacheVars,
     versionVars, writerVars, pollVars, LockInv, ValuesOK, PcOK, Actors, Jobs,
     Locked, Nobody
<1>27. ASSUME NEW j \in Readers, Fallback(j) PROVE LockInv'
  BY <1>27, SnapshotAssumption DEF Fallback, To, dbVars, cacheVars,
     versionVars, writerVars, pollVars, LockInv, ValuesOK, PcOK, Actors, Jobs,
     Locked, Nobody
<1>28. ASSUME Unannounced PROVE LockInv'
  BY <1>28, SnapshotAssumption DEF Unannounced, dbVars, cacheVars, versionVars,
     writerVars, pollVars, LockInv, ValuesOK, PcOK, Actors, Jobs, Locked,
     Nobody
<1>29. ASSUME LockExpires PROVE LockInv'
  BY <1>29, SnapshotAssumption DEF LockExpires, dbVars, cacheVars, versionVars,
     writerVars, pollVars, LockInv, ValuesOK, PcOK, Actors, Jobs, Locked,
     Nobody
<1>30. ASSUME LockLapses PROVE LockInv'
  BY <1>30, SnapshotAssumption DEF LockLapses, dbVars, cacheVars, versionVars,
     writerVars, pollVars, LockInv, ValuesOK, PcOK, Actors, Jobs, Locked,
     Nobody
<1>31. ASSUME UNCHANGED vars PROVE LockInv'
  BY <1>31, SnapshotAssumption DEF vars, dbVars, cacheVars, versionVars,
     writerVars, pollVars, LockInv, ValuesOK, PcOK, Actors, Jobs, Locked,
     Nobody
<1> QED
  BY <1>1, <1>2, <1>3, <1>4, <1>5, <1>6, <1>7, <1>8, <1>9, <1>10, <1>11, <1>12,
     <1>13, <1>14, <1>15, <1>16, <1>17, <1>18, <1>19, <1>20, <1>21, <1>22,
     <1>23, <1>24, <1>25, <1>26, <1>27, <1>28, <1>29, <1>30, <1>31 DEF Next,
     WriterStep, TxStep, JobStep, PollStep

(***************************************************************************)
(* What pollers have spent                                                 *)
(***************************************************************************)
(* The poller q is where it was, with the batch it had.                    *)
Still(q) ==
    /\ pc'[q] = pc[q] /\ batch'[q] = batch[q]
    /\ listed'[q] = listed[q] /\ seen'[q] = seen[q]

(* A poller moves by steps of its own.                                     *)
Moves(q) ==
    \/ TryLockBucket(q) \/ LockTaken(q) \/ Load(q) \/ Incr(q) \/ Activate(q)
    \/ UnlockBucket(q) \/ JobFails(q)
    \/ Poll(q) \/ Handle(q) \/ ReadAccount(q) \/ SetAccount(q) \/ SetOutboxWatermark(q)

(* Nobody else moves a poller or changes its batch.                        *)
LEMMA StillOrMoves ==
  ASSUME Types, [Next]_vars, NEW q \in Pollers
  PROVE  Still(q) \/ Moves(q)
<1> SUFFICES ASSUME ~Moves(q) PROVE Still(q)
  OBVIOUS
<1> USE SnapshotAssumption DEF Types, PcOK, PollOK, Actors, Jobs
<1>1. ASSUME NEW w \in Writers, NEW k \in Kinds, Change(w, k)
      PROVE  Still(q)
  BY <1>1 DEF Change, To, dbVars, cacheVars, versionVars, writerVars, pollVars,
     Still
<1>2. ASSUME NEW w \in Writers, Delete(w) PROVE Still(q)
  BY <1>2 DEF Delete, To, dbVars, cacheVars, versionVars, writerVars, pollVars,
     Still
<1>3. ASSUME NEW w \in Writers, DeleteEntry(w) PROVE Still(q)
  BY <1>3 DEF DeleteEntry, To, dbVars, cacheVars, versionVars, writerVars,
     pollVars, Still
<1>4. ASSUME NEW w \in Writers, Enqueue(w) PROVE Still(q)
  BY <1>4 DEF Enqueue, AfterEnqueue, To, dbVars, cacheVars, versionVars,
     writerVars, pollVars, Still
<1>5. ASSUME NEW w \in Writers, EnqueueDeduped(w) PROVE Still(q)
  BY <1>5 DEF EnqueueDeduped, AfterEnqueue, To, dbVars, cacheVars, versionVars,
     writerVars, pollVars, Still
<1>6. ASSUME NEW w \in Writers, EnqueueFails(w) PROVE Still(q)
  BY <1>6 DEF EnqueueFails, AfterEnqueue, To, dbVars, cacheVars, versionVars,
     writerVars, pollVars, Still
<1>7. ASSUME NEW w \in Writers, SyncRead(w) PROVE Still(q)
  BY <1>7 DEF SyncRead, To, Keep, dbVars, cacheVars, versionVars, writerVars,
     pollVars, Still
<1>8. ASSUME NEW w \in Writers, SyncWrite(w) PROVE Still(q)
  BY <1>8 DEF SyncWrite, To, Keep, dbVars, cacheVars, versionVars, writerVars,
     pollVars, Still
<1>9. ASSUME NEW w \in Writers, SyncFails(w) PROVE Still(q)
  BY <1>9 DEF SyncFails, To, Keep, dbVars, cacheVars, versionVars, writerVars,
     pollVars, Still
<1>10. ASSUME NEW w \in Billers, TxInsert(w) PROVE Still(q)
  BY <1>10 DEF TxInsert, To, dbVars, cacheVars, versionVars, writerVars,
     pollVars, Still
<1>11. ASSUME NEW w \in Billers, TxDeduped(w) PROVE Still(q)
  BY <1>11 DEF TxDeduped, To, dbVars, cacheVars, versionVars, writerVars,
     pollVars, Still
<1>12. ASSUME NEW w \in Billers, TxCommit(w) PROVE Still(q)
  BY <1>12 DEF TxCommit, To, TxEnds, dbVars, cacheVars, versionVars,
     writerVars, pollVars, Still
<1>13. ASSUME NEW w \in Billers, TxRollback(w) PROVE Still(q)
  BY <1>13 DEF TxRollback, To, TxEnds, dbVars, cacheVars, versionVars,
     writerVars, pollVars, Still
<1>14. ASSUME NEW j \in Jobs, TryLockBucket(j) PROVE Still(q)
  <2>1. j # q
    BY <1>14 DEF Moves
  <2> QED
    BY <1>14, <2>1 DEF TryLockBucket, To, MarkSeen, pollVars, Still
<1>15. ASSUME NEW j \in Jobs, LockTaken(j) PROVE Still(q)
  <2>1. j # q
    BY <1>15 DEF Moves
  <2> QED
    BY <1>15, <2>1 DEF LockTaken, To, MarkSeen, Return, pollVars, Still
<1>16. ASSUME NEW j \in Jobs, Load(j) PROVE Still(q)
  <2>1. j # q
    BY <1>16 DEF Moves
  <2> QED
    BY <1>16, <2>1 DEF Load, To, pollVars, Still
<1>17. ASSUME NEW j \in Jobs, Incr(j) PROVE Still(q)
  <2>1. j # q
    BY <1>17 DEF Moves
  <2> QED
    BY <1>17, <2>1 DEF Incr, To, pollVars, Still
<1>18. ASSUME NEW j \in Jobs, Activate(j) PROVE Still(q)
  <2>1. j # q
    BY <1>18 DEF Moves
  <2> QED
    BY <1>18, <2>1 DEF Activate, To, pollVars, Still
<1>19. ASSUME NEW j \in Jobs, UnlockBucket(j) PROVE Still(q)
  <2>1. j # q
    BY <1>19 DEF Moves
  <2> QED
    BY <1>19, <2>1 DEF UnlockBucket, To, Return, pollVars, Still
<1>20. ASSUME NEW j \in Jobs, JobFails(j) PROVE Still(q)
  <2>1. j # q
    BY <1>20 DEF Moves
  <2> QED
    BY <1>20, <2>1 DEF JobFails, To, ForgetBatch, pollVars, Still
<1>21. ASSUME NEW p \in Pollers, Poll(p) PROVE Still(q)
  <2>1. p # q
    BY <1>21 DEF Moves
  <2> QED
    BY <1>21, <2>1 DEF Poll, To, pollVars, Still
<1>22. ASSUME NEW p \in Pollers, Handle(p) PROVE Still(q)
  <2>1. p # q
    BY <1>22 DEF Moves
  <2> QED
    BY <1>22, <2>1 DEF Handle, To, Return, pollVars, Still
<1>23. ASSUME NEW p \in Pollers, ReadAccount(p) PROVE Still(q)
  <2>1. p # q
    BY <1>23 DEF Moves
  <2> QED
    BY <1>23, <2>1 DEF ReadAccount, To, pollVars, Still
<1>24. ASSUME NEW p \in Pollers, SetAccount(p) PROVE Still(q)
  <2>1. p # q
    BY <1>24 DEF Moves
  <2> QED
    BY <1>24, <2>1 DEF SetAccount, To, Return, pollVars, Still
<1>25. ASSUME NEW p \in Pollers, SetOutboxWatermark(p) PROVE Still(q)
  <2>1. p # q
    BY <1>25 DEF Moves
  <2> QED
    BY <1>25, <2>1 DEF SetOutboxWatermark, To, ForgetBatch, pollVars, Still
<1>26. ASSUME NEW j \in Rebuilders, StartRebuild(j) PROVE Still(q)
  BY <1>26 DEF StartRebuild, To, dbVars, cacheVars, versionVars, writerVars,
     pollVars, Still
<1>27. ASSUME NEW j \in Readers, Fallback(j) PROVE Still(q)
  BY <1>27 DEF Fallback, To, dbVars, cacheVars, versionVars, writerVars,
     pollVars, Still
<1>28. ASSUME Unannounced PROVE Still(q)
  BY <1>28 DEF Unannounced, dbVars, cacheVars, versionVars, writerVars,
     pollVars, Still
<1>29. ASSUME LockExpires PROVE Still(q)
  BY <1>29 DEF LockExpires, dbVars, cacheVars, versionVars, writerVars,
     pollVars, Still
<1>30. ASSUME LockLapses PROVE Still(q)
  BY <1>30 DEF LockLapses, dbVars, cacheVars, versionVars, writerVars,
     pollVars, Still
<1>31. ASSUME UNCHANGED vars PROVE Still(q)
  BY <1>31 DEF vars, dbVars, cacheVars, versionVars, writerVars, pollVars,
     Still
<1> QED
  BY <1>1, <1>2, <1>3, <1>4, <1>5, <1>6, <1>7, <1>8, <1>9, <1>10, <1>11, <1>12,
     <1>13, <1>14, <1>15, <1>16, <1>17, <1>18, <1>19, <1>20, <1>21, <1>22,
     <1>23, <1>24, <1>25, <1>26, <1>27, <1>28, <1>29, <1>30, <1>31 DEF Next,
     WriterStep, TxStep, JobStep, PollStep

(* A poller that does not move spends nothing.                             *)
LEMMA SpentStill ==
  ASSUME Kept, OutboxOK, NEW q \in Pollers, NEW i \in Visible, Still(q)
  PROVE  SpentBy(q, i)' <=> SpentBy(q, i)
<1>1. outbox'[i].kind = outbox[i].kind
  BY LenProperties DEF Kept, OutboxOK, Visible
<1>2. First(q)' = First(q)
  BY DEF First, Still
<1> QED
  BY <1>1, <1>2 DEF SpentBy, InFlight, Still

(* The handler of q's event leaves the bucket out.                         *)
LeavesOut(q) ==
    \/ LockTaken(q)
    \/ SetAccount(q) /\ Event(q) # "used" /\ ~seen[q] /\ pc'[q] # "lock"

(* Only a load, or a bucket left out, spends an event.                     *)
LEMMA NotSpent ==
  ASSUME Types, [Next]_vars, NEW q \in Pollers, NEW i \in Visible,
         outbox[i].kind # "used", i > watermark, ~SpentBy(q, i),
         ~Load(q), ~LeavesOut(q)
  PROVE  ~SpentBy(q, i)'
<1>k. Kept
  BY KeptStep DEF Types
<1>1. CASE Still(q)
  BY <1>k, <1>1, SpentStill DEF Types
<1>o. outbox'[i].kind = outbox[i].kind
  BY <1>k, LenProperties DEF Kept, Types, OutboxOK, Visible
<1>n. i \in Nat
  BY LenProperties DEF Types, OutboxOK, Visible
<1>b. \A p \in Pollers : /\ listed[p] \in Nat /\ batch[p] \in SUBSET Nat
                         /\ pc[p] \notin {"delete", "enqueue", "syncRead", "syncWrite", "tx"}
  BY DEF Types, PollOK, PcOK
<1> USE <1>o, <1>n, <1>b DEF SpentBy
<1>2. CASE TryLockBucket(q)
  BY <1>2 DEF TryLockBucket, To, MarkSeen, pollVars, InFlight, First, Types,
     PcOK, PollOK, Actors, Jobs
<1>3. CASE Incr(q)
  BY <1>3 DEF Incr, To, pollVars, InFlight, First, Types, PcOK, PollOK, Actors,
     Jobs
<1>4. CASE Activate(q)
  BY <1>4 DEF Activate, To, pollVars, InFlight, First, Types, PcOK, PollOK,
     Actors, Jobs
<1>5. CASE UnlockBucket(q)
  BY <1>5 DEF UnlockBucket, To, Return, pollVars, InFlight, First, Types, PcOK,
     PollOK, Actors, Jobs
<1>6. CASE JobFails(q)
  BY <1>6 DEF JobFails, To, ForgetBatch, pollVars, InFlight, First, Types,
     PcOK, PollOK, Actors, Jobs
<1>7. CASE Poll(q)
  <2>1. /\ pc'[q] = "next" /\ batch'[q] = BatchOf /\ listed'[q] = Max(BatchOf)
        /\ seen'[q] = FALSE
    BY <1>7 DEF Poll, To, Types, PcOK, PollOK, Actors, Jobs
  <2>2. i \in Unread
    BY DEF Unread
  <2>3. i <= Max(BatchOf) => i \in BatchOf
    BY <1>7, <2>2, BatchIs DEF Poll, Types
  <2> QED
    BY <2>1, <2>3 DEF InFlight
<1>8. CASE Handle(q)
  <2>1. pc[q] = "next" /\ listed'[q] = listed[q] /\ seen'[q] = seen[q]
    BY <1>8 DEF Handle, pollVars
  <2>2. CASE batch' = batch
    BY <1>8, <2>1, <2>2 DEF InFlight, First, Handle, To, Types, PcOK, Actors,
       Jobs, Return
  <2>3. CASE ~(batch' = batch)
    <3>1. /\ ~(Event(q) \in {"account", "groups", "used"})
          /\ ~(Event(q) = "full" \/ (Event(q) = "group" /\ ~seen[q]))
          /\ Return(q)
      BY <1>8, <2>3, Zenon DEF Handle
    <3>2. batch'[q] = batch[q] \ {First(q)}
      BY <2>3, <3>1 DEF Return, Types, PollOK
    <3>3. outbox[i].kind \in EventKinds
      <4>1. outbox[i] \in Entry
        BY ElementOfSeq, LenProperties DEF Types, OutboxOK, Visible
      <4> QED
        BY <4>1 DEF Entry
    <3>4. i = First(q) => seen[q] /\ outbox[i].kind # "full"
      BY <3>1, <3>3 DEF Event, EventKinds
    <3>5. pc'[q] = "next"
      BY <1>8, <2>3, <3>1 DEF Return, To, Types, PcOK, Actors, Jobs
    <3> QED
      BY <2>1, <3>2, <3>4, <3>5 DEF InFlight
  <2> QED
    BY <2>2, <2>3
<1>9. CASE ReadAccount(q)
  BY <1>9 DEF ReadAccount, To, pollVars, InFlight, First, Types, PcOK, PollOK,
     Actors, Jobs
<1>10. CASE SetAccount(q)
  BY <1>10 DEF SetAccount, To, Return, pollVars, InFlight, First, Types, PcOK,
     PollOK, Actors, Jobs, Event, LeavesOut
<1>11. CASE SetOutboxWatermark(q)
  BY <1>11 DEF SetOutboxWatermark, To, ForgetBatch, pollVars, InFlight, First,
     Types, PcOK, PollOK, Actors, Jobs
<1> QED
  BY <1>1, <1>2, <1>3, <1>4, <1>5, <1>6, <1>7, <1>8, <1>9, <1>10, <1>11,
     StillOrMoves DEF Moves, LeavesOut

(***************************************************************************)
(* What each step leaves alone                                             *)
(***************************************************************************)
(* A load in flight stays in flight until it is stored or fails.           *)
LEMMA LoadStays ==
  ASSUME Types, [Next]_vars, NEW k \in Jobs, InFlight(k), ~Activate(k), ~JobFails(k)
  PROVE  InFlight(k)' /\ val'[k] = val[k]
<1> USE SnapshotAssumption DEF Types, PcOK, ValuesOK, Actors, Jobs, InFlight
<1>1. ASSUME NEW w \in Writers, NEW c \in Kinds, Change(w, c)
      PROVE  InFlight(k)' /\ val'[k] = val[k]
  BY <1>1 DEF Change, To, dbVars, cacheVars, versionVars, writerVars, pollVars
<1>2. ASSUME NEW w \in Writers, Delete(w)
      PROVE  InFlight(k)' /\ val'[k] = val[k]
  BY <1>2 DEF Delete, To, dbVars, cacheVars, versionVars, writerVars, pollVars
<1>3. ASSUME NEW w \in Writers, DeleteEntry(w)
      PROVE  InFlight(k)' /\ val'[k] = val[k]
  BY <1>3 DEF DeleteEntry, To, dbVars, cacheVars, versionVars, writerVars,
     pollVars
<1>4. ASSUME NEW w \in Writers, Enqueue(w)
      PROVE  InFlight(k)' /\ val'[k] = val[k]
  BY <1>4 DEF Enqueue, AfterEnqueue, To, dbVars, cacheVars, versionVars,
     writerVars, pollVars
<1>5. ASSUME NEW w \in Writers, EnqueueDeduped(w)
      PROVE  InFlight(k)' /\ val'[k] = val[k]
  BY <1>5 DEF EnqueueDeduped, AfterEnqueue, To, dbVars, cacheVars, versionVars,
     writerVars, pollVars
<1>6. ASSUME NEW w \in Writers, EnqueueFails(w)
      PROVE  InFlight(k)' /\ val'[k] = val[k]
  BY <1>6 DEF EnqueueFails, AfterEnqueue, To, dbVars, cacheVars, versionVars,
     writerVars, pollVars
<1>7. ASSUME NEW w \in Writers, SyncRead(w)
      PROVE  InFlight(k)' /\ val'[k] = val[k]
  BY <1>7 DEF SyncRead, To, Keep, dbVars, cacheVars, versionVars, writerVars,
     pollVars
<1>8. ASSUME NEW w \in Writers, SyncWrite(w)
      PROVE  InFlight(k)' /\ val'[k] = val[k]
  BY <1>8 DEF SyncWrite, To, Keep, dbVars, cacheVars, versionVars, writerVars,
     pollVars
<1>9. ASSUME NEW w \in Writers, SyncFails(w)
      PROVE  InFlight(k)' /\ val'[k] = val[k]
  BY <1>9 DEF SyncFails, To, Keep, dbVars, cacheVars, versionVars, writerVars,
     pollVars
<1>10. ASSUME NEW w \in Billers, TxInsert(w)
      PROVE  InFlight(k)' /\ val'[k] = val[k]
  BY <1>10 DEF TxInsert, To, dbVars, cacheVars, versionVars, writerVars,
     pollVars
<1>11. ASSUME NEW w \in Billers, TxDeduped(w)
      PROVE  InFlight(k)' /\ val'[k] = val[k]
  BY <1>11 DEF TxDeduped, To, dbVars, cacheVars, versionVars, writerVars,
     pollVars
<1>12. ASSUME NEW w \in Billers, TxCommit(w)
      PROVE  InFlight(k)' /\ val'[k] = val[k]
  BY <1>12 DEF TxCommit, To, TxEnds, dbVars, cacheVars, versionVars,
     writerVars, pollVars
<1>13. ASSUME NEW w \in Billers, TxRollback(w)
      PROVE  InFlight(k)' /\ val'[k] = val[k]
  BY <1>13 DEF TxRollback, To, TxEnds, dbVars, cacheVars, versionVars,
     writerVars, pollVars
<1>14. ASSUME NEW j \in Jobs, TryLockBucket(j)
      PROVE  InFlight(k)' /\ val'[k] = val[k]
  BY <1>14 DEF TryLockBucket, To, MarkSeen, dbVars, cacheVars, versionVars,
     writerVars, pollVars
<1>15. ASSUME NEW j \in Jobs, LockTaken(j)
      PROVE  InFlight(k)' /\ val'[k] = val[k]
  BY <1>15 DEF LockTaken, To, MarkSeen, Return, dbVars, cacheVars, versionVars,
     writerVars, pollVars
<1>16. ASSUME NEW j \in Jobs, Load(j)
      PROVE  InFlight(k)' /\ val'[k] = val[k]
  BY <1>16 DEF Load, To, Keep, dbVars, cacheVars, versionVars, writerVars,
     pollVars
<1>17. ASSUME NEW j \in Jobs, Incr(j)
      PROVE  InFlight(k)' /\ val'[k] = val[k]
  BY <1>17 DEF Incr, To, dbVars, cacheVars, versionVars, writerVars, pollVars
<1>18. ASSUME NEW j \in Jobs, Activate(j)
      PROVE  InFlight(k)' /\ val'[k] = val[k]
  <2>1. j # k
    BY <1>18
  <2> QED
    BY <1>18, <2>1 DEF Activate, To, Keep
<1>19. ASSUME NEW j \in Jobs, UnlockBucket(j)
      PROVE  InFlight(k)' /\ val'[k] = val[k]
  BY <1>19 DEF UnlockBucket, To, Return, dbVars, cacheVars, versionVars,
     writerVars, pollVars
<1>20. ASSUME NEW j \in Jobs, JobFails(j)
      PROVE  InFlight(k)' /\ val'[k] = val[k]
  <2>1. j # k
    BY <1>20
  <2> QED
    BY <1>20, <2>1 DEF JobFails, To, Keep
<1>21. ASSUME NEW p \in Pollers, Poll(p)
      PROVE  InFlight(k)' /\ val'[k] = val[k]
  BY <1>21 DEF Poll, To, dbVars, cacheVars, versionVars, writerVars, pollVars
<1>22. ASSUME NEW p \in Pollers, Handle(p)
      PROVE  InFlight(k)' /\ val'[k] = val[k]
  BY <1>22 DEF Handle, To, Return, dbVars, cacheVars, versionVars, writerVars,
     pollVars
<1>23. ASSUME NEW p \in Pollers, ReadAccount(p)
      PROVE  InFlight(k)' /\ val'[k] = val[k]
  BY <1>23 DEF ReadAccount, To, Keep, dbVars, cacheVars, versionVars,
     writerVars, pollVars
<1>24. ASSUME NEW p \in Pollers, SetAccount(p)
      PROVE  InFlight(k)' /\ val'[k] = val[k]
  BY <1>24 DEF SetAccount, To, Keep, Return, SetEntry, dbVars, cacheVars,
     versionVars, writerVars, pollVars
<1>25. ASSUME NEW p \in Pollers, SetOutboxWatermark(p)
      PROVE  InFlight(k)' /\ val'[k] = val[k]
  BY <1>25 DEF SetOutboxWatermark, To, ForgetBatch, dbVars, cacheVars,
     versionVars, writerVars, pollVars
<1>26. ASSUME NEW j \in Rebuilders, StartRebuild(j)
      PROVE  InFlight(k)' /\ val'[k] = val[k]
  BY <1>26 DEF StartRebuild, To, dbVars, cacheVars, versionVars, writerVars,
     pollVars
<1>27. ASSUME NEW j \in Readers, Fallback(j)
      PROVE  InFlight(k)' /\ val'[k] = val[k]
  BY <1>27 DEF Fallback, To, dbVars, cacheVars, versionVars, writerVars,
     pollVars
<1>28. ASSUME Unannounced
      PROVE  InFlight(k)' /\ val'[k] = val[k]
  BY <1>28 DEF Unannounced, dbVars, cacheVars, versionVars, writerVars,
     pollVars
<1>29. ASSUME LockExpires
      PROVE  InFlight(k)' /\ val'[k] = val[k]
  BY <1>29 DEF LockExpires, dbVars, cacheVars, versionVars, writerVars,
     pollVars
<1>30. ASSUME LockLapses
      PROVE  InFlight(k)' /\ val'[k] = val[k]
  BY <1>30 DEF LockLapses, dbVars, cacheVars, versionVars, writerVars, pollVars
<1>31. ASSUME UNCHANGED vars
      PROVE  InFlight(k)' /\ val'[k] = val[k]
  BY <1>31 DEF vars, dbVars, cacheVars, versionVars, writerVars, pollVars
<1> QED
  BY <1>1, <1>2, <1>3, <1>4, <1>5, <1>6, <1>7, <1>8, <1>9, <1>10, <1>11, <1>12,
     <1>13, <1>14, <1>15, <1>16, <1>17, <1>18, <1>19, <1>20, <1>21, <1>22,
     <1>23, <1>24, <1>25, <1>26, <1>27, <1>28, <1>29, <1>30, <1>31 DEF Next,
     WriterStep, TxStep, JobStep, PollStep

(* A new one is a step of Load.                                            *)
LEMMA NewLoads ==
  ASSUME Types, [Next]_vars, NEW k \in Jobs, InFlight(k)', ~Load(k)
  PROVE  InFlight(k) /\ val'[k] = val[k]
<1> USE SnapshotAssumption DEF Types, PcOK, ValuesOK, Actors, Jobs, InFlight
<1>1. ASSUME NEW w \in Writers, NEW c \in Kinds, Change(w, c)
      PROVE  InFlight(k) /\ val'[k] = val[k]
  BY <1>1 DEF Change, To, dbVars, cacheVars, versionVars, writerVars, pollVars
<1>2. ASSUME NEW w \in Writers, Delete(w)
      PROVE  InFlight(k) /\ val'[k] = val[k]
  BY <1>2 DEF Delete, To, dbVars, cacheVars, versionVars, writerVars, pollVars
<1>3. ASSUME NEW w \in Writers, DeleteEntry(w)
      PROVE  InFlight(k) /\ val'[k] = val[k]
  BY <1>3 DEF DeleteEntry, To, dbVars, cacheVars, versionVars, writerVars,
     pollVars
<1>4. ASSUME NEW w \in Writers, Enqueue(w)
      PROVE  InFlight(k) /\ val'[k] = val[k]
  BY <1>4 DEF Enqueue, AfterEnqueue, To, dbVars, cacheVars, versionVars,
     writerVars, pollVars
<1>5. ASSUME NEW w \in Writers, EnqueueDeduped(w)
      PROVE  InFlight(k) /\ val'[k] = val[k]
  BY <1>5 DEF EnqueueDeduped, AfterEnqueue, To, dbVars, cacheVars, versionVars,
     writerVars, pollVars
<1>6. ASSUME NEW w \in Writers, EnqueueFails(w)
      PROVE  InFlight(k) /\ val'[k] = val[k]
  BY <1>6 DEF EnqueueFails, AfterEnqueue, To, dbVars, cacheVars, versionVars,
     writerVars, pollVars
<1>7. ASSUME NEW w \in Writers, SyncRead(w)
      PROVE  InFlight(k) /\ val'[k] = val[k]
  BY <1>7 DEF SyncRead, To, Keep, dbVars, cacheVars, versionVars, writerVars,
     pollVars
<1>8. ASSUME NEW w \in Writers, SyncWrite(w)
      PROVE  InFlight(k) /\ val'[k] = val[k]
  BY <1>8 DEF SyncWrite, To, Keep, dbVars, cacheVars, versionVars, writerVars,
     pollVars
<1>9. ASSUME NEW w \in Writers, SyncFails(w)
      PROVE  InFlight(k) /\ val'[k] = val[k]
  BY <1>9 DEF SyncFails, To, Keep, dbVars, cacheVars, versionVars, writerVars,
     pollVars
<1>10. ASSUME NEW w \in Billers, TxInsert(w)
      PROVE  InFlight(k) /\ val'[k] = val[k]
  BY <1>10 DEF TxInsert, To, dbVars, cacheVars, versionVars, writerVars,
     pollVars
<1>11. ASSUME NEW w \in Billers, TxDeduped(w)
      PROVE  InFlight(k) /\ val'[k] = val[k]
  BY <1>11 DEF TxDeduped, To, dbVars, cacheVars, versionVars, writerVars,
     pollVars
<1>12. ASSUME NEW w \in Billers, TxCommit(w)
      PROVE  InFlight(k) /\ val'[k] = val[k]
  BY <1>12 DEF TxCommit, To, TxEnds, dbVars, cacheVars, versionVars,
     writerVars, pollVars
<1>13. ASSUME NEW w \in Billers, TxRollback(w)
      PROVE  InFlight(k) /\ val'[k] = val[k]
  BY <1>13 DEF TxRollback, To, TxEnds, dbVars, cacheVars, versionVars,
     writerVars, pollVars
<1>14. ASSUME NEW j \in Jobs, TryLockBucket(j)
      PROVE  InFlight(k) /\ val'[k] = val[k]
  BY <1>14 DEF TryLockBucket, To, MarkSeen, dbVars, cacheVars, versionVars,
     writerVars, pollVars
<1>15. ASSUME NEW j \in Jobs, LockTaken(j)
      PROVE  InFlight(k) /\ val'[k] = val[k]
  BY <1>15 DEF LockTaken, To, MarkSeen, Return, dbVars, cacheVars, versionVars,
     writerVars, pollVars
<1>16. ASSUME NEW j \in Jobs, Load(j)
      PROVE  InFlight(k) /\ val'[k] = val[k]
  <2>1. j # k
    BY <1>16
  <2> QED
    BY <1>16, <2>1 DEF Load, To, Keep
<1>17. ASSUME NEW j \in Jobs, Incr(j)
      PROVE  InFlight(k) /\ val'[k] = val[k]
  BY <1>17 DEF Incr, To, dbVars, cacheVars, versionVars, writerVars, pollVars
<1>18. ASSUME NEW j \in Jobs, Activate(j)
      PROVE  InFlight(k) /\ val'[k] = val[k]
  BY <1>18 DEF Activate, To, Keep, WriteAccounts, CountFrom, Current, dbVars,
     cacheVars, versionVars, writerVars, pollVars
<1>19. ASSUME NEW j \in Jobs, UnlockBucket(j)
      PROVE  InFlight(k) /\ val'[k] = val[k]
  BY <1>19 DEF UnlockBucket, To, Return, dbVars, cacheVars, versionVars,
     writerVars, pollVars
<1>20. ASSUME NEW j \in Jobs, JobFails(j)
      PROVE  InFlight(k) /\ val'[k] = val[k]
  BY <1>20 DEF JobFails, To, Keep, ForgetBatch, WriteAccounts, dbVars,
     cacheVars, versionVars, writerVars, pollVars
<1>21. ASSUME NEW p \in Pollers, Poll(p)
      PROVE  InFlight(k) /\ val'[k] = val[k]
  BY <1>21 DEF Poll, To, dbVars, cacheVars, versionVars, writerVars, pollVars
<1>22. ASSUME NEW p \in Pollers, Handle(p)
      PROVE  InFlight(k) /\ val'[k] = val[k]
  BY <1>22 DEF Handle, To, Return, dbVars, cacheVars, versionVars, writerVars,
     pollVars
<1>23. ASSUME NEW p \in Pollers, ReadAccount(p)
      PROVE  InFlight(k) /\ val'[k] = val[k]
  BY <1>23 DEF ReadAccount, To, Keep, dbVars, cacheVars, versionVars,
     writerVars, pollVars
<1>24. ASSUME NEW p \in Pollers, SetAccount(p)
      PROVE  InFlight(k) /\ val'[k] = val[k]
  BY <1>24 DEF SetAccount, To, Keep, Return, SetEntry, dbVars, cacheVars,
     versionVars, writerVars, pollVars
<1>25. ASSUME NEW p \in Pollers, SetOutboxWatermark(p)
      PROVE  InFlight(k) /\ val'[k] = val[k]
  BY <1>25 DEF SetOutboxWatermark, To, ForgetBatch, dbVars, cacheVars,
     versionVars, writerVars, pollVars
<1>26. ASSUME NEW j \in Rebuilders, StartRebuild(j)
      PROVE  InFlight(k) /\ val'[k] = val[k]
  BY <1>26 DEF StartRebuild, To, dbVars, cacheVars, versionVars, writerVars,
     pollVars
<1>27. ASSUME NEW j \in Readers, Fallback(j)
      PROVE  InFlight(k) /\ val'[k] = val[k]
  BY <1>27 DEF Fallback, To, dbVars, cacheVars, versionVars, writerVars,
     pollVars
<1>28. ASSUME Unannounced
      PROVE  InFlight(k) /\ val'[k] = val[k]
  BY <1>28 DEF Unannounced, dbVars, cacheVars, versionVars, writerVars,
     pollVars
<1>29. ASSUME LockExpires
      PROVE  InFlight(k) /\ val'[k] = val[k]
  BY <1>29 DEF LockExpires, dbVars, cacheVars, versionVars, writerVars,
     pollVars
<1>30. ASSUME LockLapses
      PROVE  InFlight(k) /\ val'[k] = val[k]
  BY <1>30 DEF LockLapses, dbVars, cacheVars, versionVars, writerVars, pollVars
<1>31. ASSUME UNCHANGED vars
      PROVE  InFlight(k) /\ val'[k] = val[k]
  BY <1>31 DEF vars, dbVars, cacheVars, versionVars, writerVars, pollVars
<1> QED
  BY <1>1, <1>2, <1>3, <1>4, <1>5, <1>6, <1>7, <1>8, <1>9, <1>10, <1>11, <1>12,
     <1>13, <1>14, <1>15, <1>16, <1>17, <1>18, <1>19, <1>20, <1>21, <1>22,
     <1>23, <1>24, <1>25, <1>26, <1>27, <1>28, <1>29, <1>30, <1>31 DEF Next,
     WriterStep, TxStep, JobStep, PollStep

(* Versions are overtaken by an activation only.                           *)
LEMMA LateStays ==
  ASSUME Types, [Next]_vars, NEW k \in Jobs, pc'[k] = "activate", ~Current(k)',
         \A j \in Jobs : ~Activate(j)
  PROVE  pc[k] = "activate" /\ ~Current(k)
<1> USE SnapshotAssumption DEF Types, PcOK, ValuesOK, Actors, Jobs, Current
<1>1. ASSUME NEW w \in Writers, NEW c \in Kinds, Change(w, c)
      PROVE  pc[k] = "activate" /\ ~Current(k)
  BY <1>1 DEF Change, To, dbVars, cacheVars, versionVars, writerVars, pollVars
<1>2. ASSUME NEW w \in Writers, Delete(w)
      PROVE  pc[k] = "activate" /\ ~Current(k)
  BY <1>2 DEF Delete, To, dbVars, cacheVars, versionVars, writerVars, pollVars
<1>3. ASSUME NEW w \in Writers, DeleteEntry(w)
      PROVE  pc[k] = "activate" /\ ~Current(k)
  BY <1>3 DEF DeleteEntry, To, dbVars, cacheVars, versionVars, writerVars,
     pollVars
<1>4. ASSUME NEW w \in Writers, Enqueue(w)
      PROVE  pc[k] = "activate" /\ ~Current(k)
  BY <1>4 DEF Enqueue, AfterEnqueue, To, dbVars, cacheVars, versionVars,
     writerVars, pollVars
<1>5. ASSUME NEW w \in Writers, EnqueueDeduped(w)
      PROVE  pc[k] = "activate" /\ ~Current(k)
  BY <1>5 DEF EnqueueDeduped, AfterEnqueue, To, dbVars, cacheVars, versionVars,
     writerVars, pollVars
<1>6. ASSUME NEW w \in Writers, EnqueueFails(w)
      PROVE  pc[k] = "activate" /\ ~Current(k)
  BY <1>6 DEF EnqueueFails, AfterEnqueue, To, dbVars, cacheVars, versionVars,
     writerVars, pollVars
<1>7. ASSUME NEW w \in Writers, SyncRead(w)
      PROVE  pc[k] = "activate" /\ ~Current(k)
  BY <1>7 DEF SyncRead, To, Keep, dbVars, cacheVars, versionVars, writerVars,
     pollVars
<1>8. ASSUME NEW w \in Writers, SyncWrite(w)
      PROVE  pc[k] = "activate" /\ ~Current(k)
  BY <1>8 DEF SyncWrite, To, Keep, dbVars, cacheVars, versionVars, writerVars,
     pollVars
<1>9. ASSUME NEW w \in Writers, SyncFails(w)
      PROVE  pc[k] = "activate" /\ ~Current(k)
  BY <1>9 DEF SyncFails, To, Keep, dbVars, cacheVars, versionVars, writerVars,
     pollVars
<1>10. ASSUME NEW w \in Billers, TxInsert(w)
      PROVE  pc[k] = "activate" /\ ~Current(k)
  BY <1>10 DEF TxInsert, To, dbVars, cacheVars, versionVars, writerVars,
     pollVars
<1>11. ASSUME NEW w \in Billers, TxDeduped(w)
      PROVE  pc[k] = "activate" /\ ~Current(k)
  BY <1>11 DEF TxDeduped, To, dbVars, cacheVars, versionVars, writerVars,
     pollVars
<1>12. ASSUME NEW w \in Billers, TxCommit(w)
      PROVE  pc[k] = "activate" /\ ~Current(k)
  BY <1>12 DEF TxCommit, To, TxEnds, dbVars, cacheVars, versionVars,
     writerVars, pollVars
<1>13. ASSUME NEW w \in Billers, TxRollback(w)
      PROVE  pc[k] = "activate" /\ ~Current(k)
  BY <1>13 DEF TxRollback, To, TxEnds, dbVars, cacheVars, versionVars,
     writerVars, pollVars
<1>14. ASSUME NEW j \in Jobs, TryLockBucket(j)
      PROVE  pc[k] = "activate" /\ ~Current(k)
  BY <1>14 DEF TryLockBucket, To, MarkSeen, dbVars, cacheVars, versionVars,
     writerVars, pollVars
<1>15. ASSUME NEW j \in Jobs, LockTaken(j)
      PROVE  pc[k] = "activate" /\ ~Current(k)
  BY <1>15 DEF LockTaken, To, MarkSeen, Return, dbVars, cacheVars, versionVars,
     writerVars, pollVars
<1>16. ASSUME NEW j \in Jobs, Load(j)
      PROVE  pc[k] = "activate" /\ ~Current(k)
  BY <1>16 DEF Load, To, Keep, dbVars, cacheVars, versionVars, writerVars,
     pollVars
<1>17. ASSUME NEW j \in Jobs, Incr(j)
      PROVE  pc[k] = "activate" /\ ~Current(k)
  BY <1>17 DEF Incr, To, dbVars, cacheVars, versionVars, writerVars, pollVars
<1>18. ASSUME NEW j \in Jobs, Activate(j)
      PROVE  pc[k] = "activate" /\ ~Current(k)
  BY <1>18
<1>19. ASSUME NEW j \in Jobs, UnlockBucket(j)
      PROVE  pc[k] = "activate" /\ ~Current(k)
  BY <1>19 DEF UnlockBucket, To, Return, dbVars, cacheVars, versionVars,
     writerVars, pollVars
<1>20. ASSUME NEW j \in Jobs, JobFails(j)
      PROVE  pc[k] = "activate" /\ ~Current(k)
  BY <1>20 DEF JobFails, To, Keep, ForgetBatch, WriteAccounts, dbVars,
     cacheVars, versionVars, writerVars, pollVars
<1>21. ASSUME NEW p \in Pollers, Poll(p)
      PROVE  pc[k] = "activate" /\ ~Current(k)
  BY <1>21 DEF Poll, To, dbVars, cacheVars, versionVars, writerVars, pollVars
<1>22. ASSUME NEW p \in Pollers, Handle(p)
      PROVE  pc[k] = "activate" /\ ~Current(k)
  BY <1>22 DEF Handle, To, Return, dbVars, cacheVars, versionVars, writerVars,
     pollVars
<1>23. ASSUME NEW p \in Pollers, ReadAccount(p)
      PROVE  pc[k] = "activate" /\ ~Current(k)
  BY <1>23 DEF ReadAccount, To, Keep, dbVars, cacheVars, versionVars,
     writerVars, pollVars
<1>24. ASSUME NEW p \in Pollers, SetAccount(p)
      PROVE  pc[k] = "activate" /\ ~Current(k)
  BY <1>24 DEF SetAccount, To, Keep, Return, SetEntry, dbVars, cacheVars,
     versionVars, writerVars, pollVars
<1>25. ASSUME NEW p \in Pollers, SetOutboxWatermark(p)
      PROVE  pc[k] = "activate" /\ ~Current(k)
  BY <1>25 DEF SetOutboxWatermark, To, ForgetBatch, dbVars, cacheVars,
     versionVars, writerVars, pollVars
<1>26. ASSUME NEW j \in Rebuilders, StartRebuild(j)
      PROVE  pc[k] = "activate" /\ ~Current(k)
  BY <1>26 DEF StartRebuild, To, dbVars, cacheVars, versionVars, writerVars,
     pollVars
<1>27. ASSUME NEW j \in Readers, Fallback(j)
      PROVE  pc[k] = "activate" /\ ~Current(k)
  BY <1>27 DEF Fallback, To, dbVars, cacheVars, versionVars, writerVars,
     pollVars
<1>28. ASSUME Unannounced
      PROVE  pc[k] = "activate" /\ ~Current(k)
  BY <1>28 DEF Unannounced, dbVars, cacheVars, versionVars, writerVars,
     pollVars
<1>29. ASSUME LockExpires
      PROVE  pc[k] = "activate" /\ ~Current(k)
  BY <1>29 DEF LockExpires, dbVars, cacheVars, versionVars, writerVars,
     pollVars
<1>30. ASSUME LockLapses
      PROVE  pc[k] = "activate" /\ ~Current(k)
  BY <1>30 DEF LockLapses, dbVars, cacheVars, versionVars, writerVars, pollVars
<1>31. ASSUME UNCHANGED vars
      PROVE  pc[k] = "activate" /\ ~Current(k)
  BY <1>31 DEF vars, dbVars, cacheVars, versionVars, writerVars, pollVars
<1> QED
  BY <1>1, <1>2, <1>3, <1>4, <1>5, <1>6, <1>7, <1>8, <1>9, <1>10, <1>11, <1>12,
     <1>13, <1>14, <1>15, <1>16, <1>17, <1>18, <1>19, <1>20, <1>21, <1>22,
     <1>23, <1>24, <1>25, <1>26, <1>27, <1>28, <1>29, <1>30, <1>31 DEF Next,
     WriterStep, TxStep, JobStep, PollStep

(* Who writes the snapshot, the watermark and the row.                     *)
LEMMA SnapStays ==
  ASSUME [Next]_vars, \A j \in Jobs : ~Activate(j)
  PROVE  snap' = snap
  BY DEF Next, WriterStep, TxStep, JobStep, PollStep, vars, dbVars, cacheVars,
     Change, Delete, DeleteEntry, Enqueue, EnqueueDeduped, EnqueueFails,
     SyncRead, SyncWrite, SyncFails, TxInsert, TxDeduped, TxCommit, TxRollback,
     TryLockBucket, LockTaken, Load, Incr, Activate, UnlockBucket, JobFails,
     Poll, Handle, ReadAccount, SetAccount, SetOutboxWatermark, StartRebuild,
     Fallback, Unannounced, LockExpires, LockLapses

(* Only SetOutboxWatermark writes the watermark.                           *)
LEMMA WatermarkStays ==
  ASSUME [Next]_vars, \A p \in Pollers : ~SetOutboxWatermark(p)
  PROVE  watermark' = watermark
  BY DEF Next, WriterStep, TxStep, JobStep, PollStep, vars, dbVars, cacheVars,
     Change, Delete, DeleteEntry, Enqueue, EnqueueDeduped, EnqueueFails,
     SyncRead, SyncWrite, SyncFails, TxInsert, TxDeduped, TxCommit, TxRollback,
     TryLockBucket, LockTaken, Load, Incr, Activate, UnlockBucket, JobFails,
     Poll, Handle, ReadAccount, SetAccount, SetOutboxWatermark, StartRebuild,
     Fallback, Unannounced, LockExpires, LockLapses

(* Only a change or a commit writes the row.                               *)
LEMMA RowStays ==
  ASSUME [Next]_vars, \A w \in Writers, k \in Kinds \ {"used"} : ~Change(w, k),
         \A w \in Writers : ~Delete(w), ~Unannounced, \A w \in Billers : ~TxCommit(w)
  PROVE  row' = row
  BY DEF Next, WriterStep, TxStep, JobStep, PollStep, vars, dbVars, cacheVars,
     Change, Delete, DeleteEntry, Enqueue, EnqueueDeduped, EnqueueFails,
     SyncRead, SyncWrite, SyncFails, TxInsert, TxDeduped, TxCommit, TxRollback,
     TryLockBucket, LockTaken, Load, Incr, Activate, UnlockBucket, JobFails,
     Poll, Handle, ReadAccount, SetAccount, SetOutboxWatermark, StartRebuild,
     Fallback, Unannounced, LockExpires, LockLapses

(* Nothing is excused but by an activation.                                *)
LEMMA ExcuseStays ==
  ASSUME [Next]_vars, ~excuse', \A j \in Jobs : ~Activate(j)
  PROVE  ~excuse
  BY Zenon DEF Next, WriterStep, TxStep, JobStep, PollStep, vars, Blame,
     Change, Delete, DeleteEntry, Enqueue, EnqueueDeduped, EnqueueFails,
     SyncRead, SyncWrite, SyncFails, TxInsert, TxDeduped, TxCommit, TxRollback,
     TryLockBucket, LockTaken, Load, Incr, Activate, UnlockBucket, JobFails,
     Poll, Handle, ReadAccount, SetAccount, SetOutboxWatermark, StartRebuild,
     Fallback, Unannounced, LockExpires, LockLapses

(***************************************************************************)
(* A change is announced, carried or excused                               *)
(***************************************************************************)
(* A version whose snapshot gives no outdated answer.                      *)
Fresh(v) == v \in {None, row} \cup EmptyVersions

(* An event that is yet to be read for, or yet to be written.              *)
Open(i) == outbox[i].kind # "used" /\ ~Spent(i)

(* The change will be announced, or its event is open.                     *)
Promised ==
    \/ \E w \in Writers : pc[w] \in {"delete", "enqueue"} /\ kind[w] # "used"
    \/ \E i \in Visible : Open(i)

(* p has read the present row for an event that no other poller has spent: *)
(* if p fails, the event is open again.                                    *)
Carries(p) ==
    /\ InFlight(p) /\ val[p] = row
    /\ \E i \in Visible :
         /\ outbox[i].kind # "used" /\ i > watermark
         /\ \A q \in Pollers \ {p} : ~SpentBy(q, i)

(* Loads in flight have read the same version.                             *)
SameLoads == \A j, k \in Jobs : InFlight(j) /\ InFlight(k) => val[j] = val[k]

(* A version overtaken by another has nothing newer to add.                *)
LateLoads == \A j \in Jobs : pc[j] = "activate" /\ ~Current(j) => snap = val[j]

(* A load that is outdated has an event to follow it.                      *)
LoadsFresh == \A j \in Jobs : InFlight(j) => Fresh(val[j]) \/ Promised

(* So has the snapshot, or a poller is about to store the row.             *)
SnapFresh == Fresh(snap) \/ Promised \/ \E p \in Pollers : Carries(p)

(* Together.                                                               *)
Settled == SameLoads /\ LateLoads /\ LoadsFresh /\ SnapFresh

(* What is kept as long as nothing needs an excuse.                        *)
FreshInv == ~excuse => Settled

(* The watermark does not pass an event that its poller has not spent.     *)
LEMMA AboveWatermark ==
  ASSUME Types, [Next]_vars, NEW i \in Visible, i > watermark,
         \A q \in Pollers : SetOutboxWatermark(q) => ~SpentBy(q, i)
  PROVE  i > watermark'
<1>1. CASE \A q \in Pollers : ~SetOutboxWatermark(q)
  BY <1>1, WatermarkStays
<1>2. ASSUME NEW q \in Pollers, SetOutboxWatermark(q) PROVE i > watermark'
  <2>1. watermark' = listed[q] /\ pc[q] = "next" /\ batch[q] = {}
    BY <1>2 DEF SetOutboxWatermark
  <2>2. i \in Nat /\ listed[q] \in Nat
    BY LenProperties DEF Types, OutboxOK, PollOK, Visible
  <2>3. ~(i <= listed[q])
    BY <1>2, <2>1 DEF SpentBy
  <2> QED
    BY <2>1, <2>2, <2>3
<1> QED
  BY <1>1, <1>2

(* An open event stays open until a poller reads for it.                   *)
LEMMA OpenStays ==
  ASSUME Types, [Next]_vars, NEW i \in Visible, Open(i),
         \A q \in Pollers : ~Load(q) /\ ~LeavesOut(q)
  PROVE  i \in Visible' /\ Open(i)'
<1>1. Kept
  BY KeptStep DEF Types
<1>2. i \in Visible' /\ outbox'[i].kind = outbox[i].kind
  BY <1>1, LenProperties DEF Kept, Types, OutboxOK, Visible
<1>3. i \in Nat /\ watermark \in Nat
  BY LenProperties DEF Types, OutboxOK, Visible
<1>4. i > watermark /\ \A q \in Pollers : ~SpentBy(q, i)
  BY <1>3 DEF Open, Spent
<1>5. i > watermark'
  BY <1>4, AboveWatermark
<1>6. ASSUME NEW q \in Pollers PROVE ~SpentBy(q, i)'
  BY <1>4, NotSpent DEF Open
<1>7. watermark' \in Nat
  BY TypesStep, LenProperties DEF Types, OutboxOK
<1>8. ~(i <= watermark')
  BY <1>3, <1>5, <1>7
<1> QED
  BY <1>2, <1>6, <1>8 DEF Open, Spent

(* Where a writer or a billing transaction steps, pollers do not.          *)
LEMMA WritersStep ==
  ASSUME Types,
         \/ \E w \in Writers : Enqueue(w) \/ EnqueueDeduped(w) \/ EnqueueFails(w)
         \/ \E w \in Billers : TxCommit(w),
         NEW q \in Pollers
  PROVE  Still(q) /\ watermark' = watermark
  BY SnapshotAssumption DEF Types, PcOK, Actors, Jobs, Enqueue, EnqueueDeduped,
     EnqueueFails, AfterEnqueue, TxCommit, TxEnds, To, pollVars, Still

(* An event that becomes visible and is not overtaken is open.             *)
LEMMA NewEventOpen ==
  ASSUME Types, NEW i \in Nat, i \in Visible', outbox'[i].kind # "used",
         i \notin Visible, i > watermark, watermark' = watermark,
         \A q \in Pollers : Still(q),
         \A q \in Pollers : pc[q] # "idle" => i >= listed[q]
  PROVE  Open(i)'
<1>1. watermark \in Nat
  BY LenProperties DEF Types, OutboxOK
<1>2. ASSUME NEW q \in Pollers PROVE ~SpentBy(q, i)'
  <2>1. i # listed[q] \/ i = 0
    BY DEF Types, PollOK
  <2>2. i # 0
    BY <1>1
  <2>3. listed[q] \in Nat
    BY DEF Types, PollOK
  <2>4. pc[q] # "idle" => ~(i <= listed[q])
    BY <2>1, <2>2, <2>3
  <2>5. pc'[q] = pc[q] /\ listed'[q] = listed[q]
    BY DEF Still
  <2> QED
    BY <2>4, <2>5 DEF SpentBy
<1>3. ~(i <= watermark')
  BY <1>1
<1> QED
  BY <1>2, <1>3 DEF Open, Spent

(* So does the one just written.                                           *)
LEMMA EnqueuedOpen ==
  ASSUME Types, NEW w \in Writers, Enqueue(w), kind[w] # "used"
  PROVE  Promised'
<1>3. Len(outbox) \in Nat /\ watermark \in 0..Len(outbox)
  BY LenProperties DEF Types, OutboxOK
<1>9. PICK i \in Nat : i = Len(outbox) + 1
  BY <1>3
<1>1. [kind |-> kind[w], state |-> "committed"] \in Entry
  BY DEF Types, ValuesOK, Entry, EventKinds
<1>2. /\ outbox' \in Seq(Entry) /\ Len(outbox') = i
      /\ outbox'[i] = [kind |-> kind[w], state |-> "committed"]
  BY <1>1, <1>9, OutboxAppended DEF Enqueue, Types, OutboxOK, Kept
<1>4. i \in Visible' /\ outbox'[i].kind # "used"
  BY <1>2, <1>3, <1>9, LenProperties DEF Visible
<1>5. i \notin Visible /\ i > watermark
  BY <1>3, <1>9, LenProperties DEF Visible, Types, OutboxOK
<1>6. \A q \in Pollers : i >= listed[q]
  BY <1>3, <1>9, LenProperties DEF Visible, Types, OutboxOK, PollOK
<1>7. watermark' = watermark
  BY DEF Enqueue
<1>8. \A q \in Pollers : Still(q)
  BY WritersStep
<1>10. Open(i)'
  BY <1>4, <1>5, <1>6, <1>7, <1>8, <1>9, NewEventOpen
<1> QED
  BY <1>4, <1>10 DEF Promised

(* Open events are not affected by the steps of writers.                   *)
LEMMA OpenKept ==
  ASSUME Types, Kept, NEW i \in Visible, Open(i), watermark' = watermark,
         \A q \in Pollers : Still(q)
  PROVE  Promised'
<1>1. outbox'[i].kind = outbox[i].kind /\ i \in Visible'
  BY LenProperties DEF Kept, Types, OutboxOK, Visible
<1>2. \A q \in Pollers : SpentBy(q, i)' <=> SpentBy(q, i)
  BY SpentStill DEF Types
<1>3. Spent(i)' <=> Spent(i)
  BY <1>2 DEF Spent
<1> QED
  BY <1>1, <1>3 DEF Promised, Open

(* A writer leaves "enqueue" by writing its event, by finding one like it, *)
(* or by failing.                                                          *)
LEMMA WriterStays ==
  ASSUME Types, [Next]_vars, NEW v \in Writers, pc[v] \in {"delete", "enqueue"},
         ~Enqueue(v), ~EnqueueDeduped(v), ~EnqueueFails(v)
  PROVE  pc'[v] \in {"delete", "enqueue"} /\ kind'[v] = kind[v]
<1> USE SnapshotAssumption DEF Types, PcOK, ValuesOK, Actors, Jobs
<1>1. ASSUME NEW w \in Writers, NEW k \in Kinds, Change(w, k)
      PROVE  pc'[v] \in {"delete", "enqueue"} /\ kind'[v] = kind[v]
  BY <1>1 DEF Change, To, dbVars, cacheVars, versionVars, writerVars, pollVars
<1>2. ASSUME NEW w \in Writers, Delete(w)
      PROVE  pc'[v] \in {"delete", "enqueue"} /\ kind'[v] = kind[v]
  BY <1>2 DEF Delete, To, dbVars, cacheVars, versionVars, writerVars, pollVars
<1>3. ASSUME NEW w \in Writers, DeleteEntry(w)
      PROVE  pc'[v] \in {"delete", "enqueue"} /\ kind'[v] = kind[v]
  BY <1>3 DEF DeleteEntry, To, dbVars, cacheVars, versionVars, writerVars,
     pollVars
<1>4. ASSUME NEW w \in Writers, Enqueue(w)
      PROVE  pc'[v] \in {"delete", "enqueue"} /\ kind'[v] = kind[v]
  <2>1. w # v
    BY <1>4
  <2> QED
    BY <1>4, <2>1 DEF Enqueue, AfterEnqueue, To, writerVars
<1>5. ASSUME NEW w \in Writers, EnqueueDeduped(w)
      PROVE  pc'[v] \in {"delete", "enqueue"} /\ kind'[v] = kind[v]
  <2>1. w # v
    BY <1>5
  <2> QED
    BY <1>5, <2>1 DEF EnqueueDeduped, AfterEnqueue, To, writerVars
<1>6. ASSUME NEW w \in Writers, EnqueueFails(w)
      PROVE  pc'[v] \in {"delete", "enqueue"} /\ kind'[v] = kind[v]
  <2>1. w # v
    BY <1>6
  <2> QED
    BY <1>6, <2>1 DEF EnqueueFails, AfterEnqueue, To, writerVars
<1>7. ASSUME NEW w \in Writers, SyncRead(w)
      PROVE  pc'[v] \in {"delete", "enqueue"} /\ kind'[v] = kind[v]
  BY <1>7 DEF SyncRead, To, Keep, dbVars, cacheVars, versionVars, writerVars,
     pollVars
<1>8. ASSUME NEW w \in Writers, SyncWrite(w)
      PROVE  pc'[v] \in {"delete", "enqueue"} /\ kind'[v] = kind[v]
  BY <1>8 DEF SyncWrite, To, Keep, dbVars, cacheVars, versionVars, writerVars,
     pollVars
<1>9. ASSUME NEW w \in Writers, SyncFails(w)
      PROVE  pc'[v] \in {"delete", "enqueue"} /\ kind'[v] = kind[v]
  BY <1>9 DEF SyncFails, To, Keep, dbVars, cacheVars, versionVars, writerVars,
     pollVars
<1>10. ASSUME NEW w \in Billers, TxInsert(w)
      PROVE  pc'[v] \in {"delete", "enqueue"} /\ kind'[v] = kind[v]
  BY <1>10 DEF TxInsert, To, dbVars, cacheVars, versionVars, writerVars,
     pollVars
<1>11. ASSUME NEW w \in Billers, TxDeduped(w)
      PROVE  pc'[v] \in {"delete", "enqueue"} /\ kind'[v] = kind[v]
  BY <1>11 DEF TxDeduped, To, dbVars, cacheVars, versionVars, writerVars,
     pollVars
<1>12. ASSUME NEW w \in Billers, TxCommit(w)
      PROVE  pc'[v] \in {"delete", "enqueue"} /\ kind'[v] = kind[v]
  BY <1>12 DEF TxCommit, To, TxEnds, dbVars, cacheVars, versionVars,
     writerVars, pollVars
<1>13. ASSUME NEW w \in Billers, TxRollback(w)
      PROVE  pc'[v] \in {"delete", "enqueue"} /\ kind'[v] = kind[v]
  BY <1>13 DEF TxRollback, To, TxEnds, dbVars, cacheVars, versionVars,
     writerVars, pollVars
<1>14. ASSUME NEW j \in Jobs, TryLockBucket(j)
      PROVE  pc'[v] \in {"delete", "enqueue"} /\ kind'[v] = kind[v]
  BY <1>14 DEF TryLockBucket, To, MarkSeen, dbVars, cacheVars, versionVars,
     writerVars, pollVars
<1>15. ASSUME NEW j \in Jobs, LockTaken(j)
      PROVE  pc'[v] \in {"delete", "enqueue"} /\ kind'[v] = kind[v]
  BY <1>15 DEF LockTaken, To, MarkSeen, Return, dbVars, cacheVars, versionVars,
     writerVars, pollVars
<1>16. ASSUME NEW j \in Jobs, Load(j)
      PROVE  pc'[v] \in {"delete", "enqueue"} /\ kind'[v] = kind[v]
  BY <1>16 DEF Load, To, Keep, dbVars, cacheVars, versionVars, writerVars,
     pollVars
<1>17. ASSUME NEW j \in Jobs, Incr(j)
      PROVE  pc'[v] \in {"delete", "enqueue"} /\ kind'[v] = kind[v]
  BY <1>17 DEF Incr, To, dbVars, cacheVars, versionVars, writerVars, pollVars
<1>18. ASSUME NEW j \in Jobs, Activate(j)
      PROVE  pc'[v] \in {"delete", "enqueue"} /\ kind'[v] = kind[v]
  BY <1>18 DEF Activate, To, Keep, WriteAccounts, CountFrom, Current, dbVars,
     cacheVars, versionVars, writerVars, pollVars
<1>19. ASSUME NEW j \in Jobs, UnlockBucket(j)
      PROVE  pc'[v] \in {"delete", "enqueue"} /\ kind'[v] = kind[v]
  BY <1>19 DEF UnlockBucket, To, Return, dbVars, cacheVars, versionVars,
     writerVars, pollVars
<1>20. ASSUME NEW j \in Jobs, JobFails(j)
      PROVE  pc'[v] \in {"delete", "enqueue"} /\ kind'[v] = kind[v]
  BY <1>20 DEF JobFails, To, Keep, ForgetBatch, WriteAccounts, dbVars,
     cacheVars, versionVars, writerVars, pollVars
<1>21. ASSUME NEW p \in Pollers, Poll(p)
      PROVE  pc'[v] \in {"delete", "enqueue"} /\ kind'[v] = kind[v]
  BY <1>21 DEF Poll, To, dbVars, cacheVars, versionVars, writerVars, pollVars
<1>22. ASSUME NEW p \in Pollers, Handle(p)
      PROVE  pc'[v] \in {"delete", "enqueue"} /\ kind'[v] = kind[v]
  BY <1>22 DEF Handle, To, Return, dbVars, cacheVars, versionVars, writerVars,
     pollVars
<1>23. ASSUME NEW p \in Pollers, ReadAccount(p)
      PROVE  pc'[v] \in {"delete", "enqueue"} /\ kind'[v] = kind[v]
  BY <1>23 DEF ReadAccount, To, Keep, dbVars, cacheVars, versionVars,
     writerVars, pollVars
<1>24. ASSUME NEW p \in Pollers, SetAccount(p)
      PROVE  pc'[v] \in {"delete", "enqueue"} /\ kind'[v] = kind[v]
  BY <1>24 DEF SetAccount, To, Keep, Return, SetEntry, dbVars, cacheVars,
     versionVars, writerVars, pollVars
<1>25. ASSUME NEW p \in Pollers, SetOutboxWatermark(p)
      PROVE  pc'[v] \in {"delete", "enqueue"} /\ kind'[v] = kind[v]
  BY <1>25 DEF SetOutboxWatermark, To, ForgetBatch, dbVars, cacheVars,
     versionVars, writerVars, pollVars
<1>26. ASSUME NEW j \in Rebuilders, StartRebuild(j)
      PROVE  pc'[v] \in {"delete", "enqueue"} /\ kind'[v] = kind[v]
  BY <1>26 DEF StartRebuild, To, dbVars, cacheVars, versionVars, writerVars,
     pollVars
<1>27. ASSUME NEW j \in Readers, Fallback(j)
      PROVE  pc'[v] \in {"delete", "enqueue"} /\ kind'[v] = kind[v]
  BY <1>27 DEF Fallback, To, dbVars, cacheVars, versionVars, writerVars,
     pollVars
<1>28. ASSUME Unannounced
      PROVE  pc'[v] \in {"delete", "enqueue"} /\ kind'[v] = kind[v]
  BY <1>28 DEF Unannounced, dbVars, cacheVars, versionVars, writerVars,
     pollVars
<1>29. ASSUME LockExpires
      PROVE  pc'[v] \in {"delete", "enqueue"} /\ kind'[v] = kind[v]
  BY <1>29 DEF LockExpires, dbVars, cacheVars, versionVars, writerVars,
     pollVars
<1>30. ASSUME LockLapses
      PROVE  pc'[v] \in {"delete", "enqueue"} /\ kind'[v] = kind[v]
  BY <1>30 DEF LockLapses, dbVars, cacheVars, versionVars, writerVars, pollVars
<1>31. ASSUME UNCHANGED vars
      PROVE  pc'[v] \in {"delete", "enqueue"} /\ kind'[v] = kind[v]
  BY <1>31 DEF vars, dbVars, cacheVars, versionVars, writerVars, pollVars
<1> QED
  BY <1>1, <1>2, <1>3, <1>4, <1>5, <1>6, <1>7, <1>8, <1>9, <1>10, <1>11, <1>12,
     <1>13, <1>14, <1>15, <1>16, <1>17, <1>18, <1>19, <1>20, <1>21, <1>22,
     <1>23, <1>24, <1>25, <1>26, <1>27, <1>28, <1>29, <1>30, <1>31 DEF Next,
     WriterStep, TxStep, JobStep, PollStep

(* A promise is kept, or excused, until a poller reads.                    *)
LEMMA PromiseStays ==
  ASSUME Types, [Next]_vars, Promised, ~excuse',
         \A q \in Pollers : ~Load(q) /\ ~LeavesOut(q)
  PROVE  Promised'
<1>1. ASSUME NEW i \in Visible, Open(i) PROVE Promised'
  BY <1>1, OpenStays DEF Promised
<1>2. ASSUME NEW w \in Writers, pc[w] \in {"delete", "enqueue"}, kind[w] # "used"
      PROVE  Promised'
  <2>1. CASE Enqueue(w)
    BY <1>2, <2>1, EnqueuedOpen
  <2>2. CASE EnqueueDeduped(w)
    <3>1. PICK i \in Visible : outbox[i].kind = kind[w] /\ Blame(Spent(i))
      BY <2>2 DEF EnqueueDeduped
    <3>2. ~Spent(i)
      BY <3>1, Zenon DEF Blame
    <3>3. Open(i)
      BY <1>2, <3>1, <3>2 DEF Open
    <3> QED
      BY <1>1, <3>3
  <2>3. CASE EnqueueFails(w)
    <3>1. kind[w] = "used"
      BY <2>3, Zenon DEF EnqueueFails, Blame
    <3> QED
      BY <1>2, <3>1
  <2>4. CASE ~(Enqueue(w) \/ EnqueueDeduped(w) \/ EnqueueFails(w))
    BY <1>2, <2>4, WriterStays DEF Promised
  <2> QED
    BY <2>1, <2>2, <2>3, <2>4
<1> QED
  BY <1>1, <1>2 DEF Promised

(* A change of the row is announced, or excused.                           *)
LEMMA ChangePromised ==
  ASSUME Types, [Next]_vars, ~excuse', row' # row
  PROVE  Promised'
<1>1. ASSUME NEW w \in Writers, NEW k \in Kinds \ {"used"}, Change(w, k) PROVE Promised'
  <2>1. pc'[w] = "enqueue" /\ kind'[w] = k
    BY <1>1 DEF Change, To, Types, PcOK, ValuesOK, Actors
  <2> QED
    BY <1>1, <2>1 DEF Promised
<1>2. ASSUME NEW w \in Billers, TxCommit(w) PROVE Promised'
  <2>1. Kept
    BY KeptStep DEF Types
  <2>2. watermark' = watermark /\ \A q \in Pollers : Still(q)
    <3>1. watermark' = watermark
      BY <1>2 DEF TxCommit
    <3> QED
      BY <1>2, <3>1, WritersStep
  <2>3. CASE id[w] = 0
    <3>1. ~(\A i \in Visible : Spent(i) \/ outbox[i].kind = "used")
      BY <1>2, <2>3, Zenon DEF TxCommit, Blame
    <3>2. PICK i \in Visible : Open(i)
      BY <3>1 DEF Open
    <3> QED
      BY <2>1, <2>2, <3>2, OpenKept
  <2>4. CASE id[w] # 0
    <3>0. PICK i \in Nat : i = id[w]
      BY DEF Types, OutboxOK
    <3>1. ~Overtaken(i)
      BY <1>2, <2>4, <3>0, Zenon DEF TxCommit, Blame
    <3>2. /\ i \in 1..Len(outbox) /\ outbox[i].state = "open" /\ i \in Nat
      BY <2>4, <3>0 DEF Types, OutboxOK
    <3>3. /\ Len(outbox') = Len(outbox) /\ outbox'[i].state = "committed"
          /\ outbox' \in Seq(Entry) /\ outbox'[i].kind = outbox[i].kind
      BY <1>2, <2>4, <3>0, <3>2, OutboxEnds DEF TxCommit, TxEnds, Types, OutboxOK, Kept
    <3>4. i \in Visible' /\ i \notin Visible
      BY <3>2, <3>3, LenProperties DEF Visible
    <3>5. outbox[i].kind # "used"
      BY <2>4, <3>0 DEF Types, OutboxOK
    <3>6. i > watermark /\ \A q \in Pollers : pc[q] # "idle" => i >= listed[q]
      BY <3>1, <3>2, LenProperties DEF Overtaken, Types, OutboxOK, PollOK
    <3>7. Open(i)'
      BY <2>2, <3>2, <3>3, <3>4, <3>5, <3>6, NewEventOpen
    <3> QED
      BY <3>4, <3>7 DEF Promised
  <2> QED
    BY <2>3, <2>4
<1>3. ASSUME NEW w \in Writers, Delete(w) PROVE Promised'
  <2>1. pc'[w] = "delete" /\ kind'[w] = "account"
    BY <1>3 DEF Delete, To, Types, PcOK, ValuesOK, Actors
  <2> QED
    BY <1>3, <2>1 DEF Promised
<1>4. ~Unannounced
  BY Zenon DEF Unannounced, Blame
<1> QED
  BY <1>1, <1>2, <1>3, <1>4, RowStays

(* Without an excuse a load begins when no other is in flight: a job under *)
(* the lock has it to itself.                                              *)
LEMMA LoadAlone ==
  ASSUME Types, LockInv, NEW j \in Jobs, Load(j), ~excuse', NEW k \in Jobs \ {j}
  PROVE  ~InFlight(k)
<1> SUFFICES ASSUME InFlight(k) PROVE FALSE
  OBVIOUS
<1> DEFINE others == {i \in Jobs \ {j} : InFlight(i)}
<1>1. ~(others # {} /\ (faults > 0 \/ (others \cup {j}) \cap Readers # {}))
  BY Zenon DEF Load, Blame
<1>2. k \in others
  OBVIOUS
<1>3. ~(faults > 0) /\ j \notin Readers /\ k \notin Readers
  BY <1>1, <1>2
<1>4. faults = 0
  BY <1>3, SnapshotAssumption DEF Types, ValuesOK
<1>5. pc[j] \in Locked /\ pc[k] \in Locked
  BY DEF Load, InFlight, Locked
<1> QED
  BY <1>3, <1>4, <1>5 DEF LockInv, Jobs

(* A bucket left out needs an excuse.                                      *)
LEMMA LeftOutBlamed ==
  ASSUME NEW j, LeavesOut(j)
  PROVE  excuse'
<1>1. CASE LockTaken(j)
  BY <1>1, Zenon DEF LockTaken, Blame
<1>2. CASE SetAccount(j) /\ Event(j) # "used" /\ ~seen[j] /\ pc'[j] # "lock"
  BY <1>2, Zenon DEF SetAccount, Blame
<1> QED
  BY <1>1, <1>2 DEF LeavesOut

(* One job steps at a time.                                                *)
LEMMA StoreIsNotLoad ==
  ASSUME Types, NEW j \in Jobs, Activate(j), NEW k \in Jobs
  PROVE  ~Load(k)
<1> SUFFICES ASSUME Load(k) PROVE FALSE
  OBVIOUS
<1>1. pc[j] = "activate" /\ pc'[j] \in {"idle", "unlock"}
  BY DEF Activate, To, Types, PcOK, Actors
<1>2. pc'[j] = pc[j]
  BY <1>1 DEF Load, To, Types, PcOK, Actors
<1> QED
  BY <1>1, <1>2

(* A poller that carries the row does so until it has stored it or failed. *)
LEMMA CarriesStays ==
  ASSUME Types, [Next]_vars, NEW p \in Pollers, Carries(p), row' = row,
         ~Activate(p), ~JobFails(p), \A q \in Pollers : ~Load(q) /\ ~LeavesOut(q)
  PROVE  Carries(p)'
<1>1. InFlight(p)' /\ val'[p] = val[p]
  BY LoadStays DEF Carries, Jobs
<1>2. PICK i \in Visible : /\ outbox[i].kind # "used" /\ i > watermark
                           /\ \A q \in Pollers \ {p} : ~SpentBy(q, i)
  BY DEF Carries
<1>3. Kept
  BY KeptStep DEF Types
<1>4. i \in Visible' /\ outbox'[i].kind = outbox[i].kind
  BY <1>3, LenProperties DEF Kept, Types, OutboxOK, Visible
<1>5. ~SetOutboxWatermark(p)
  BY DEF Carries, InFlight, SetOutboxWatermark
<1>6. i > watermark'
  BY <1>2, <1>5, AboveWatermark
<1>7. ASSUME NEW q \in Pollers \ {p} PROVE ~SpentBy(q, i)'
  BY <1>2, NotSpent
<1> QED
  BY <1>1, <1>2, <1>4, <1>6, <1>7 DEF Carries

(* If it fails, its event is open again: the watermark is below it.        *)
LEMMA FailedOpens ==
  ASSUME Types, [Next]_vars, NEW p \in Pollers, Carries(p), JobFails(p)
  PROVE  Promised'
<1>1. PICK i \in Visible : /\ outbox[i].kind # "used" /\ i > watermark
                           /\ \A q \in Pollers \ {p} : ~SpentBy(q, i)
  BY DEF Carries
<1>2. Kept
  BY KeptStep DEF Types
<1>3. i \in Visible' /\ outbox'[i].kind = outbox[i].kind
  BY <1>2, LenProperties DEF Kept, Types, OutboxOK, Visible
<1>4. watermark' = watermark /\ pc'[p] = "idle"
  BY DEF JobFails, To, Types, PcOK, Actors, Jobs
<1>5. ASSUME NEW q \in Pollers \ {p} PROVE ~SpentBy(q, i)'
  <2>1. Still(q)
    BY DEF JobFails, ForgetBatch, To, Still, Types, PcOK, PollOK, Actors, Jobs
  <2> QED
    BY <1>1, <1>2, <2>1, SpentStill DEF Types
<1>6. ~SpentBy(p, i)'
  BY <1>4 DEF SpentBy
<1>7. ~(i <= watermark')
  BY <1>1, <1>4, LenProperties DEF Types, OutboxOK, Visible
<1>8. Open(i)'
  BY <1>1, <1>3, <1>5, <1>6, <1>7 DEF Open, Spent
<1> QED
  BY <1>3, <1>8 DEF Promised

(* If it was a poller that loaded, it carries the event it spent.          *)
LEMMA LoadCarries ==
  ASSUME Types, [Next]_vars, NEW j \in Jobs, Load(j), Promised
  PROVE  Promised' \/ \E p \in Pollers : Carries(p)'
<1>1. ASSUME NEW w \in Writers, pc[w] \in {"delete", "enqueue"}, kind[w] # "used"
      PROVE  Promised'
  <2>1. pc'[w] = pc[w] /\ kind'[w] = kind[w]
    BY <1>1, SnapshotAssumption DEF Load, To, writerVars, Types, PcOK, Actors, Jobs
  <2> QED
    BY <1>1, <2>1 DEF Promised
<1>2. ASSUME NEW i \in Visible, Open(i)
      PROVE  Promised' \/ \E p \in Pollers : Carries(p)'
  <2>1. Kept
    BY KeptStep DEF Types
  <2>2. i \in Visible' /\ outbox'[i].kind # "used" /\ watermark' = watermark
    <3>1. i \in Visible' /\ outbox'[i].kind = outbox[i].kind
      BY <2>1, LenProperties DEF Kept, Types, OutboxOK, Visible
    <3> QED
      BY <1>2, <3>1 DEF Load, Open
  <2>3. i \in Nat /\ watermark \in Nat
    BY LenProperties DEF Types, OutboxOK, Visible
  <2>4. i > watermark' /\ ~(i <= watermark')
    BY <1>2, <2>2, <2>3 DEF Open, Spent
  <2>5. ASSUME NEW q \in Pollers \ {j} PROVE ~SpentBy(q, i)'
    <3>1. Still(q)
      BY DEF Load, To, pollVars, Still, Types, PcOK, Actors, Jobs
    <3>2. ~SpentBy(q, i)
      BY <1>2 DEF Open, Spent
    <3> QED
      BY <2>1, <3>1, <3>2, SpentStill DEF Types
  <2>6. CASE j \in Pollers
    <3>1. InFlight(j)' /\ val'[j] = row'
      BY DEF Load, Keep, To, InFlight, dbVars, Types, PcOK, ValuesOK, Actors
    <3> QED
      BY <2>2, <2>4, <2>5, <2>6, <3>1 DEF Carries
  <2>7. CASE j \notin Pollers
    <3>1. Open(i)'
      BY <2>2, <2>4, <2>5, <2>7 DEF Open, Spent
    <3> QED
      BY <2>2, <3>1 DEF Promised
  <2> QED
    BY <2>6, <2>7
<1> QED
  BY <1>1, <1>2 DEF Promised

(* A store: the snapshot becomes what every load in flight has read.       *)
LEMMA FreshActivate ==
  ASSUME Types, FreshInv, [Next]_vars, ~excuse', NEW j \in Jobs, Activate(j)
  PROVE  Settled'
<1>1. /\ row' = row /\ pc[j] = "activate"
      /\ snap' = IF Current(j) THEN val[j] ELSE snap
  BY DEF Activate, dbVars
<1>2. InFlight(j) /\ ~InFlight(j)'
  BY DEF Activate, To, InFlight, Types, PcOK, Actors
<1>3. ASSUME NEW k \in Jobs, InFlight(k)'
      PROVE  k # j /\ InFlight(k) /\ val'[k] = val[k]
  BY <1>2, <1>3, NewLoads, StoreIsNotLoad
<1>4. \A k \in Jobs : (pc[k] = "activate")' => InFlight(k)'
  BY DEF InFlight
<1>5. \A v : Fresh(v)' <=> Fresh(v)
  BY <1>1 DEF Fresh
<1>6. CASE excuse
  <2>1. snap' = row /\ \A k \in Jobs \ {j} : InFlight(k) => val[k] = row
    BY <1>6, Zenon DEF Activate
  <2>2. Fresh(row)
    BY DEF Fresh
  <2> QED
    BY <1>1, <1>3, <1>4, <1>5, <2>1, <2>2
    DEF Settled, SameLoads, LateLoads, LoadsFresh, SnapFresh
<1>7. CASE ~excuse
  <2>1. SameLoads /\ LateLoads /\ LoadsFresh
    BY <1>7 DEF FreshInv, Settled
  <2>2. snap' = val[j]
    BY <1>1, <2>1 DEF LateLoads
  <2>3. Promised => Promised'
    BY PromiseStays, StoreIsNotLoad, LeftOutBlamed DEF Jobs
  <2>4. SameLoads'
    BY <1>3, <2>1 DEF SameLoads
  <2>5. LateLoads'
    BY <1>2, <1>3, <1>4, <2>1, <2>2 DEF SameLoads, LateLoads
  <2>6. LoadsFresh'
    BY <1>3, <1>5, <2>1, <2>3 DEF LoadsFresh
  <2>7. SnapFresh'
    BY <1>2, <1>5, <2>1, <2>2, <2>3 DEF LoadsFresh, SnapFresh
  <2> QED
    BY <2>4, <2>5, <2>6, <2>7 DEF Settled
<1> QED
  BY <1>6, <1>7

(* A load: it is the only one, and it has read the row.                    *)
LEMMA FreshLoad ==
  ASSUME Types, LockInv, FreshInv, [Next]_vars, ~excuse', NEW j \in Jobs, Load(j)
  PROVE  Settled'
<1>1. row' = row /\ snap' = snap /\ val'[j] = row /\ pc'[j] = "incr"
  BY DEF Load, dbVars, cacheVars, Keep, To, Types, PcOK, ValuesOK, Actors
<1>2. \A k \in Jobs \ {j} : ~InFlight(k)
  BY LoadAlone
<1>3. \A k \in Jobs \ {j} : pc'[k] = pc[k]
  BY DEF Load, To, Types, PcOK, Actors
<1>4. \A k \in Jobs : InFlight(k)' => k = j
  BY <1>2, <1>3 DEF InFlight
<1>5. \A k \in Jobs : (pc[k] = "activate")' => FALSE
  BY <1>1, <1>4 DEF InFlight
<1>6. \A v : Fresh(v)' <=> Fresh(v)
  BY <1>1 DEF Fresh
<1>7. ~excuse
  BY ExcuseStays, StoreIsNotLoad
<1>8. SnapFresh
  BY <1>7 DEF FreshInv, Settled
<1>9. ~(\E p \in Pollers : Carries(p))
  <2> SUFFICES ASSUME NEW p \in Pollers, InFlight(p) PROVE FALSE
    BY DEF Carries
  <2>1. p = j
    BY <1>2 DEF Jobs
  <2> QED
    BY <2>1 DEF Load, InFlight
<1>10. SnapFresh'
  BY <1>1, <1>6, <1>8, <1>9, LoadCarries DEF SnapFresh
<1>11. SameLoads' /\ LateLoads' /\ LoadsFresh'
  BY <1>1, <1>4, <1>5 DEF SameLoads, LateLoads, LoadsFresh, Fresh
<1> QED
  BY <1>10, <1>11 DEF Settled

(* Any other step: loads and snapshot stay, and a change is promised.      *)
LEMMA FreshOther ==
  ASSUME Types, FreshInv, [Next]_vars, ~excuse',
         \A j \in Jobs : ~Activate(j) /\ ~Load(j)
  PROVE  Settled'
<1>1. SameLoads /\ LateLoads /\ LoadsFresh /\ SnapFresh
  BY ExcuseStays DEF FreshInv, Settled
<1>2. snap' = snap
  BY SnapStays
<1>3. \A k \in Jobs : InFlight(k)' => InFlight(k) /\ val'[k] = val[k]
  BY NewLoads
<1>4. \A q \in Pollers : ~Activate(q) /\ ~Load(q) /\ ~LeavesOut(q)
  BY LeftOutBlamed DEF Jobs
<1>5. SameLoads'
  BY <1>1, <1>3 DEF SameLoads
<1>6. LateLoads'
  <2> SUFFICES ASSUME NEW k \in Jobs, pc'[k] = "activate", ~Current(k)'
               PROVE  snap' = val'[k]
    BY DEF LateLoads
  <2>1. pc[k] = "activate" /\ ~Current(k)
    BY LateStays
  <2> QED
    BY <1>1, <1>2, <1>3, <2>1 DEF LateLoads, InFlight
<1>7. CASE row' # row
  BY <1>5, <1>6, <1>7, ChangePromised DEF Settled, LoadsFresh, SnapFresh
<1>8. CASE row' = row
  <2>1. \A v : Fresh(v)' <=> Fresh(v)
    BY <1>8 DEF Fresh
  <2>2. Promised => Promised'
    BY <1>4, PromiseStays
  <2>3. LoadsFresh'
    BY <1>1, <1>3, <2>1, <2>2 DEF LoadsFresh
  <2>4. ASSUME NEW p \in Pollers, Carries(p) PROVE Promised' \/ Carries(p)'
    BY <1>4, <1>8, <2>4, CarriesStays, FailedOpens
  <2>5. SnapFresh'
    BY <1>1, <1>2, <2>1, <2>2, <2>4 DEF SnapFresh
  <2> QED
    BY <1>5, <1>6, <2>3, <2>5 DEF Settled
<1> QED
  BY <1>7, <1>8

(* Every step keeps it.                                                    *)
LEMMA FreshStep == Types /\ LockInv /\ FreshInv /\ [Next]_vars => FreshInv'
<1> SUFFICES ASSUME Types, LockInv, FreshInv, [Next]_vars, ~excuse' PROVE Settled'
  BY DEF FreshInv
<1>1. CASE \E j \in Jobs : Activate(j)
  BY <1>1, FreshActivate
<1>2. CASE \E j \in Jobs : Load(j)
  BY <1>2, FreshLoad
<1>3. CASE \A j \in Jobs : ~Activate(j) /\ ~Load(j)
  BY <1>3, FreshOther
<1> QED
  BY <1>1, <1>2, <1>3

(* What GetSnapshot answers is the database's list, or the change is on    *)
(* its way, or one of the known reasons excuses it, for every number of    *)
(* writers, pollers, rebuilds and readers, and every size of a batch.      *)
THEOREM StaleAnswerIsExplained == Spec => []StaleExplained
<1>1. Init => Types /\ LockInv /\ FreshInv
  <2> SUFFICES ASSUME Init PROVE LockInv /\ FreshInv
    BY TypesInit
  <2>1. \A j \in Jobs : pc[j] = "idle"
    BY DEF Init
  <2>2. snap = None
    BY DEF Init
  <2> QED
    BY <2>1, <2>2
    DEF LockInv, Locked, Jobs, FreshInv, Settled, SameLoads, LateLoads,
        LoadsFresh, SnapFresh, Fresh, InFlight
<1>2. Types /\ LockInv /\ FreshInv /\ [Next]_vars => (Types /\ LockInv /\ FreshInv)'
  BY TypesStep, LockStep, FreshStep
<1>3. Types /\ FreshInv => StaleExplained
  <2> SUFFICES ASSUME Types, Settled PROVE Answer \in {None, row} \/ Announced
    BY DEF FreshInv, StaleExplained
  <2>1. CASE Fresh(snap)
    BY <2>1 DEF Fresh, Answer
  <2>2. CASE Promised
    BY <2>2 DEF Promised, Open, Announced
  <2>3. ASSUME NEW p \in Pollers, Carries(p) PROVE Answer \in {None, row} \/ Announced
    <3>1. CASE pc[p] = "incr" \/ Current(p)
      BY <2>3, <3>1 DEF Carries, Announced, Jobs
    <3>2. CASE pc[p] = "activate" /\ ~Current(p)
      <4>1. snap = row
        BY <2>3, <3>2 DEF Settled, LateLoads, Carries, Jobs
      <4> QED
        BY <4>1 DEF Answer
    <3> QED
      BY <2>3, <3>1, <3>2 DEF Carries, InFlight
  <2> QED
    BY <2>1, <2>2, <2>3 DEF Settled, SnapFresh
<1> QED
  BY <1>1, <1>2, <1>3, PTL DEF Spec
=============================================================================
