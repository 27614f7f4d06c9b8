------------------------- MODULE ConcurrencySlotsProofs ---------------------
(* Proofs about ConcurrencySlots, for any requests, processes and limits.  *)
EXTENDS ConcurrencySlots, FiniteSetTheorems, TLAPS

(* Sets of requests are finite, so their sizes are numbers.                *)
LEMMA RequestSets ==
  ASSUME NEW S \in SUBSET Requests
  PROVE  IsFiniteSet(S) /\ Cardinality(S) \in Nat
  BY SlotsAssumption, FS_Subset, FS_CardinalityType

(* A subset of a set of requests is no larger.                             *)
LEMMA SubsetSize ==
  ASSUME NEW S \in SUBSET Requests, NEW Q \in SUBSET S
  PROVE  Cardinality(Q) <= Cardinality(S)
  BY RequestSets, FS_Subset

(* The initial state satisfies every invariant.                            *)
LEMMA InitialInv ==
  Init => TypeOK /\ RequestInv /\ SlotInv /\ NoSlotLeak /\ WaitCountExact
  BY SlotsAssumption, FS_EmptySet
     DEF Init, TypeOK, RequestInv, SlotInv, NoSlotLeak, WaitCountExact,
         Unexpired, Ended, Holding

(* Every step keeps the types (TypeOK).                                    *)
LEMMA TypeOKStep == TypeOK /\ [Next]_vars => TypeOK'
  <1> SUFFICES ASSUME TypeOK, [Next]_vars
               PROVE  TypeOK'
    OBVIOUS
  <1> USE SlotsAssumption DEF To, Incident, history
  <1>1. ASSUME NEW r \in Requests, NEW p \in Processes, Arrive(r, p) PROVE TypeOK'
    BY <1>1 DEF Arrive, redis, TypeOK, Ended, Holding
  <1>2. ASSUME NEW r \in Requests, NEW p \in Processes, QueueFull(r, p) PROVE TypeOK'
    BY <1>2 DEF QueueFull, redis, TypeOK, Ended, Holding
  <1>3. ASSUME NEW r \in Requests, NEW p \in Processes, ArriveUncounted(r, p) PROVE TypeOK'
    BY <1>3 DEF ArriveUncounted, redis, TypeOK, Ended, Holding
  <1>4. ASSUME NEW r \in Requests, Acquire(r) PROVE TypeOK'
    BY <1>4 DEF Acquire, AcquireScript, Unexpired, redis, TypeOK, Ended,
       Holding
  <1>5. ASSUME NEW r \in Requests, AcquireReplyLost(r) PROVE TypeOK'
    BY <1>5 DEF AcquireReplyLost, AcquireScript, Unexpired, redis, TypeOK,
       Ended, Holding
  <1>6. ASSUME NEW r \in Requests, AcquireFull(r) PROVE TypeOK'
    BY <1>6 DEF AcquireFull, Unexpired, redis, TypeOK, Ended, Holding
  <1>7. ASSUME NEW r \in Requests, AcquireFails(r) PROVE TypeOK'
    BY <1>7 DEF AcquireFails, redis, TypeOK, Ended, Holding
  <1>8. ASSUME NEW r \in Requests, StopWaiting(r) PROVE TypeOK'
    BY <1>8 DEF StopWaiting, redis, TypeOK, Ended, Holding
  <1>9. ASSUME NEW r \in Requests, LeaveQueue(r) PROVE TypeOK'
    <2>1. waitCount' \in 0..MaxWait
      BY <1>9 DEF LeaveQueue, TypeOK
    <2>2. pc' \in [Requests -> Ended \cup Holding \cup
                     {"new", "acquire", "wait", "leave", "draining"}]
      BY <1>9 DEF LeaveQueue, TypeOK, Ended, Holding
    <2>3. incidents' \subseteq {"leaked", "drifted"}
      BY <1>9 DEF LeaveQueue, TypeOK
    <2> QED
      BY <1>9, <2>1, <2>2, <2>3 DEF LeaveQueue, TypeOK
  <1>10. ASSUME NEW r \in Requests, ClientGone(r) PROVE TypeOK'
    BY <1>10 DEF ClientGone, Release, redis, TypeOK, Ended, Holding
  <1>11. ASSUME NEW r \in Requests, Finish(r) PROVE TypeOK'
    BY <1>11 DEF Finish, Release, redis, TypeOK, Ended, Holding
  <1>12. ASSUME NEW r \in Requests, FinishDraining(r) PROVE TypeOK'
    BY <1>12 DEF FinishDraining, redis, TypeOK, Ended, Holding
  <1>13. ASSUME NEW p \in Processes, Crash(p) PROVE TypeOK'
    BY <1>13 DEF Crash, redis, TypeOK, Ended, Holding
  <1>14. ASSUME NEW p \in Processes, StartProcess(p) PROVE TypeOK'
    <2>1. waitCount' \in 0..MaxWait
      BY <1>14 DEF StartProcess, CleanupStaleProcessSlots, TypeOK
    <2>2. slots' \subseteq Requests
      BY <1>14 DEF StartProcess, CleanupStaleProcessSlots, TypeOK
    <2>3. incidents' \subseteq {"leaked", "drifted"}
      BY <1>14 DEF StartProcess, CleanupStaleProcessSlots, TypeOK
    <2> QED
      BY <1>14, <2>1, <2>2, <2>3 DEF StartProcess, TypeOK
  <1>15. ASSUME PruneExpired PROVE TypeOK'
    BY <1>15 DEF PruneExpired, Unexpired, redis, TypeOK, Ended, Holding
  <1>16. ASSUME WaitKeyExpires PROVE TypeOK'
    BY <1>16 DEF WaitKeyExpires, redis, TypeOK, Ended, Holding
  <1>17. ASSUME Tick PROVE TypeOK'
    BY <1>17 DEF Tick, redis, TypeOK, Ended, Holding
  <1>18. CASE UNCHANGED vars
    BY <1>18 DEF vars, redis, TypeOK, Ended, Holding
  <1> QED
    BY <1>1, <1>2, <1>3, <1>4, <1>5, <1>6, <1>7, <1>8, <1>9, <1>10, <1>11,
       <1>12, <1>13, <1>14, <1>15, <1>16, <1>17, <1>18 DEF Next, Step

(* Every step keeps RequestInv: a crash ends the requests of its process.  *)
LEMMA RequestInvStep == TypeOK /\ RequestInv /\ [Next]_vars => RequestInv'
  <1> SUFFICES ASSUME TypeOK, RequestInv, [Next]_vars
               PROVE  RequestInv'
    OBVIOUS
  <1> USE SlotsAssumption DEF To, Incident, history
  <1>1. ASSUME NEW r \in Requests, NEW p \in Processes, Arrive(r, p) PROVE RequestInv'
    BY <1>1 DEF Arrive, redis, RequestInv, TypeOK, Ended, Holding
  <1>2. ASSUME NEW r \in Requests, NEW p \in Processes, QueueFull(r, p) PROVE RequestInv'
    BY <1>2 DEF QueueFull, redis, RequestInv, TypeOK, Ended, Holding
  <1>3. ASSUME NEW r \in Requests, NEW p \in Processes, ArriveUncounted(r, p) PROVE RequestInv'
    BY <1>3 DEF ArriveUncounted, redis, RequestInv, TypeOK, Ended, Holding
  <1>4. ASSUME NEW r \in Requests, Acquire(r) PROVE RequestInv'
    BY <1>4 DEF Acquire, AcquireScript, Unexpired, redis, RequestInv,
       TypeOK, Ended, Holding
  <1>5. ASSUME NEW r \in Requests, AcquireReplyLost(r) PROVE RequestInv'
    BY <1>5 DEF AcquireReplyLost, AcquireScript, Unexpired, redis,
       RequestInv, TypeOK, Ended, Holding
  <1>6. ASSUME NEW r \in Requests, AcquireFull(r) PROVE RequestInv'
    BY <1>6 DEF AcquireFull, Unexpired, redis, RequestInv, TypeOK, Ended,
       Holding
  <1>7. ASSUME NEW r \in Requests, AcquireFails(r) PROVE RequestInv'
    BY <1>7 DEF AcquireFails, redis, RequestInv, TypeOK, Ended, Holding
  <1>8. ASSUME NEW r \in Requests, StopWaiting(r) PROVE RequestInv'
    BY <1>8 DEF StopWaiting, redis, RequestInv, TypeOK, Ended, Holding
  <1>9. ASSUME NEW r \in Requests, LeaveQueue(r) PROVE RequestInv'
    BY <1>9 DEF LeaveQueue, redis, RequestInv, TypeOK, Ended, Holding
  <1>10. ASSUME NEW r \in Requests, ClientGone(r) PROVE RequestInv'
    BY <1>10 DEF ClientGone, Release, redis, RequestInv, TypeOK, Ended,
       Holding
  <1>11. ASSUME NEW r \in Requests, Finish(r) PROVE RequestInv'
    BY <1>11 DEF Finish, Release, redis, RequestInv, TypeOK, Ended,
       Holding
  <1>12. ASSUME NEW r \in Requests, FinishDraining(r) PROVE RequestInv'
    BY <1>12 DEF FinishDraining, redis, RequestInv, TypeOK, Ended, Holding
  <1>13. ASSUME NEW p \in Processes, Crash(p) PROVE RequestInv'
    BY <1>13 DEF Crash, redis, RequestInv, TypeOK, Ended, Holding
  <1>14. ASSUME NEW p \in Processes, StartProcess(p) PROVE RequestInv'
    BY <1>14 DEF StartProcess, CleanupStaleProcessSlots, redis,
       RequestInv, TypeOK, Ended, Holding
  <1>15. ASSUME PruneExpired PROVE RequestInv'
    BY <1>15 DEF PruneExpired, Unexpired, redis, RequestInv, TypeOK,
       Ended, Holding
  <1>16. ASSUME WaitKeyExpires PROVE RequestInv'
    BY <1>16 DEF WaitKeyExpires, redis, RequestInv, TypeOK, Ended, Holding
  <1>17. ASSUME Tick PROVE RequestInv'
    BY <1>17 DEF Tick, redis, RequestInv, TypeOK, Ended, Holding
  <1>18. CASE UNCHANGED vars
    BY <1>18 DEF vars, redis, RequestInv, TypeOK, Ended, Holding
  <1> QED
    BY <1>1, <1>2, <1>3, <1>4, <1>5, <1>6, <1>7, <1>8, <1>9, <1>10, <1>11,
       <1>12, <1>13, <1>14, <1>15, <1>16, <1>17, <1>18 DEF Next, Step

(* Every step keeps NoSlotLeak: every end of a holder removes its slot     *)
(* (Release) and the startup cleanup removes what a crash left.            *)
LEMMA NoSlotLeakStep == TypeOK /\ RequestInv /\ NoSlotLeak /\ [Next]_vars => NoSlotLeak'
  <1> SUFFICES ASSUME TypeOK, RequestInv, NoSlotLeak, [Next]_vars
               PROVE  NoSlotLeak'
    OBVIOUS
  <1> USE SlotsAssumption DEF To, Incident, history
  <1>1. ASSUME NEW r \in Requests, NEW p \in Processes, Arrive(r, p) PROVE NoSlotLeak'
    BY <1>1 DEF Arrive, redis, NoSlotLeak, Holders, RequestInv, TypeOK,
       Ended, Holding
  <1>2. ASSUME NEW r \in Requests, NEW p \in Processes, QueueFull(r, p) PROVE NoSlotLeak'
    BY <1>2 DEF QueueFull, redis, NoSlotLeak, Holders, RequestInv, TypeOK,
       Ended, Holding
  <1>3. ASSUME NEW r \in Requests, NEW p \in Processes, ArriveUncounted(r, p) PROVE NoSlotLeak'
    BY <1>3 DEF ArriveUncounted, redis, NoSlotLeak, Holders, RequestInv,
       TypeOK, Ended, Holding
  <1>4. ASSUME NEW r \in Requests, Acquire(r) PROVE NoSlotLeak'
    BY <1>4 DEF Acquire, AcquireScript, Unexpired, redis, NoSlotLeak,
       Holders, RequestInv, TypeOK, Ended, Holding
  <1>5. ASSUME NEW r \in Requests, AcquireReplyLost(r) PROVE NoSlotLeak'
    BY <1>5 DEF AcquireReplyLost, AcquireScript, Unexpired, redis,
       NoSlotLeak, Holders, RequestInv, TypeOK, Ended, Holding
  <1>6. ASSUME NEW r \in Requests, AcquireFull(r) PROVE NoSlotLeak'
    BY <1>6 DEF AcquireFull, Unexpired, redis, NoSlotLeak, Holders,
       RequestInv, TypeOK, Ended, Holding
  <1>7. ASSUME NEW r \in Requests, AcquireFails(r) PROVE NoSlotLeak'
    BY <1>7 DEF AcquireFails, redis, NoSlotLeak, Holders, RequestInv,
       TypeOK, Ended, Holding
  <1>8. ASSUME NEW r \in Requests, StopWaiting(r) PROVE NoSlotLeak'
    BY <1>8 DEF StopWaiting, redis, NoSlotLeak, Holders, RequestInv,
       TypeOK, Ended, Holding
  <1>9. ASSUME NEW r \in Requests, LeaveQueue(r) PROVE NoSlotLeak'
    BY <1>9 DEF LeaveQueue, redis, NoSlotLeak, Holders, RequestInv,
       TypeOK, Ended, Holding
  <1>10. ASSUME NEW r \in Requests, ClientGone(r) PROVE NoSlotLeak'
    BY <1>10 DEF ClientGone, Release, redis, NoSlotLeak, Holders,
       RequestInv, TypeOK, Ended, Holding
  <1>11. ASSUME NEW r \in Requests, Finish(r) PROVE NoSlotLeak'
    BY <1>11 DEF Finish, Release, redis, NoSlotLeak, Holders, RequestInv,
       TypeOK, Ended, Holding
  <1>12. ASSUME NEW r \in Requests, FinishDraining(r) PROVE NoSlotLeak'
    BY <1>12 DEF FinishDraining, redis, NoSlotLeak, Holders, RequestInv,
       TypeOK, Ended, Holding
  <1>13. ASSUME NEW p \in Processes, Crash(p) PROVE NoSlotLeak'
    BY <1>13 DEF Crash, redis, NoSlotLeak, Holders, RequestInv, TypeOK,
       Ended, Holding
  <1>14. ASSUME NEW p \in Processes, StartProcess(p) PROVE NoSlotLeak'
    BY <1>14 DEF StartProcess, CleanupStaleProcessSlots, redis,
       NoSlotLeak, Holders, RequestInv, TypeOK, Ended, Holding
  <1>15. ASSUME PruneExpired PROVE NoSlotLeak'
    BY <1>15 DEF PruneExpired, Unexpired, redis, NoSlotLeak, Holders,
       RequestInv, TypeOK, Ended, Holding
  <1>16. ASSUME WaitKeyExpires PROVE NoSlotLeak'
    BY <1>16 DEF WaitKeyExpires, redis, NoSlotLeak, Holders, RequestInv,
       TypeOK, Ended, Holding
  <1>17. ASSUME Tick PROVE NoSlotLeak'
    BY <1>17 DEF Tick, redis, NoSlotLeak, Holders, RequestInv, TypeOK,
       Ended, Holding
  <1>18. CASE UNCHANGED vars
    BY <1>18 DEF vars, redis, NoSlotLeak, Holders, RequestInv, TypeOK,
       Ended, Holding
  <1> QED
    BY <1>1, <1>2, <1>3, <1>4, <1>5, <1>6, <1>7, <1>8, <1>9, <1>10, <1>11,
       <1>12, <1>13, <1>14, <1>15, <1>16, <1>17, <1>18 DEF Next, Step

(* Every step keeps the wait counter exact (incrementWaitScript,           *)
(* decrementWaitScript).                                                   *)
LEMMA WaitCountExactStep == TypeOK /\ RequestInv /\ WaitCountExact /\ [Next]_vars => WaitCountExact'
  <1> SUFFICES ASSUME TypeOK, RequestInv, WaitCountExact, [Next]_vars
               PROVE  WaitCountExact'
    OBVIOUS
  <1> USE SlotsAssumption DEF To, Incident, history
  <1>1. ASSUME NEW r \in Requests, NEW p \in Processes, Arrive(r, p) PROVE WaitCountExact'
    <2>1. counted \in SUBSET Requests /\ r \notin counted
      BY <1>1 DEF Arrive, RequestInv, TypeOK
    <2>2. Cardinality(counted \cup {r}) = Cardinality(counted) + 1
      BY <2>1, RequestSets, FS_AddElement
    <2> QED
      BY <1>1, <2>2 DEF Arrive, WaitCountExact
  <1>2. ASSUME NEW r \in Requests, NEW p \in Processes, QueueFull(r, p) PROVE WaitCountExact'
    BY <1>2 DEF QueueFull, redis, WaitCountExact, RequestInv, TypeOK,
       Ended, Holding
  <1>3. ASSUME NEW r \in Requests, NEW p \in Processes, ArriveUncounted(r, p) PROVE WaitCountExact'
    BY <1>3 DEF ArriveUncounted, redis, WaitCountExact, RequestInv,
       TypeOK, Ended, Holding
  <1>4. ASSUME NEW r \in Requests, Acquire(r) PROVE WaitCountExact'
    BY <1>4 DEF Acquire, AcquireScript, Unexpired, redis, WaitCountExact,
       RequestInv, TypeOK, Ended, Holding
  <1>5. ASSUME NEW r \in Requests, AcquireReplyLost(r) PROVE WaitCountExact'
    BY <1>5 DEF AcquireReplyLost, AcquireScript, Unexpired, redis,
       WaitCountExact, RequestInv, TypeOK, Ended, Holding
  <1>6. ASSUME NEW r \in Requests, AcquireFull(r) PROVE WaitCountExact'
    BY <1>6 DEF AcquireFull, Unexpired, redis, WaitCountExact, RequestInv,
       TypeOK, Ended, Holding
  <1>7. ASSUME NEW r \in Requests, AcquireFails(r) PROVE WaitCountExact'
    BY <1>7 DEF AcquireFails, redis, WaitCountExact, RequestInv, TypeOK,
       Ended, Holding
  <1>8. ASSUME NEW r \in Requests, StopWaiting(r) PROVE WaitCountExact'
    BY <1>8 DEF StopWaiting, redis, WaitCountExact, RequestInv, TypeOK,
       Ended, Holding
  <1>9. ASSUME NEW r \in Requests, LeaveQueue(r) PROVE WaitCountExact'
    <2>1. counted \in SUBSET Requests /\ r \in counted
      BY <1>9 DEF LeaveQueue, TypeOK
    <2>2. Cardinality(counted \ {r}) = Cardinality(counted) - 1
      BY <2>1, RequestSets, FS_RemoveElement
    <2>3. Cardinality(counted \ {r}) \in Nat /\ Cardinality(counted) \in Nat
      BY <2>1, RequestSets
    <2> SUFFICES ASSUME "drifted" \notin incidents'
                 PROVE  waitCount' = Cardinality(counted')
      BY DEF WaitCountExact
    <2>4. /\ waitCount' = IF waitCount > 0 THEN waitCount - 1 ELSE 0
          /\ incidents' = incidents
          /\ counted' = counted \ {r}
      BY <1>9 DEF LeaveQueue
    <2>5. waitCount = Cardinality(counted)
      BY <2>4 DEF WaitCountExact
    <2> QED
      BY <2>2, <2>3, <2>4, <2>5
  <1>10. ASSUME NEW r \in Requests, ClientGone(r) PROVE WaitCountExact'
    BY <1>10 DEF ClientGone, Release, redis, WaitCountExact, RequestInv,
       TypeOK, Ended, Holding
  <1>11. ASSUME NEW r \in Requests, Finish(r) PROVE WaitCountExact'
    BY <1>11 DEF Finish, Release, redis, WaitCountExact, RequestInv,
       TypeOK, Ended, Holding
  <1>12. ASSUME NEW r \in Requests, FinishDraining(r) PROVE WaitCountExact'
    BY <1>12 DEF FinishDraining, redis, WaitCountExact, RequestInv,
       TypeOK, Ended, Holding
  <1>13. ASSUME NEW p \in Processes, Crash(p) PROVE WaitCountExact'
    <2> SUFFICES ASSUME "drifted" \notin incidents'
                 PROVE  waitCount' = Cardinality(counted')
      BY DEF WaitCountExact
    <2>1. counted' = counted /\ waitCount' = waitCount /\ "drifted" \notin incidents
      BY <1>13 DEF Crash, redis, TypeOK
    <2> QED
      BY <2>1 DEF WaitCountExact
  <1>14. ASSUME NEW p \in Processes, StartProcess(p) PROVE WaitCountExact'
    <2>1. CASE CleanupStaleProcessSlots(p)
      <3> SUFFICES ASSUME "drifted" \notin incidents'
                   PROVE  waitCount' = Cardinality(counted')
        BY DEF WaitCountExact
      <3>1. alive = {} /\ waitCount' = 0 /\ counted' = counted
        BY <1>14, <2>1 DEF StartProcess, CleanupStaleProcessSlots
      <3>2. counted = {}
        BY <3>1 DEF RequestInv, TypeOK, Ended
      <3> QED
        BY <3>1, <3>2, FS_EmptySet
    <2>2. CASE UNCHANGED <<waitCount, incidents>>
      BY <1>14, <2>2 DEF StartProcess, WaitCountExact
    <2> QED
      BY <1>14, <2>1, <2>2 DEF StartProcess
  <1>15. ASSUME PruneExpired PROVE WaitCountExact'
    BY <1>15 DEF PruneExpired, Unexpired, redis, WaitCountExact,
       RequestInv, TypeOK, Ended, Holding
  <1>16. ASSUME WaitKeyExpires PROVE WaitCountExact'
    BY <1>16 DEF WaitKeyExpires, redis, WaitCountExact, RequestInv,
       TypeOK, Ended, Holding
  <1>17. ASSUME Tick PROVE WaitCountExact'
    BY <1>17 DEF Tick, redis, WaitCountExact, RequestInv, TypeOK, Ended,
       Holding
  <1>18. CASE UNCHANGED vars
    BY <1>18 DEF vars, redis, WaitCountExact, RequestInv, TypeOK, Ended,
       Holding
  <1> QED
    BY <1>1, <1>2, <1>3, <1>4, <1>5, <1>6, <1>7, <1>8, <1>9, <1>10, <1>11,
       <1>12, <1>13, <1>14, <1>15, <1>16, <1>17, <1>18 DEF Next, Step

(* Every step keeps SlotInv: acquireScript adds a member only below the    *)
(* limit, and a running request whose member goes is unbacked.             *)
LEMMA SlotInvStep == TypeOK /\ RequestInv /\ SlotInv /\ [Next]_vars => SlotInv'
  <1> SUFFICES ASSUME TypeOK, RequestInv, SlotInv, [Next]_vars
               PROVE  SlotInv'
    OBVIOUS
  <1> USE SlotsAssumption DEF To, Incident, history
  <1>1. ASSUME NEW r \in Requests, NEW p \in Processes, Arrive(r, p) PROVE SlotInv'
    BY <1>1 DEF Arrive, redis, SlotInv, Unexpired, RequestInv, TypeOK,
       Ended, Holding
  <1>2. ASSUME NEW r \in Requests, NEW p \in Processes, QueueFull(r, p) PROVE SlotInv'
    BY <1>2 DEF QueueFull, redis, SlotInv, Unexpired, RequestInv, TypeOK,
       Ended, Holding
  <1>3. ASSUME NEW r \in Requests, NEW p \in Processes, ArriveUncounted(r, p) PROVE SlotInv'
    BY <1>3 DEF ArriveUncounted, redis, SlotInv, Unexpired, RequestInv,
       TypeOK, Ended, Holding
  <1>4. ASSUME NEW r \in Requests, Acquire(r) PROVE SlotInv'
    <2>1. Unexpired(now) \in SUBSET Requests
      BY DEF Unexpired, TypeOK
    <2>2. Unexpired(now)' \in SUBSET (Unexpired(now) \cup {r})
      BY <1>4 DEF Acquire, AcquireScript, Unexpired, TypeOK
    <2>3. /\ Cardinality(Unexpired(now) \cup {r}) <= Cardinality(Unexpired(now)) + 1
          /\ Cardinality(Unexpired(now)) \in Nat
          /\ Cardinality(Unexpired(now) \cup {r}) \in Nat
      BY <2>1, RequestSets, FS_AddElement
    <2>4. /\ Cardinality(Unexpired(now)') <= Cardinality(Unexpired(now) \cup {r})
          /\ Cardinality(Unexpired(now)') \in Nat
      BY <2>1, <2>2, SubsetSize, RequestSets
    <2>5. Cardinality(Unexpired(now)) < MaxConcurrency
      BY <1>4 DEF Acquire, AcquireScript
    <2>6. Cardinality(Unexpired(now)') <= MaxConcurrency
      BY <2>3, <2>4, <2>5
    <2>7. ASSUME NEW q \in Requests
          PROVE  /\ pc'[q] \in Holding /\ q \notin unbacked' => q \in Unexpired(now)'
                 /\ pc'[q] = "draining" => q \in unbacked'
      BY <1>4 DEF Acquire, AcquireScript, Unexpired, SlotInv, TypeOK, Holding
    <2> QED
      BY <2>6, <2>7 DEF SlotInv
  <1>5. ASSUME NEW r \in Requests, AcquireReplyLost(r) PROVE SlotInv'
    <2>1. Unexpired(now) \in SUBSET Requests
      BY DEF Unexpired, TypeOK
    <2>2. Unexpired(now)' \in SUBSET (Unexpired(now) \cup {r})
      BY <1>5 DEF AcquireReplyLost, AcquireScript, Unexpired, TypeOK
    <2>3. /\ Cardinality(Unexpired(now) \cup {r}) <= Cardinality(Unexpired(now)) + 1
          /\ Cardinality(Unexpired(now)) \in Nat
          /\ Cardinality(Unexpired(now) \cup {r}) \in Nat
      BY <2>1, RequestSets, FS_AddElement
    <2>4. /\ Cardinality(Unexpired(now)') <= Cardinality(Unexpired(now) \cup {r})
          /\ Cardinality(Unexpired(now)') \in Nat
      BY <2>1, <2>2, SubsetSize, RequestSets
    <2>5. Cardinality(Unexpired(now)) < MaxConcurrency
      BY <1>5 DEF AcquireReplyLost, AcquireScript
    <2>6. Cardinality(Unexpired(now)') <= MaxConcurrency
      BY <2>3, <2>4, <2>5
    <2>7. ASSUME NEW q \in Requests
          PROVE  /\ pc'[q] \in Holding /\ q \notin unbacked' => q \in Unexpired(now)'
                 /\ pc'[q] = "draining" => q \in unbacked'
      BY <1>5 DEF AcquireReplyLost, AcquireScript, Unexpired, SlotInv, TypeOK, Holding
    <2> QED
      BY <2>6, <2>7 DEF SlotInv
  <1>6. ASSUME NEW r \in Requests, AcquireFull(r) PROVE SlotInv'
    BY <1>6 DEF AcquireFull, redis, SlotInv, Unexpired, RequestInv,
       TypeOK, Ended, Holding
  <1>7. ASSUME NEW r \in Requests, AcquireFails(r) PROVE SlotInv'
    BY <1>7 DEF AcquireFails, redis, SlotInv, Unexpired, RequestInv,
       TypeOK, Ended, Holding
  <1>8. ASSUME NEW r \in Requests, StopWaiting(r) PROVE SlotInv'
    BY <1>8 DEF StopWaiting, redis, SlotInv, Unexpired, RequestInv,
       TypeOK, Ended, Holding
  <1>9. ASSUME NEW r \in Requests, LeaveQueue(r) PROVE SlotInv'
    BY <1>9 DEF LeaveQueue, redis, SlotInv, Unexpired, RequestInv, TypeOK,
       Ended, Holding
  <1>10. ASSUME NEW r \in Requests, ClientGone(r) PROVE SlotInv'
    <2>1. Unexpired(now) \in SUBSET Requests
      BY DEF Unexpired, TypeOK
    <2>2. Unexpired(now)' \in SUBSET Unexpired(now)
      BY <1>10 DEF ClientGone, Release, Unexpired, TypeOK
    <2>3. Cardinality(Unexpired(now)') <= MaxConcurrency
      BY <2>1, <2>2, SubsetSize, RequestSets DEF SlotInv
    <2>4. ASSUME NEW q \in Requests
          PROVE  /\ pc'[q] \in Holding /\ q \notin unbacked' => q \in Unexpired(now)'
                 /\ pc'[q] = "draining" => q \in unbacked'
      BY <1>10 DEF ClientGone, Release, Unexpired, SlotInv, TypeOK, Holding
    <2> QED
      BY <2>3, <2>4 DEF SlotInv
  <1>11. ASSUME NEW r \in Requests, Finish(r) PROVE SlotInv'
    <2>1. Unexpired(now) \in SUBSET Requests
      BY DEF Unexpired, TypeOK
    <2>2. Unexpired(now)' \in SUBSET Unexpired(now)
      BY <1>11 DEF Finish, Release, Unexpired, TypeOK
    <2>3. Cardinality(Unexpired(now)') <= MaxConcurrency
      BY <2>1, <2>2, SubsetSize, RequestSets DEF SlotInv
    <2>4. ASSUME NEW q \in Requests
          PROVE  /\ pc'[q] \in Holding /\ q \notin unbacked' => q \in Unexpired(now)'
                 /\ pc'[q] = "draining" => q \in unbacked'
      BY <1>11 DEF Finish, Release, Unexpired, SlotInv, TypeOK, Holding
    <2> QED
      BY <2>3, <2>4 DEF SlotInv
  <1>12. ASSUME NEW r \in Requests, FinishDraining(r) PROVE SlotInv'
    BY <1>12 DEF FinishDraining, redis, SlotInv, Unexpired, RequestInv,
       TypeOK, Ended, Holding
  <1>13. ASSUME NEW p \in Processes, Crash(p) PROVE SlotInv'
    BY <1>13 DEF Crash, redis, SlotInv, Unexpired, RequestInv, TypeOK,
       Ended, Holding
  <1>14. ASSUME NEW p \in Processes, StartProcess(p) PROVE SlotInv'
    <2>1. Unexpired(now) \in SUBSET Requests
      BY DEF Unexpired, TypeOK
    <2>2. Unexpired(now)' \in SUBSET Unexpired(now)
      BY <1>14 DEF StartProcess, CleanupStaleProcessSlots, Unexpired, TypeOK
    <2>3. Cardinality(Unexpired(now)') <= MaxConcurrency
      BY <2>1, <2>2, SubsetSize, RequestSets DEF SlotInv
    <2>4. ASSUME NEW q \in Requests
          PROVE  /\ pc'[q] \in Holding /\ q \notin unbacked' => q \in Unexpired(now)'
                 /\ pc'[q] = "draining" => q \in unbacked'
      <3>1. /\ pc' = pc /\ now' = now /\ stamp' = stamp
            /\ unbacked' = unbacked \cup {r \in slots \ slots' : pc[r] \in Holding}
        BY <1>14 DEF StartProcess
      <3> QED
        BY <3>1 DEF Unexpired, SlotInv, TypeOK, Holding
    <2> QED
      BY <2>3, <2>4 DEF SlotInv
  <1>15. ASSUME PruneExpired PROVE SlotInv'
    BY <1>15 DEF PruneExpired, redis, SlotInv, Unexpired, RequestInv,
       TypeOK, Ended, Holding
  <1>16. ASSUME WaitKeyExpires PROVE SlotInv'
    BY <1>16 DEF WaitKeyExpires, redis, SlotInv, Unexpired, RequestInv,
       TypeOK, Ended, Holding
  <1>17. ASSUME Tick PROVE SlotInv'
    <2>1. Unexpired(now) \in SUBSET Requests
      BY DEF Unexpired, TypeOK
    <2>2. Unexpired(now)' \in SUBSET Unexpired(now)
      BY <1>17 DEF Tick, redis, Unexpired, TypeOK
    <2>3. Cardinality(Unexpired(now)') <= MaxConcurrency
      BY <2>1, <2>2, SubsetSize, RequestSets DEF SlotInv
    <2>4. ASSUME NEW q \in Requests
          PROVE  /\ pc'[q] \in Holding /\ q \notin unbacked' => q \in Unexpired(now)'
                 /\ pc'[q] = "draining" => q \in unbacked'
      BY <1>17 DEF Tick, redis, Unexpired, SlotInv, TypeOK, Holding
    <2> QED
      BY <2>3, <2>4 DEF SlotInv
  <1>18. CASE UNCHANGED vars
    BY <1>18 DEF vars, redis, SlotInv, Unexpired, RequestInv, TypeOK,
       Ended, Holding
  <1> QED
    BY <1>1, <1>2, <1>3, <1>4, <1>5, <1>6, <1>7, <1>8, <1>9, <1>10, <1>11,
       <1>12, <1>13, <1>14, <1>15, <1>16, <1>17, <1>18 DEF Next, Step

(* Every reachable state satisfies the types, RequestInv, NoSlotLeak and   *)
(* WaitCountExact.                                                         *)
THEOREM SlotsInvariant ==
  Spec => [](TypeOK /\ RequestInv /\ NoSlotLeak /\ WaitCountExact)
  <1> DEFINE Inv == TypeOK /\ RequestInv /\ NoSlotLeak /\ WaitCountExact
  <1>1. Init => Inv
    BY InitialInv
  <1>2. Inv /\ [Next]_vars => Inv'
    BY TypeOKStep, RequestInvStep, NoSlotLeakStep, WaitCountExactStep
  <1> QED
    BY <1>1, <1>2, PTL DEF Spec

(* Type correctness; in particular the wait counter never exceeds MaxWait. *)
THEOREM TypeCorrect == Spec => []TypeOK
  BY SlotsInvariant, PTL

(* Slots never outlive their request unless a fault leaked them.           *)
THEOREM SlotsAreReleased == Spec => []NoSlotLeak
  BY SlotsInvariant, PTL

(* The wait counter counts the queued requests until a fault disturbs it.  *)
THEOREM WaitCountIsExact == Spec => []WaitCountExact
  BY SlotsInvariant, PTL

(* Running requests that are backed are unexpired members, of which there  *)
(* are at most MaxConcurrency.                                             *)
LEMMA LimitFromInv == TypeOK /\ SlotInv => ConcurrencyLimit
  <1> SUFFICES ASSUME TypeOK, SlotInv
               PROVE  ConcurrencyLimit
    OBVIOUS
  <1> DEFINE Backed == {r \in Requests : pc[r] \in Running} \ unbacked
  <1>1. Unexpired(now) \in SUBSET Requests
    BY DEF TypeOK, Unexpired
  <1>2. Backed \in SUBSET Unexpired(now)
    BY DEF SlotInv, Running
  <1>3. Cardinality(Backed) <= Cardinality(Unexpired(now))
    BY <1>1, <1>2, SubsetSize
  <1>4. Cardinality(Backed) \in Nat /\ Cardinality(Unexpired(now)) \in Nat
    BY <1>1, <1>2, RequestSets
  <1> QED
    BY <1>3, <1>4, SlotsAssumption DEF SlotInv, ConcurrencyLimit

(* The concurrency limit holds for any number of processes, one after the  *)
(* other or side by side, however they crash and start: only requests that *)
(* lost their slot come on top (ConcurrencyLimit).                         *)
THEOREM LimitIsKept == Spec => []ConcurrencyLimit
  <1> DEFINE Inv == TypeOK /\ RequestInv /\ SlotInv
  <1>1. Init => Inv
    BY InitialInv
  <1>2. Inv /\ [Next]_vars => Inv'
    BY TypeOKStep, RequestInvStep, SlotInvStep
  <1>3. Inv => ConcurrencyLimit
    BY LimitFromInv
  <1> QED
    BY <1>1, <1>2, <1>3, PTL DEF Spec
=============================================================================
