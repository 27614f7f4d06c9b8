------------------------- MODULE PlatformQuotaProofs ------------------------
(* Proofs about PlatformQuota, for any requests, writers, limit and bounds.*)
EXTENDS PlatformQuota, FiniteSetTheorems, TLAPS

(* The writes under way are finitely many, and so are the ones dated in    *)
(* the current window: both are subsets of Writers.                        *)
LEMMA WritesFinite ==
  /\ IsFiniteSet(UnderWay) /\ Cardinality(UnderWay) \in Nat
  /\ IsFiniteSet(Undated) /\ Cardinality(Undated) \in Nat
  /\ IsFiniteSet(CurrentWrites) /\ Cardinality(CurrentWrites) \in Nat
  <1>1. UnderWay \subseteq Writers /\ Undated \subseteq Writers
        /\ CurrentWrites \subseteq Writers
    BY DEF UnderWay, Undated, CurrentWrites
  <1> QED
    BY <1>1, QuotaAssumption, FS_Subset, FS_CardinalityType

(* A goroutine that ends leaves one write fewer under way, and one fewer   *)
(* of the current window if its charge was dated in it (EndWrite).         *)
LEMMA EndWriteCounts ==
  ASSUME TypeOK, NEW g \in Writers, write[g] # "none", EndWrite(g), now' = now
  PROVE  /\ Cardinality(UnderWay') = Cardinality(UnderWay) - 1
         /\ Cardinality(CurrentWrites')
              = Cardinality(CurrentWrites) - (IF Current(g) THEN 1 ELSE 0)
  <1>1. /\ write' = [write EXCEPT ![g] = "none"]
        /\ clock' = [clock EXCEPT ![g] = 0]
        /\ write \in [Writers -> {"none", "started", "dated", "inserting"}]
        /\ clock \in [Writers -> Windows]
    BY DEF EndWrite, TypeOK
  <1>2. UnderWay' = UnderWay \ {g} /\ g \in UnderWay
    BY <1>1 DEF UnderWay
  <1>3. CurrentWrites' = CurrentWrites \ {g}
    BY <1>1 DEF CurrentWrites, Current
  <1>4. Current(g) <=> g \in CurrentWrites
    BY DEF CurrentWrites
  <1>5. Cardinality(UnderWay \ {g}) = Cardinality(UnderWay) - 1
    BY <1>2, WritesFinite, FS_RemoveElement
  <1>6. Cardinality(CurrentWrites \ {g}) = Cardinality(CurrentWrites)
          - (IF g \in CurrentWrites THEN 1 ELSE 0)
    <2>1. CASE g \in CurrentWrites
      BY <2>1, WritesFinite, FS_RemoveElement
    <2>2. CASE g \notin CurrentWrites
      <3>1. CurrentWrites \ {g} = CurrentWrites
        BY <2>2
      <3> QED
        BY <2>2, <3>1, WritesFinite
    <2> QED
      BY <2>1, <2>2
  <1> QED
    BY <1>2, <1>3, <1>4, <1>5, <1>6

(* A goroutine that starts adds one write, not dated yet (Charge).         *)
LEMMA StartCounts ==
  ASSUME TypeOK, NEW g \in Writers, write[g] = "none", now' = now,
         write' = [write EXCEPT ![g] = "started"], clock' = clock
  PROVE  /\ Cardinality(UnderWay') = Cardinality(UnderWay) + 1
         /\ Cardinality(CurrentWrites') = Cardinality(CurrentWrites) + 1
  <1>1. write \in [Writers -> {"none", "started", "dated", "inserting"}]
    BY DEF TypeOK
  <1>2. UnderWay' = UnderWay \cup {g} /\ g \notin UnderWay
    BY <1>1 DEF UnderWay
  <1>3. CurrentWrites' = CurrentWrites \cup {g} /\ g \notin CurrentWrites
    BY <1>1 DEF CurrentWrites, Current
  <1> QED
    BY <1>2, <1>3, WritesFinite, FS_AddElement

(* Reading the clock, or finding no row, moves no charge to another window *)
(* (ReadClock, SelectMissing).                                             *)
LEMMA DatingKeepsWrites ==
  ASSUME TypeOK, NEW g \in Writers, ReadClock(g) \/ SelectMissing(g)
  PROVE  UnderWay' = UnderWay /\ CurrentWrites' = CurrentWrites
  <1>1. /\ write \in [Writers -> {"none", "started", "dated", "inserting"}]
        /\ clock \in [Writers -> Windows]
    BY DEF TypeOK
  <1> QED
    BY <1>1 DEF ReadClock, SelectMissing, UnderWay, CurrentWrites, Current

(* A step that leaves the goroutines and the window alone leaves both sets *)
(* of writes alone.                                                        *)
LEMMA SameWrites ==
  ASSUME UNCHANGED <<write, clock, now>>
  PROVE  UnderWay' = UnderWay /\ CurrentWrites' = CurrentWrites
  BY DEF UnderWay, CurrentWrites, Current

(* The initial row, cache and requests are well typed.                     *)
LEMMA InitialTypes == Init => TypeOK
  BY QuotaAssumption DEF Init, TypeOK, InitialRow, Absent, Entry, Windows

(* The initial row, cache and requests satisfy QuotaInv: nothing was ever  *)
(* charged and every window start is NULL.                                 *)
LEMMA InitialInv == Init => QuotaInv
  <1> SUFFICES ASSUME Init PROVE QuotaInv
    OBVIOUS
  <1>1. UnderWay = {} /\ CurrentWrites = {}
    BY DEF Init, UnderWay, CurrentWrites, Current
  <1>2. Cardinality(UnderWay) = 0 /\ Cardinality(CurrentWrites) = 0
    BY <1>1, FS_EmptySet
  <1> QED
    BY <1>2, QuotaAssumption DEF Init, QuotaInv, NoFutureStart,
       PersistedUsageExact, PersistedUsage, CopiesSound, InitialRow, Absent

(* Every step keeps the types (TypeOK).                                    *)
LEMMA TypeOKStep == TypeOK /\ [Next]_vars => TypeOK'
  <1> SUFFICES ASSUME TypeOK, [Next]_vars
               PROVE  TypeOK'
    OBVIOUS
  <1> USE QuotaAssumption
  <1>1. ASSUME NEW r \in Requests, GetCache(r) PROVE TypeOK'
    BY <1>1 DEF GetCache, writeVars, slips, tally, TypeOK
  <1>2. ASSUME NEW r \in Requests, LoadRow(r) PROVE TypeOK'
    BY <1>2 DEF LoadRow, reqVars, writeVars, slips, tally, TypeOK,
       Entry, Absent, Windows
  <1>3. ASSUME NEW r \in Requests, DecideAndStore(r) PROVE TypeOK'
    BY <1>3 DEF DecideAndStore, StoredStart, CountedUsage, Expired,
       reqVars, writeVars, slips, tally, TypeOK, Entry, Absent, Windows
  <1>4. ASSUME NEW r \in Requests, Decide(r) PROVE TypeOK'
    BY <1>4 DEF Decide, reqVars, writeVars, slips, tally, TypeOK, Entry,
       Absent, Windows
  <1>5. ASSUME NEW r \in Requests, StoreEntry(r) PROVE TypeOK'
    BY <1>5 DEF StoreEntry, reqVars, writeVars, slips, tally, TypeOK,
       Entry, Absent, Windows
  <1>6. ASSUME NEW r \in Requests, Charge(r) PROVE TypeOK'
    BY <1>6 DEF Charge, IncrUsage, reqVars, writeVars, slips, tally,
       TypeOK, Entry, Absent, Windows
  <1>7. ASSUME NEW r \in Requests, EndUncharged(r) PROVE TypeOK'
    BY <1>7 DEF EndUncharged, reqVars, writeVars, slips, tally, TypeOK,
       Entry, Absent, Windows
  <1>8. ASSUME NEW g \in Writers, ReadClock(g) PROVE TypeOK'
    BY <1>8 DEF ReadClock, reqVars, writeVars, slips, tally, TypeOK,
       Entry, Absent, Windows
  <1>9. ASSUME NEW g \in Writers, WriteRow(g) PROVE TypeOK'
    <2>1. row' \in Entry
      <3>1. /\ clock[g] \in Windows /\ row.usage \in Nat
            /\ row.limit \in {0, Limit} /\ row \in Entry
        BY DEF TypeOK, Entry
      <3>2. maybeReset(row.usage, row.start, clock[g]) \in Nat
        BY <3>1 DEF maybeReset
      <3> QED
        BY <1>9, <3>1, <3>2 DEF WriteRow, Entry
    <2>2. /\ write' \in [Writers -> {"none", "started", "dated", "inserting"}]
          /\ clock' \in [Writers -> Windows]
      BY <1>9 DEF WriteRow, EndWrite, TypeOK, Windows
    <2>3. erased' \in Nat
      <3>1. row.usage \in Nat
        BY DEF TypeOK, Entry
      <3> QED
        BY <1>9, <3>1 DEF WriteRow, PersistedUsage, TypeOK
    <2> QED
      BY <1>9, <2>1, <2>2, <2>3 DEF WriteRow, reqVars, TypeOK
  <1>10. ASSUME NEW g \in Writers, SelectMissing(g) PROVE TypeOK'
    BY <1>10 DEF SelectMissing, reqVars, writeVars, slips, tally,
       TypeOK, Entry, Absent, Windows
  <1>11. ASSUME NEW g \in Writers, InsertRow(g) PROVE TypeOK'
    <2>1. row' \in Entry
      <3>1. /\ clock[g] \in Windows /\ row.usage \in Nat
            /\ row.limit \in {0, Limit} /\ row \in Entry
        BY DEF TypeOK, Entry
      <3>2. CASE row.kind = "none"
        BY <1>11, <3>1, <3>2 DEF InsertRow, Entry
      <3>3. CASE row.kind = "v1"
        BY <1>11, <3>1, <3>3 DEF InsertRow, Entry
      <3> QED
        BY <1>11, <3>2, <3>3 DEF InsertRow
    <2>2. /\ write' \in [Writers -> {"none", "started", "dated", "inserting"}]
          /\ clock' \in [Writers -> Windows]
      BY <1>11 DEF InsertRow, EndWrite, TypeOK, Windows
    <2>3. misfiled' \in Int
      BY <1>11 DEF InsertRow, TypeOK
    <2> QED
      BY <1>11, <2>1, <2>2, <2>3 DEF InsertRow, reqVars, TypeOK
  <1>12. ASSUME NEW g \in Writers, WriteRowFails(g) PROVE TypeOK'
    BY <1>12 DEF WriteRowFails, EndWrite, reqVars, writeVars, slips,
       tally, TypeOK, Entry, Absent, Windows
  <1>13. ASSUME InsertInitial PROVE TypeOK'
    BY <1>13 DEF InsertInitial, reqVars, writeVars, slips, tally,
       TypeOK, Entry, Absent, Windows
  <1>14. ASSUME CacheExpires PROVE TypeOK'
    BY <1>14 DEF CacheExpires, reqVars, writeVars, slips, tally, TypeOK,
       Entry, Absent, Windows
  <1>15. ASSUME NextWindow PROVE TypeOK'
    BY <1>15, WritesFinite DEF NextWindow, reqVars, writeVars, TypeOK
  <1>16. CASE UNCHANGED vars
    BY <1>16 DEF vars, reqVars, writeVars, slips, tally, TypeOK, Entry,
       Absent, Windows
  <1> QED
    BY <1>1, <1>2, <1>3, <1>4, <1>5, <1>6, <1>7, <1>8, <1>9, <1>10,
       <1>11, <1>12, <1>13, <1>14, <1>15, <1>16 DEF Next

(* No step leaves a window start or a clock later than the current window  *)
(* (StoredStart, ReadClock, IncrementUsageWithReset).                      *)
LEMMA NoFutureStartStep == TypeOK /\ NoFutureStart /\ [Next]_vars => NoFutureStart'
  <1> SUFFICES ASSUME TypeOK, NoFutureStart, [Next]_vars
               PROVE  NoFutureStart'
    OBVIOUS
  <1> USE QuotaAssumption
  <1>1. ASSUME NEW r \in Requests, GetCache(r) PROVE NoFutureStart'
    BY <1>1 DEF GetCache, reqVars, writeVars, slips, tally,
       NoFutureStart, TypeOK, Entry, Absent, Windows
  <1>2. ASSUME NEW r \in Requests, LoadRow(r) PROVE NoFutureStart'
    BY <1>2 DEF LoadRow, reqVars, writeVars, slips, tally,
       NoFutureStart, TypeOK, Entry, Absent, Windows
  <1>3. ASSUME NEW r \in Requests, DecideAndStore(r) PROVE NoFutureStart'
    BY <1>3 DEF DecideAndStore, StoredStart, CountedUsage, Expired,
       reqVars, writeVars, slips, tally, NoFutureStart, TypeOK, Entry,
       Absent, Windows
  <1>4. ASSUME NEW r \in Requests, Decide(r) PROVE NoFutureStart'
    BY <1>4 DEF Decide, reqVars, writeVars, slips, tally, NoFutureStart,
       TypeOK, Entry, Absent, Windows
  <1>5. ASSUME NEW r \in Requests, StoreEntry(r) PROVE NoFutureStart'
    BY <1>5 DEF StoreEntry, reqVars, writeVars, slips, tally,
       NoFutureStart, TypeOK, Entry, Absent, Windows
  <1>6. ASSUME NEW r \in Requests, Charge(r) PROVE NoFutureStart'
    <2>1. cache'.start = cache.start
      BY <1>6 DEF Charge, IncrUsage, TypeOK, Entry
    <2>2. \A g \in Writers : write'[g] = "started" => clock[g] = 0
      <3>1. PICK h \in Writers : /\ write[h] = "none"
                                /\ write' = [write EXCEPT ![h] = "started"]
        BY <1>6 DEF Charge
      <3>2. clock[h] = 0
        BY <3>1 DEF NoFutureStart
      <3> QED
        BY <3>1, <3>2 DEF NoFutureStart, TypeOK
    <2> QED
      BY <1>6, <2>1, <2>2 DEF Charge, NoFutureStart
  <1>7. ASSUME NEW r \in Requests, EndUncharged(r) PROVE NoFutureStart'
    BY <1>7 DEF EndUncharged, reqVars, writeVars, slips, tally,
       NoFutureStart, TypeOK, Entry, Absent, Windows
  <1>8. ASSUME NEW g \in Writers, ReadClock(g) PROVE NoFutureStart'
    BY <1>8 DEF ReadClock, reqVars, writeVars, slips, tally,
       NoFutureStart, TypeOK, Entry, Absent, Windows
  <1>9. ASSUME NEW g \in Writers, WriteRow(g) PROVE NoFutureStart'
    BY <1>9 DEF WriteRow, EndWrite, maybeReset, reqVars, writeVars,
       slips, tally, NoFutureStart, TypeOK, Entry, Absent, Windows
  <1>10. ASSUME NEW g \in Writers, SelectMissing(g) PROVE NoFutureStart'
    BY <1>10 DEF SelectMissing, reqVars, writeVars, slips, tally,
       NoFutureStart, TypeOK, Entry, Absent, Windows
  <1>11. ASSUME NEW g \in Writers, InsertRow(g) PROVE NoFutureStart'
    BY <1>11 DEF InsertRow, EndWrite, reqVars, writeVars, slips, tally,
       NoFutureStart, TypeOK, Entry, Absent, Windows
  <1>12. ASSUME NEW g \in Writers, WriteRowFails(g) PROVE NoFutureStart'
    BY <1>12 DEF WriteRowFails, EndWrite, reqVars, writeVars, slips,
       tally, NoFutureStart, TypeOK, Entry, Absent, Windows
  <1>13. ASSUME InsertInitial PROVE NoFutureStart'
    BY <1>13 DEF InsertInitial, reqVars, writeVars, slips, tally,
       NoFutureStart, TypeOK, Entry, Absent, Windows
  <1>14. ASSUME CacheExpires PROVE NoFutureStart'
    BY <1>14 DEF CacheExpires, reqVars, writeVars, slips, tally,
       NoFutureStart, TypeOK, Entry, Absent, Windows
  <1>15. ASSUME NextWindow PROVE NoFutureStart'
    BY <1>15 DEF NextWindow, reqVars, writeVars, slips, tally,
       NoFutureStart, TypeOK, Entry, Absent, Windows
  <1>16. CASE UNCHANGED vars
    BY <1>16 DEF vars, reqVars, writeVars, slips, tally, NoFutureStart,
       TypeOK, Entry, Absent, Windows
  <1> QED
    BY <1>1, <1>2, <1>3, <1>4, <1>5, <1>6, <1>7, <1>8, <1>9, <1>10,
       <1>11, <1>12, <1>13, <1>14, <1>15, <1>16 DEF Next

(* Every step keeps the row's account of the window exact                  *)
(* (IncrementUsageWithReset).                                              *)
LEMMA PersistedUsageExactStep ==
  TypeOK /\ NoFutureStart /\ PersistedUsageExact /\ [Next]_vars
    => PersistedUsageExact'
  <1> SUFFICES ASSUME TypeOK, NoFutureStart, PersistedUsageExact, [Next]_vars
               PROVE  PersistedUsageExact'
    OBVIOUS
  <1> USE QuotaAssumption
  <1>1. ASSUME NEW r \in Requests, GetCache(r) PROVE PersistedUsageExact'
    <2>1. UnderWay' = UnderWay /\ CurrentWrites' = CurrentWrites
      BY <1>1, SameWrites DEF GetCache, writeVars
    <2> QED
      BY <1>1, <2>1 DEF GetCache, reqVars, writeVars, slips, tally,
         PersistedUsageExact, PersistedUsage, NoFutureStart, TypeOK,
         Entry, Absent, Windows
  <1>2. ASSUME NEW r \in Requests, LoadRow(r) PROVE PersistedUsageExact'
    <2>1. UnderWay' = UnderWay /\ CurrentWrites' = CurrentWrites
      BY <1>2, SameWrites DEF LoadRow, writeVars
    <2> QED
      BY <1>2, <2>1 DEF LoadRow, reqVars, writeVars, slips, tally,
         PersistedUsageExact, PersistedUsage, NoFutureStart, TypeOK,
         Entry, Absent, Windows
  <1>3. ASSUME NEW r \in Requests, DecideAndStore(r) PROVE PersistedUsageExact'
    <2>1. UnderWay' = UnderWay /\ CurrentWrites' = CurrentWrites
      BY <1>3, SameWrites DEF DecideAndStore, writeVars
    <2> QED
      BY <1>3, <2>1 DEF DecideAndStore, StoredStart, CountedUsage, Expired,
         reqVars, writeVars, slips, tally, PersistedUsageExact,
         PersistedUsage, NoFutureStart, TypeOK, Entry, Absent, Windows
  <1>4. ASSUME NEW r \in Requests, Decide(r) PROVE PersistedUsageExact'
    <2>1. UnderWay' = UnderWay /\ CurrentWrites' = CurrentWrites
      BY <1>4, SameWrites DEF Decide, writeVars
    <2> QED
      BY <1>4, <2>1 DEF Decide, reqVars, writeVars, slips, tally,
         PersistedUsageExact, PersistedUsage, NoFutureStart, TypeOK,
         Entry, Absent, Windows
  <1>5. ASSUME NEW r \in Requests, StoreEntry(r) PROVE PersistedUsageExact'
    <2>1. UnderWay' = UnderWay /\ CurrentWrites' = CurrentWrites
      BY <1>5, SameWrites DEF StoreEntry, writeVars
    <2> QED
      BY <1>5, <2>1 DEF StoreEntry, reqVars, writeVars, slips, tally,
         PersistedUsageExact, PersistedUsage, NoFutureStart, TypeOK,
         Entry, Absent, Windows
  <1>6. ASSUME NEW r \in Requests, Charge(r) PROVE PersistedUsageExact'
    <2>1. Cardinality(CurrentWrites') = Cardinality(CurrentWrites) + 1
      BY <1>6, StartCounts DEF Charge
    <2>2. PersistedUsage' = PersistedUsage
      BY <1>6 DEF Charge, PersistedUsage
    <2>3. Cardinality(CurrentWrites) \in Nat /\ PersistedUsage \in Nat
      BY WritesFinite DEF PersistedUsage, TypeOK, Entry
    <2> QED
      BY <1>6, <2>1, <2>2, <2>3 DEF Charge, slips, PersistedUsageExact, TypeOK
  <1>7. ASSUME NEW r \in Requests, EndUncharged(r) PROVE PersistedUsageExact'
    <2>1. UnderWay' = UnderWay /\ CurrentWrites' = CurrentWrites
      BY <1>7, SameWrites DEF EndUncharged, writeVars
    <2> QED
      BY <1>7, <2>1 DEF EndUncharged, reqVars, writeVars, slips, tally,
         PersistedUsageExact, PersistedUsage, NoFutureStart, TypeOK,
         Entry, Absent, Windows
  <1>8. ASSUME NEW g \in Writers, ReadClock(g) PROVE PersistedUsageExact'
    <2>1. UnderWay' = UnderWay /\ CurrentWrites' = CurrentWrites
      BY <1>8, DatingKeepsWrites
    <2> QED
      BY <1>8, <2>1 DEF ReadClock, reqVars, writeVars, slips, tally,
         PersistedUsageExact, PersistedUsage, NoFutureStart, TypeOK,
         Entry, Absent, Windows
  <1>9. ASSUME NEW g \in Writers, WriteRow(g) PROVE PersistedUsageExact'
    <2>1. Cardinality(CurrentWrites')
            = Cardinality(CurrentWrites) - (IF clock[g] = now THEN 1 ELSE 0)
      BY <1>9, EndWriteCounts DEF WriteRow, Current
    <2>2. /\ Cardinality(CurrentWrites) \in Nat /\ row.usage \in Nat
          /\ now \in Nat /\ clock[g] \in Nat /\ row.start \in Nat
          /\ clock[g] <= now /\ row \in Entry
      BY WritesFinite DEF TypeOK, Entry, Windows, NoFutureStart
    <2>3. /\ row'.start = clock[g] /\ now' = now
          /\ row'.usage = maybeReset(row.usage, row.start, clock[g])
      BY <1>9, <2>2 DEF WriteRow, Entry
    <2>4. CASE clock[g] = now
      <3>1. PersistedUsage' = PersistedUsage + 1
        BY <2>2, <2>3, <2>4 DEF PersistedUsage, maybeReset
      <3>2. erased' = erased /\ PersistedUsage \in Nat
        BY <1>9, <2>2, <2>4 DEF WriteRow, PersistedUsage, TypeOK
      <3> QED
        BY <1>9, <2>1, <2>2, <2>4, <3>1, <3>2
           DEF WriteRow, PersistedUsageExact, TypeOK
    <2>5. CASE clock[g] # now
      <3>1. PersistedUsage' = 0 /\ PersistedUsage \in Nat
        BY <2>2, <2>3, <2>5 DEF PersistedUsage
      <3>2. erased' = erased + PersistedUsage
        BY <1>9, <2>2, <2>5 DEF WriteRow
      <3> QED
        BY <1>9, <2>1, <2>2, <2>5, <3>1, <3>2
           DEF WriteRow, PersistedUsageExact, TypeOK
    <2> QED
      BY <2>4, <2>5
  <1>10. ASSUME NEW g \in Writers, SelectMissing(g) PROVE PersistedUsageExact'
    <2>1. UnderWay' = UnderWay /\ CurrentWrites' = CurrentWrites
      BY <1>10, DatingKeepsWrites
    <2> QED
      BY <1>10, <2>1 DEF SelectMissing, reqVars, writeVars, slips, tally,
         PersistedUsageExact, PersistedUsage, NoFutureStart, TypeOK,
         Entry, Absent, Windows
  <1>11. ASSUME NEW g \in Writers, InsertRow(g) PROVE PersistedUsageExact'
    <2>1. Cardinality(CurrentWrites')
            = Cardinality(CurrentWrites) - (IF clock[g] = now THEN 1 ELSE 0)
      BY <1>11, EndWriteCounts DEF InsertRow, Current
    <2>2. /\ Cardinality(CurrentWrites) \in Nat /\ row.usage \in Nat
          /\ now \in Nat /\ clock[g] \in Nat /\ row.start \in Nat
          /\ now # 0 /\ row \in Entry /\ now' = now
      BY <1>11, WritesFinite DEF InsertRow, TypeOK, Entry, Windows
    <2>3. CASE row.kind = "none"
      <3>1. /\ PersistedUsage = 0 /\ misfiled' = misfiled
            /\ PersistedUsage' = IF clock[g] = now THEN 1 ELSE 0
        BY <1>11, <2>2, <2>3 DEF InsertRow, PersistedUsage, NoFutureStart
      <3> QED
        BY <1>11, <2>1, <2>2, <3>1 DEF InsertRow, PersistedUsageExact, TypeOK
    <2>4. CASE row.kind = "v1"
      <3>1. row' = [row EXCEPT !.usage = row.usage + 1]
        BY <1>11, <2>4 DEF InsertRow
      <3>2. row'.start = row.start /\ row'.usage = row.usage + 1
        BY <3>1, <2>2 DEF Entry
      <3>3. PersistedUsage' = PersistedUsage + IF row.start = now THEN 1 ELSE 0
        BY <2>2, <3>2 DEF PersistedUsage
      <3>4. PersistedUsage \in Nat
        BY <2>2 DEF PersistedUsage
      <3>5. misfiled' = misfiled + (IF clock[g] = now THEN 1 ELSE 0)
                                 - (IF row.start = now THEN 1 ELSE 0)
        BY <1>11, <2>4 DEF InsertRow
      <3> QED
        BY <1>11, <2>1, <2>2, <3>3, <3>4, <3>5
           DEF InsertRow, PersistedUsageExact, TypeOK
    <2> QED
      BY <1>11, <2>3, <2>4 DEF InsertRow
  <1>12. ASSUME NEW g \in Writers, WriteRowFails(g) PROVE PersistedUsageExact'
    <2>1. Cardinality(CurrentWrites')
            = Cardinality(CurrentWrites) - (IF Current(g) THEN 1 ELSE 0)
      BY <1>12, EndWriteCounts DEF WriteRowFails
    <2>2. PersistedUsage' = PersistedUsage
      BY <1>12 DEF WriteRowFails, PersistedUsage
    <2>3. Cardinality(CurrentWrites) \in Nat /\ PersistedUsage \in Nat
      BY WritesFinite DEF PersistedUsage, TypeOK, Entry
    <2> QED
      BY <1>12, <2>1, <2>2, <2>3 DEF WriteRowFails, PersistedUsageExact, TypeOK
  <1>13. ASSUME InsertInitial PROVE PersistedUsageExact'
    <2>1. UnderWay' = UnderWay /\ CurrentWrites' = CurrentWrites
      BY <1>13, SameWrites DEF InsertInitial, writeVars
    <2> QED
      BY <1>13, <2>1 DEF InsertInitial, reqVars, writeVars, slips, tally,
         PersistedUsageExact, PersistedUsage, NoFutureStart, TypeOK,
         Entry, Absent, Windows
  <1>14. ASSUME CacheExpires PROVE PersistedUsageExact'
    <2>1. UnderWay' = UnderWay /\ CurrentWrites' = CurrentWrites
      BY <1>14, SameWrites DEF CacheExpires, writeVars
    <2> QED
      BY <1>14, <2>1 DEF CacheExpires, reqVars, writeVars, slips, tally,
         PersistedUsageExact, PersistedUsage, NoFutureStart, TypeOK,
         Entry, Absent, Windows
  <1>15. ASSUME NextWindow PROVE PersistedUsageExact'
    <2>1. CurrentWrites' = Undated
      BY <1>15 DEF NextWindow, writeVars, CurrentWrites, Current, Undated,
         NoFutureStart, TypeOK, Windows
    <2>2. PersistedUsage' = 0
      BY <1>15 DEF NextWindow, PersistedUsage, NoFutureStart, TypeOK, Entry,
         Windows
    <2>3. Cardinality(Undated) \in Nat
      BY WritesFinite
    <2> QED
      BY <1>15, <2>1, <2>2, <2>3 DEF NextWindow, PersistedUsageExact
  <1>16. CASE UNCHANGED vars
    <2>1. UnderWay' = UnderWay /\ CurrentWrites' = CurrentWrites
      BY <1>16, SameWrites DEF vars
    <2> QED
      BY <1>16, <2>1 DEF vars, reqVars, writeVars, slips, tally,
         PersistedUsageExact, PersistedUsage, NoFutureStart, TypeOK,
         Entry, Absent, Windows
  <1> QED
    BY <1>1, <1>2, <1>3, <1>4, <1>5, <1>6, <1>7, <1>8, <1>9, <1>10,
       <1>11, <1>12, <1>13, <1>14, <1>15, <1>16 DEF Next

(* No step makes a copy of the usage, in Redis or in a request, exceed     *)
(* what was charged (StoreEntry, Charge, IncrementUsageWithReset).         *)
LEMMA CopiesSoundStep ==
  TypeOK /\ NoFutureStart /\ CopiesSound /\ [Next]_vars => CopiesSound'
  <1> SUFFICES ASSUME TypeOK, NoFutureStart, CopiesSound, [Next]_vars
               PROVE  CopiesSound'
    OBVIOUS
  <1> USE QuotaAssumption
  <1>1. ASSUME NEW r \in Requests, GetCache(r) PROVE CopiesSound'
    <2>1. UnderWay' = UnderWay /\ CurrentWrites' = CurrentWrites
      BY <1>1, SameWrites DEF GetCache, writeVars
    <2> QED
      BY <1>1, <2>1 DEF GetCache, reqVars, writeVars, slips, tally,
         CopiesSound, NoFutureStart, PersistedUsage, TypeOK, Entry,
         Absent, Windows
  <1>2. ASSUME NEW r \in Requests, LoadRow(r) PROVE CopiesSound'
    <2>1. UnderWay' = UnderWay
      BY <1>2, SameWrites DEF LoadRow, writeVars
    <2>2. row.start = now => row.usage <= spent + carried
      BY WritesFinite DEF CopiesSound, PersistedUsage, TypeOK, Entry
    <2> QED
      BY <1>2, <2>1, <2>2 DEF LoadRow, tally, slips, CopiesSound, PersistedUsage,
         TypeOK, Entry
  <1>3. ASSUME NEW r \in Requests, DecideAndStore(r) PROVE CopiesSound'
    <2>1. UnderWay' = UnderWay /\ CurrentWrites' = CurrentWrites
      BY <1>3, SameWrites DEF DecideAndStore, writeVars
    <2> QED
      BY <1>3, <2>1 DEF DecideAndStore, StoredStart, CountedUsage, Expired,
         reqVars, writeVars, slips, tally, CopiesSound, NoFutureStart,
         PersistedUsage, TypeOK, Entry, Absent, Windows
  <1>4. ASSUME NEW r \in Requests, Decide(r) PROVE CopiesSound'
    <2>1. UnderWay' = UnderWay /\ CurrentWrites' = CurrentWrites
      BY <1>4, SameWrites DEF Decide, writeVars
    <2> QED
      BY <1>4, <2>1 DEF Decide, reqVars, writeVars, slips, tally,
         CopiesSound, NoFutureStart, PersistedUsage, TypeOK, Entry,
         Absent, Windows
  <1>5. ASSUME NEW r \in Requests, StoreEntry(r) PROVE CopiesSound'
    <2>1. UnderWay' = UnderWay /\ CurrentWrites' = CurrentWrites
      BY <1>5, SameWrites DEF StoreEntry, writeVars
    <2> QED
      BY <1>5, <2>1 DEF StoreEntry, reqVars, writeVars, slips, tally,
         CopiesSound, NoFutureStart, PersistedUsage, TypeOK, Entry,
         Absent, Windows
  <1>6. ASSUME NEW r \in Requests, Charge(r) PROVE CopiesSound'
    <2>1. Cardinality(UnderWay') = Cardinality(UnderWay) + 1
      BY <1>6, StartCounts DEF Charge
    <2>2. PersistedUsage' = PersistedUsage /\ PersistedUsage \in Nat
      BY <1>6 DEF Charge, PersistedUsage, TypeOK, Entry
    <2>3. Cardinality(UnderWay) \in Nat
      BY WritesFinite
    <2>4. (PersistedUsage + Cardinality(UnderWay) <= spent + carried)'
      BY <1>6, <2>1, <2>2, <2>3 DEF Charge, CopiesSound, TypeOK
    <2>5. (cache.start = now => cache.usage <= spent + carried)'
      BY <1>6 DEF Charge, IncrUsage, CopiesSound, TypeOK, Entry
    <2>6. (\A q \in Requests :
             snap[q].start = now => snap[q].usage <= spent + carried)'
      BY <1>6 DEF Charge, CopiesSound, TypeOK, Entry
    <2> QED
      BY <2>4, <2>5, <2>6 DEF CopiesSound
  <1>7. ASSUME NEW r \in Requests, EndUncharged(r) PROVE CopiesSound'
    <2>1. UnderWay' = UnderWay /\ CurrentWrites' = CurrentWrites
      BY <1>7, SameWrites DEF EndUncharged, writeVars
    <2> QED
      BY <1>7, <2>1 DEF EndUncharged, reqVars, writeVars, slips, tally,
         CopiesSound, NoFutureStart, PersistedUsage, TypeOK, Entry,
         Absent, Windows
  <1>8. ASSUME NEW g \in Writers, ReadClock(g) PROVE CopiesSound'
    <2>1. UnderWay' = UnderWay /\ CurrentWrites' = CurrentWrites
      BY <1>8, DatingKeepsWrites
    <2> QED
      BY <1>8, <2>1 DEF ReadClock, reqVars, writeVars, slips, tally,
         CopiesSound, NoFutureStart, PersistedUsage, TypeOK, Entry,
         Absent, Windows
  <1>9. ASSUME NEW g \in Writers, WriteRow(g) PROVE CopiesSound'
    <2>1. Cardinality(UnderWay') = Cardinality(UnderWay) - 1
      BY <1>9, EndWriteCounts DEF WriteRow
    <2>2. /\ Cardinality(UnderWay) \in Nat /\ PersistedUsage \in Nat
          /\ row \in Entry /\ now' = now
      BY <1>9, WritesFinite DEF WriteRow, PersistedUsage, TypeOK, Entry
    <2>3. PersistedUsage' \in Nat /\ PersistedUsage' <= PersistedUsage + 1
      <3>1. /\ row'.start = clock[g]
            /\ row'.usage = maybeReset(row.usage, row.start, clock[g])
        BY <1>9, <2>2 DEF WriteRow, Entry
      <3> QED
        BY <2>2, <3>1 DEF PersistedUsage, maybeReset, Entry
    <2>4. PersistedUsage' + Cardinality(UnderWay') <= spent + carried
      BY <2>1, <2>2, <2>3 DEF CopiesSound, TypeOK
    <2> QED
      BY <1>9, <2>4 DEF WriteRow, reqVars, CopiesSound
  <1>10. ASSUME NEW g \in Writers, SelectMissing(g) PROVE CopiesSound'
    <2>1. UnderWay' = UnderWay /\ CurrentWrites' = CurrentWrites
      BY <1>10, DatingKeepsWrites
    <2> QED
      BY <1>10, <2>1 DEF SelectMissing, reqVars, writeVars, slips, tally,
         CopiesSound, NoFutureStart, PersistedUsage, TypeOK, Entry,
         Absent, Windows
  <1>11. ASSUME NEW g \in Writers, InsertRow(g) PROVE CopiesSound'
    <2>1. Cardinality(UnderWay') = Cardinality(UnderWay) - 1
      BY <1>11, EndWriteCounts DEF InsertRow
    <2>2. /\ Cardinality(UnderWay) \in Nat /\ PersistedUsage \in Nat
          /\ row \in Entry /\ now' = now
      BY <1>11, WritesFinite DEF InsertRow, PersistedUsage, TypeOK, Entry
    <2>3. PersistedUsage' \in Nat /\ PersistedUsage' <= PersistedUsage + 1
      <3>1. CASE row.kind = "none"
        BY <1>11, <2>2, <3>1 DEF InsertRow, PersistedUsage
      <3>2. CASE row.kind = "v1"
        <4>1. row' = [row EXCEPT !.usage = row.usage + 1]
          BY <1>11, <3>2 DEF InsertRow
        <4>2. row'.start = row.start /\ row'.usage = row.usage + 1
          BY <4>1, <2>2 DEF Entry
        <4> QED
          BY <2>2, <4>2 DEF PersistedUsage, Entry
      <3> QED
        BY <1>11, <3>1, <3>2 DEF InsertRow
    <2>4. PersistedUsage' + Cardinality(UnderWay') <= spent + carried
      BY <2>1, <2>2, <2>3 DEF CopiesSound, TypeOK
    <2> QED
      BY <1>11, <2>4 DEF InsertRow, reqVars, CopiesSound
  <1>12. ASSUME NEW g \in Writers, WriteRowFails(g) PROVE CopiesSound'
    <2>1. Cardinality(UnderWay') = Cardinality(UnderWay) - 1
      BY <1>12, EndWriteCounts DEF WriteRowFails
    <2>2. /\ Cardinality(UnderWay) \in Nat /\ PersistedUsage \in Nat
          /\ row \in Entry /\ now' = now
      BY <1>12, WritesFinite DEF WriteRowFails, PersistedUsage, TypeOK, Entry
    <2>3. PersistedUsage' = PersistedUsage
      BY <1>12 DEF WriteRowFails, PersistedUsage
    <2>4. PersistedUsage' + Cardinality(UnderWay') <= spent + carried
      BY <2>1, <2>2, <2>3 DEF CopiesSound, TypeOK
    <2> QED
      BY <1>12, <2>4 DEF WriteRowFails, reqVars, CopiesSound
  <1>13. ASSUME InsertInitial PROVE CopiesSound'
    <2>1. UnderWay' = UnderWay /\ CurrentWrites' = CurrentWrites
      BY <1>13, SameWrites DEF InsertInitial, writeVars
    <2> QED
      BY <1>13, <2>1 DEF InsertInitial, reqVars, writeVars, slips, tally,
         CopiesSound, NoFutureStart, PersistedUsage, TypeOK, Entry,
         Absent, Windows
  <1>14. ASSUME CacheExpires PROVE CopiesSound'
    <2>1. UnderWay' = UnderWay /\ CurrentWrites' = CurrentWrites
      BY <1>14, SameWrites DEF CacheExpires, writeVars
    <2> QED
      BY <1>14, <2>1 DEF CacheExpires, reqVars, writeVars, slips, tally,
         CopiesSound, NoFutureStart, PersistedUsage, TypeOK, Entry,
         Absent, Windows
  <1>15. ASSUME NextWindow PROVE CopiesSound'
    <2>1. UnderWay' = UnderWay
      BY <1>15 DEF NextWindow, writeVars, UnderWay
    <2>2. PersistedUsage' = 0 /\ Cardinality(UnderWay) \in Nat
      BY <1>15, WritesFinite DEF NextWindow, PersistedUsage, NoFutureStart, TypeOK,
         Entry, Windows
    <2> QED
      BY <1>15, <2>1, <2>2 DEF NextWindow, reqVars, CopiesSound, NoFutureStart,
         TypeOK, Entry, Windows
  <1>16. CASE UNCHANGED vars
    <2>1. UnderWay' = UnderWay /\ CurrentWrites' = CurrentWrites
      BY <1>16, SameWrites DEF vars
    <2> QED
      BY <1>16, <2>1 DEF vars, reqVars, writeVars, slips, tally,
         CopiesSound, NoFutureStart, PersistedUsage, TypeOK, Entry,
         Absent, Windows
  <1> QED
    BY <1>1, <1>2, <1>3, <1>4, <1>5, <1>6, <1>7, <1>8, <1>9, <1>10,
       <1>11, <1>12, <1>13, <1>14, <1>15, <1>16 DEF Next

(* Every state of PlatformQuota satisfies the types and QuotaInv.          *)
THEOREM QuotaInvariant == Spec => [](TypeOK /\ QuotaInv)
  <1>1. Init => TypeOK /\ QuotaInv
    BY InitialTypes, InitialInv
  <1>2. TypeOK /\ QuotaInv /\ [Next]_vars => (TypeOK /\ QuotaInv)'
    BY TypeOKStep, NoFutureStartStep, PersistedUsageExactStep, CopiesSoundStep
       DEF QuotaInv
  <1> QED
    BY <1>1, <1>2, PTL DEF Spec

(* Type correctness of the row, the cached entry and the requests.         *)
THEOREM TypeCorrect == Spec => []TypeOK
  BY QuotaInvariant, PTL

(* The row, the writes under way and the failed ones account for every     *)
(* charge of the window exactly once, up to the usage an older clock reset *)
(* and the charges ON CONFLICT misfiled (IncrementUsageWithReset).         *)
THEOREM PersistedUsageIsExact == Spec => []PersistedUsageExact
  BY QuotaInvariant, PTL DEF QuotaInv

(* A check refuses only when the usage it read, in the current window,     *)
(* reached a limit; by CopiesSound that much was charged.                  *)
LEMMA RefusalStep ==
  TypeOK /\ QuotaInv /\ [Next]_vars =>
    \A r \in Requests : pc[r] = "decide" /\ pc'[r] \in {"storeReject", "idle"}
       => spent + carried >= Limit
  <1> SUFFICES ASSUME TypeOK, QuotaInv, [Next]_vars, NEW q \in Requests,
                      pc[q] = "decide", pc'[q] \in {"storeReject", "idle"}
               PROVE  spent + carried >= Limit
    OBVIOUS
  <1> USE QuotaAssumption
  <1>0. ~Passes(q) => spent + carried >= Limit
    <2> SUFFICES ASSUME ~Passes(q) PROVE spent + carried >= Limit
      OBVIOUS
    <2>1. /\ snap[q].limit \in {0, Limit} /\ snap[q].usage \in Nat
          /\ snap[q].start \in Nat /\ now \in Nat
          /\ spent \in Nat /\ carried \in Nat
      BY DEF TypeOK, Entry, Windows
    <2>2. snap[q].limit = Limit /\ CountedUsage(q) >= Limit
      BY <2>1 DEF Passes, Exhausted
    <2>3. ~Expired(snap[q].start) /\ snap[q].usage >= Limit
      BY <2>1, <2>2 DEF CountedUsage
    <2>4. snap[q].start = now
      BY <2>1, <2>3 DEF Expired, QuotaInv, NoFutureStart
    <2> QED
      BY <2>1, <2>3, <2>4 DEF QuotaInv, CopiesSound
  <1>1. ASSUME NEW r \in Requests, GetCache(r) PROVE ~Passes(q)
    BY <1>1 DEF GetCache, reqVars, writeVars, slips, tally, TypeOK
  <1>2. ASSUME NEW r \in Requests, LoadRow(r) PROVE ~Passes(q)
    BY <1>2 DEF LoadRow, reqVars, writeVars, slips, tally, TypeOK
  <1>3. ASSUME NEW r \in Requests, DecideAndStore(r) PROVE ~Passes(q)
    BY <1>3 DEF DecideAndStore, StoredStart, CountedUsage, Expired,
       reqVars, writeVars, slips, tally, TypeOK
  <1>4. ASSUME NEW r \in Requests, Decide(r) PROVE ~Passes(q)
    BY <1>4 DEF Decide, reqVars, writeVars, slips, tally, TypeOK
  <1>5. ASSUME NEW r \in Requests, StoreEntry(r) PROVE ~Passes(q)
    BY <1>5 DEF StoreEntry, reqVars, writeVars, slips, tally, TypeOK
  <1>6. ASSUME NEW r \in Requests, Charge(r) PROVE ~Passes(q)
    BY <1>6 DEF Charge, IncrUsage, reqVars, writeVars, slips, tally,
       TypeOK
  <1>7. ASSUME NEW r \in Requests, EndUncharged(r) PROVE ~Passes(q)
    BY <1>7 DEF EndUncharged, reqVars, writeVars, slips, tally, TypeOK
  <1>8. ASSUME NEW g \in Writers, ReadClock(g) PROVE ~Passes(q)
    BY <1>8 DEF ReadClock, reqVars, writeVars, slips, tally, TypeOK
  <1>9. ASSUME NEW g \in Writers, WriteRow(g) PROVE ~Passes(q)
    BY <1>9 DEF WriteRow, EndWrite, maybeReset, reqVars, writeVars,
       slips, tally, TypeOK
  <1>10. ASSUME NEW g \in Writers, SelectMissing(g) PROVE ~Passes(q)
    BY <1>10 DEF SelectMissing, reqVars, writeVars, slips, tally, TypeOK
  <1>11. ASSUME NEW g \in Writers, InsertRow(g) PROVE ~Passes(q)
    BY <1>11 DEF InsertRow, EndWrite, reqVars, writeVars, slips, tally,
       TypeOK
  <1>12. ASSUME NEW g \in Writers, WriteRowFails(g) PROVE ~Passes(q)
    BY <1>12 DEF WriteRowFails, EndWrite, reqVars, writeVars, slips,
       tally, TypeOK
  <1>13. ASSUME InsertInitial PROVE ~Passes(q)
    BY <1>13 DEF InsertInitial, reqVars, writeVars, slips, tally, TypeOK
  <1>14. ASSUME CacheExpires PROVE ~Passes(q)
    BY <1>14 DEF CacheExpires, reqVars, writeVars, slips, tally, TypeOK
  <1>15. ASSUME NextWindow PROVE ~Passes(q)
    BY <1>15 DEF NextWindow, reqVars, writeVars, slips, tally, TypeOK
  <1>16. CASE UNCHANGED vars
    BY <1>16 DEF vars, reqVars, writeVars, slips, tally, TypeOK
  <1> QED
    BY <1>0, <1>1, <1>2, <1>3, <1>4, <1>5, <1>6, <1>7, <1>8, <1>9, <1>10,
       <1>11, <1>12, <1>13, <1>14, <1>15, <1>16 DEF Next

(* No request is refused before the limit was really spent.                *)
THEOREM RefusalsAreJustified == Spec => NeverRejectedEarly
  <1>1. TypeOK /\ QuotaInv /\ [Next]_vars =>
          [\A r \in Requests :
             pc[r] = "decide" /\ pc'[r] \in {"storeReject", "idle"}
               => spent + carried >= Limit]_vars
    BY RefusalStep
  <1> QED
    BY <1>1, QuotaInvariant, PTL DEF Spec, NeverRejectedEarly
=============================================================================
