------------------------ MODULE OAuthRefreshProofs ------------------------
(***************************************************************************)
(* Invariants of OAuthRefresh for any number of processes, workers and     *)
(* requests, any retry limit and any number of failures.                   *)
(***************************************************************************)
EXTENDS OAuthRefresh, TLAPS

(* A call between its attempt at the Redis lock and its deferred calls.    *)
Inside(p) == pc[p] \in InLock \ {"lock"}

(* Only credentials inside the refresh window, or expired by a 401, are    *)
(* refreshed, and the last generation never gets there: the bound on       *)
(* generations is kept. A request has its account object to the end.       *)
TypeInv ==
    /\ TypeOK
    /\ near <= MaxGen - 1 /\ expiring <= near /\ \A g \in expired : g < MaxGen
    /\ \A p \in Procs :
         /\ pc[p] = "refresh" => fresh[p] < MaxGen
         /\ pc[p] = "persist" => fresh[p] \in Gens
    /\ \A r \in Requests :
         /\ pc[r] # "idle" => acct[r] \in Gens
         /\ pc[r] = "writeBack" => acct[r] < MaxGen

(* The mutex belongs to the caller in its process, the key to the caller   *)
(* that set it, and until Redis fails or a TTL ends early whoever is past  *)
(* the lock holds it.                                                      *)
LockInv ==
    /\ \A p \in Procs : pc[p] \in InLock => mutex[Home[p]] = p
    /\ \A p \in Procs : held[p] => Inside(p)
    /\ "unlocked" \notin why => \A p \in Procs : Inside(p) => held[p] /\ lock = p

(* The stored credentials may be older than the provider's.                *)
Behind == why \cap {"lost", "overwritten"} # {}

(* Until new credentials are lost or an old copy is written over them, no  *)
(* copy is newer than the row, except that of the one call that has just   *)
(* refreshed.                                                              *)
CredInv ==
    ~Behind =>
        /\ newest = stored
        /\ \A p \in Procs :
             /\ acct[p] <= stored
             /\ pc[p] # "persist" => fresh[p] <= stored
             /\ pc[p] = "persist" => fresh[p] = live /\ stored < live
        /\ \A p, q \in Procs : pc[p] = "persist" /\ pc[q] = "persist" => p = q
        /\ (\A p \in Procs : pc[p] # "persist") => stored = live

Blamed ==
    why \cap {"lost", "overwritten", "unlocked", "unread", "reused", "refused"} # {}

(* A token refused as used is no longer the stored one, unless the row was *)
(* behind or two refreshes overlapped.                                     *)
ErrorInv ==
    /\ status = "error" => Blamed
    /\ \A p \in Procs : pc[p] \in {"denied", "setError"} => Blamed
    /\ \A p \in Procs :
         pc[p] = "recover" /\ ~Behind /\ "unlocked" \notin why => fresh[p] # stored

(* Until a token is written across an update, a request about to cache one *)
(* has the stored one.                                                     *)
CacheInv ==
    why \cap {"raced", "dropped", "overwritten"} = {} =>
        /\ cache = None \/ cache >= stored \/ \E p \in Procs : UpdatesCache(p)
        /\ \A r \in Requests : pc[r] = "set" => fresh[r] >= stored
-----------------------------------------------------------------------------
(* Inductive steps, one per action.                                        *)

(* What the end of a call does to its locals.                              *)
LEMMA DoneEffect ==
  ASSUME TypeOK, NEW p \in Procs, Done(p)
  PROVE  /\ pc' \in [Procs -> States] /\ own' \in [Procs -> BOOLEAN]
         /\ acct' \in [Procs -> Gens \cup {None}]
         /\ fresh' \in [Procs -> Gens \cup {None}]
         /\ attempt' \in [Procs -> 0..MaxRetries]
         /\ pc'[p] = "idle" /\ acct'[p] = None /\ fresh'[p] = None
         /\ \A q \in Procs : q # p => /\ pc'[q] = pc[q]
                                     /\ acct'[q] = acct[q] /\ fresh'[q] = fresh[q]
  <1>1. own' \in [Procs -> BOOLEAN]
    BY DEF Done, Forget, TypeOK
  <1> QED
    BY <1>1, RefreshAssumption DEF Done, Forget, To, TypeOK, States, None

(* What a request with its token keeps.                                    *)
LEMMA ForwardEffect ==
  ASSUME TypeOK, NEW r \in Requests, Forward(r)
  PROVE  /\ pc' \in [Procs -> States] /\ own' \in [Procs -> BOOLEAN]
         /\ acct' = acct /\ attempt' = attempt
         /\ fresh' \in [Procs -> Gens \cup {None}]
         /\ pc'[r] = "forward" /\ fresh'[r] = None
         /\ \A q \in Procs : q # r => pc'[q] = pc[q] /\ fresh'[q] = fresh[q]
  <1>1. own' \in [Procs -> BOOLEAN]
    BY DEF Forward, TypeOK
  <1> QED
    BY <1>1, RefreshAssumption DEF Forward, To, TypeOK, States, None, Procs

(* What the deferred calls and the caller's next step do to its locals.    *)
LEMMA ReleaseEffect ==
  ASSUME TypeOK, NEW p \in Procs, Release(p)
  PROVE  /\ pc[p] \in {"refreshed", "current", "denied", "error"}
         /\ pc'[p] \in {"check", "post", "idle", "setError", "mutex", "giveUp"}
         /\ pc'[p] = "setError" => pc[p] = "denied"
         /\ p \in Workers /\ pc[p] = "refreshed" => pc'[p] = "post"
         /\ p \in Requests => pc'[p] = "check"
         /\ p \in Requests => acct'[p] = acct[p]
         /\ p \in Requests /\ pc[p] = "refreshed" => fresh'[p] = fresh[p]
         /\ fresh'[p] \in {fresh[p], acct[p], None}
         /\ acct'[p] \in {acct[p], None}
         /\ \A q \in Procs : q # p => /\ pc'[q] = pc[q]
                                     /\ acct'[q] = acct[q] /\ fresh'[q] = fresh[q]
  <1> USE RefreshAssumption DEF Procs, To
  <1>1. CASE p \in Requests
    BY <1>1 DEF Release, Continue, procVars, TypeOK
  <1>2. CASE p \in Workers /\ pc[p] = "current"
    BY <1>2, DoneEffect DEF Release, Continue
  <1>3. CASE p \in Workers /\ pc[p] \in {"refreshed", "denied"}
    BY <1>3 DEF Release, Continue, procVars, TypeOK
  <1>4. CASE p \in Workers /\ pc[p] = "error"
    BY <1>4 DEF Release, Continue, RetriesLeft, procVars, TypeOK
  <1> QED
    BY <1>1, <1>2, <1>3, <1>4 DEF Release

(* Every step keeps TypeInv.                                               *)
LEMMA TypeInvStep == TypeInv /\ [Next]_vars => TypeInv'
  <1> SUFFICES ASSUME TypeInv, [Next]_vars
               PROVE  TypeInv'
    OBVIOUS
  <1> USE RefreshAssumption DEF To, Fault, Because, Procs, Gens, None, rowVars,
      Reasons
  <1>1. ASSUME NEW p \in Procs, LocalLock(p) PROVE TypeInv'
    BY <1>1 DEF LocalLock, dbVars, clockVars, procVars, TypeInv, TypeOK,
       States, InLock
  <1>2. ASSUME NEW p \in Procs, AcquireRefreshLock(p) PROVE TypeInv'
    BY <1>2 DEF AcquireRefreshLock, dbVars, clockVars, procVars, TypeInv,
       TypeOK, States, InLock
  <1>3. ASSUME NEW p \in Procs, LockHeld(p) PROVE TypeInv'
    <2>1. CASE p \in Workers
      BY <1>3, <2>1, DoneEffect DEF LockHeld, dbVars, clockVars, TypeInv, TypeOK
    <2>2. CASE p \notin Workers
      BY <1>3, <2>2 DEF LockHeld, dbVars, clockVars, procVars, TypeInv, TypeOK, States,
          InLock
    <2> QED
      BY <2>1, <2>2
  <1>4. ASSUME NEW p \in Procs, Reread(p) PROVE TypeInv'
    BY <1>4 DEF Reread, NeedsRefresh, Window, dbVars, clockVars, procVars, TypeInv,
       TypeOK, States, InLock
  <1>5. ASSUME NEW p \in Procs, Refresh(p) PROVE TypeInv'
    BY <1>5 DEF Refresh, dbVars, clockVars, procVars, TypeInv, TypeOK,
       States, InLock
  <1>6. ASSUME NEW p \in Procs, InvalidGrant(p) PROVE TypeInv'
    BY <1>6 DEF InvalidGrant, dbVars, clockVars, procVars, TypeInv, TypeOK,
       States, InLock
  <1>7. ASSUME NEW p \in Procs, Recover(p) PROVE TypeInv'
    <2>1. fresh' \in [Procs -> Gens \cup {None}] /\ faults' \in 0..MaxFaults
      BY <1>7 DEF Recover, TypeInv, TypeOK
    <2>2. why' \subseteq Reasons
      BY <1>7 DEF Recover, TypeInv, TypeOK
    <2>3. pc' \in [Procs -> States] /\ pc'[p] \in {"current", "denied"}
      BY <1>7 DEF Recover, TypeInv, TypeOK, States, InLock
    <2>4. \A q \in Procs \ {p} : pc'[q] = pc[q] /\ fresh'[q] = fresh[q]
      BY <1>7 DEF Recover, TypeInv, TypeOK
    <2> QED
      BY <1>7, <2>1, <2>2, <2>3, <2>4 DEF Recover, dbVars, clockVars, TypeInv, TypeOK
  <1>8. ASSUME NEW p \in Procs, Persist(p) PROVE TypeInv'
    BY <1>8 DEF Persist, Store, Raced, dbVars, clockVars, procVars, TypeInv,
       TypeOK, States, InLock
  <1>9. ASSUME NEW p \in Procs, Release(p) PROVE TypeInv'
    <2> DEFINE Pcs == pc' \in [Procs -> States]
               Locals == /\ acct' \in [Procs -> Gens \cup {None}]
                         /\ fresh' \in [Procs -> Gens \cup {None}]
                         /\ own' \in [Procs -> BOOLEAN]
                         /\ attempt' \in [Procs -> 0..MaxRetries]
               Others == /\ pc'[p] \notin {"refresh", "persist"}
                         /\ p \in Requests =>
                              pc[p] # "idle" /\ pc'[p] = "check" /\ acct'[p] = acct[p]
                         /\ \A q \in Procs \ {p} : /\ pc'[q] = pc[q]
                                                 /\ acct'[q] = acct[q]
                                                 /\ fresh'[q] = fresh[q]
    <2>1. Pcs /\ Locals /\ Others
      <3>1. CASE p \in Requests
        <4>1. own' \in [Procs -> BOOLEAN]
          BY <1>9, <3>1 DEF Release, Continue, TypeInv, TypeOK
        <4>2. fresh' \in [Procs -> Gens \cup {None}]
          BY <1>9, <3>1 DEF Release, Continue, TypeInv, TypeOK
        <4> QED
          BY <1>9, <3>1, <4>1, <4>2, ReleaseEffect
             DEF Release, Continue, TypeInv, TypeOK, States
      <3>2. CASE p \in Workers /\ pc[p] = "current"
        BY <1>9, <3>2, DoneEffect DEF Release, Continue, TypeInv
      <3>3. CASE p \in Workers /\ pc[p] \in {"refreshed", "denied"}
        BY <1>9, <3>3
           DEF Release, Continue, dbVars, clockVars, procVars, TypeInv, TypeOK, States,
          InLock
      <3>4. CASE p \in Workers /\ pc[p] = "error"
        BY <1>9, <3>4
           DEF Release, Continue, RetriesLeft, dbVars, clockVars, procVars, TypeInv, TypeOK, States,
          InLock
      <3> QED
        BY <1>9, <3>1, <3>2, <3>3, <3>4 DEF Release
    <2>2. held' \in [Procs -> BOOLEAN]
      BY <1>9 DEF Release, TypeInv, TypeOK
    <2>3. /\ lock' \in Procs \cup {Nobody} /\ faults' \in 0..MaxFaults
          /\ mutex' \in [Instances -> Procs \cup {Nobody}]
      BY <1>9 DEF Release, TypeInv, TypeOK
    <2> QED
      BY <1>9, <2>1, <2>2, <2>3 DEF Release, dbVars, clockVars, TypeInv, TypeOK
  <1>10. ASSUME NEW p \in Procs, LockDegraded(p) PROVE TypeInv'
    BY <1>10 DEF LockDegraded, dbVars, clockVars, procVars, TypeInv, TypeOK,
       States, InLock
  <1>11. ASSUME NEW p \in Procs, RefreshFails(p) PROVE TypeInv'
    BY <1>11 DEF RefreshFails, dbVars, clockVars, procVars, TypeInv, TypeOK,
       States, InLock
  <1>12. ASSUME NEW p \in Procs, PersistFails(p) PROVE TypeInv'
    <2>1. why' \subseteq Reasons
      <3>1. why' \in {why \cup {"lost"}, why \cup {"dropped"}}
        BY <1>12 DEF PersistFails
      <3> QED
        BY <3>1 DEF TypeInv, TypeOK
    <2>2. stored' \in Gens /\ newest' \in Gens /\ faults' \in 0..MaxFaults
      BY <1>12 DEF PersistFails, Store, TypeInv, TypeOK
    <2>3. /\ acct' \in [Procs -> Gens \cup {None}]
          /\ \A r \in Requests : pc[r] # "idle" => acct'[r] \in Gens
          /\ \A q \in Procs \ {p} : acct'[q] = acct[q]
      BY <1>12 DEF PersistFails, TypeInv, TypeOK
    <2>4. /\ pc' \in [Procs -> States] /\ pc'[p] = "error"
          /\ \A q \in Procs \ {p} : pc'[q] = pc[q]
      BY <1>12 DEF PersistFails, TypeInv, TypeOK, States, InLock
    <2> QED
      BY <1>12, <2>1, <2>2, <2>3, <2>4 DEF PersistFails, clockVars, TypeInv, TypeOK
  <1>13. ASSUME NEW w \in Workers, Cycle(w) PROVE TypeInv'
    BY <1>13 DEF Cycle, NeedsRefresh, Window, dbVars, clockVars, procVars, TypeInv,
       TypeOK, States, InLock
  <1>14. ASSUME NEW w \in Workers, PostRefresh(w) PROVE TypeInv'
    <2>1. unsched' \in BOOLEAN
      BY <1>14, Zenon DEF PostRefresh, TypeInv, TypeOK
    <2>2. cache' \in Gens \cup {None} /\ faults' \in 0..MaxFaults
      BY <1>14 DEF PostRefresh, TypeInv, TypeOK
    <2>3. why' \subseteq Reasons
      BY <1>14 DEF PostRefresh, TypeInv, TypeOK
    <2> QED
      BY <1>14, <2>1, <2>2, <2>3, DoneEffect
         DEF PostRefresh, dbVars, clockVars, TypeInv, TypeOK
  <1>15. ASSUME NEW p \in Procs, SetError(p) PROVE TypeInv'
    BY <1>15 DEF SetError, Done, Forget, dbVars, clockVars, procVars,
       TypeInv, TypeOK, States, InLock
  <1>16. ASSUME NEW p \in Procs, SetTempUnschedulable(p) PROVE TypeInv'
    <2>1. unsched' \in BOOLEAN
      BY <1>16, Zenon DEF SetTempUnschedulable, TypeInv, TypeOK
    <2> QED
      BY <1>16, <2>1, DoneEffect
         DEF SetTempUnschedulable, dbVars, clockVars, TypeInv, TypeOK
  <1>17. ASSUME NEW r \in Requests, GetAccessToken(r) PROVE TypeInv'
    BY <1>17 DEF GetAccessToken, NeedsRefresh, Window, dbVars, clockVars, procVars,
       TypeInv, TypeOK, States, InLock
  <1>18. ASSUME NEW r \in Requests, WaitForCache(r) PROVE TypeInv'
    <2>1. faults' \in 0..MaxFaults
      BY <1>18 DEF WaitForCache, TypeInv, TypeOK
    <2>2. CASE Forward(r)
      BY <1>18, <2>1, <2>2, ForwardEffect
         DEF WaitForCache, dbVars, clockVars, TypeInv, TypeOK
    <2>3. CASE ~Forward(r)
      BY <1>18, <2>1, <2>3 DEF WaitForCache, dbVars, clockVars, TypeInv, TypeOK, States
    <2> QED
      BY <2>2, <2>3
  <1>19. ASSUME NEW r \in Requests, CheckTokenVersion(r) PROVE TypeInv'
    <2>1. faults' \in 0..MaxFaults
      BY <1>19 DEF CheckTokenVersion, TypeInv, TypeOK
    <2>2. why' \subseteq Reasons
      <3>1. why' \in {why, why \cup {"raced"}}
        BY <1>19 DEF CheckTokenVersion, procVars
      <3> QED
        BY <3>1 DEF TypeInv, TypeOK
    <2>3. CASE Forward(r)
      BY <1>19, <2>1, <2>2, <2>3, ForwardEffect
         DEF CheckTokenVersion, dbVars, clockVars, TypeInv, TypeOK
    <2>4. CASE ~Forward(r)
      BY <1>19, <2>1, <2>2, <2>4
         DEF CheckTokenVersion, dbVars, clockVars, procVars, TypeInv, TypeOK, States
    <2> QED
      BY <2>3, <2>4
  <1>20. ASSUME NEW r \in Requests, SetAccessToken(r) PROVE TypeInv'
    <2>1. cache' \in Gens \cup {None} /\ faults' \in 0..MaxFaults
      BY <1>20 DEF SetAccessToken, TypeInv, TypeOK
    <2>2. why' \subseteq Reasons
      BY <1>20 DEF SetAccessToken, TypeInv, TypeOK
    <2> QED
      BY <1>20, <2>1, <2>2, ForwardEffect
         DEF SetAccessToken, dbVars, clockVars, TypeInv, TypeOK
  <1>21. ASSUME NEW p \in Procs, RefreshRefused(p) PROVE TypeInv'
    BY <1>21 DEF RefreshRefused, dbVars, clockVars, procVars, TypeInv, TypeOK,
       States, InLock
  <1>22. ASSUME NEW r \in Requests, Answered(r) PROVE TypeInv'
    BY <1>22 DEF Answered, Done, Forget, dbVars, clockVars, procVars, TypeInv, TypeOK,
       States, InLock
  <1>23. ASSUME NEW r \in Requests, Unauthorized(r) PROVE TypeInv'
    <2>1. why' \subseteq Reasons
      <3>1. why' \in {why, why \cup {"refused"}}
        BY <1>23 DEF Unauthorized
      <3> QED
        BY <3>1 DEF TypeInv, TypeOK
    <2>2. /\ faults' \in 0..MaxFaults /\ cache' \in Gens \cup {None}
          /\ pc' \in [Procs -> States] /\ pc[r] = "forward"
          /\ pc'[r] \in {"setError", "writeBack"}
          /\ \A q \in Procs \ {r} : pc'[q] = pc[q]
      BY <1>23 DEF Unauthorized, TypeInv, TypeOK, States
    <2> QED
      BY <1>23, <2>1, <2>2
         DEF Unauthorized, dbVars, clockVars, procVars, TypeInv, TypeOK
  <1>24. ASSUME NEW r \in Requests, WriteBack(r) PROVE TypeInv'
    <2>1. why' \subseteq Reasons
      <3>1. why' \in {why, why \cup {"overwritten"}}
        BY <1>24 DEF WriteBack
      <3> QED
        BY <3>1 DEF TypeInv, TypeOK
    <2>2. acct[r] \in Gens /\ acct[r] < MaxGen
      BY <1>24 DEF WriteBack, TypeInv
    <2>3. stored' \in Gens /\ newest' \in Gens /\ faults' \in 0..MaxFaults
      BY <1>24, <2>2 DEF WriteBack, Store, TypeInv, TypeOK
    <2>4. expired' \subseteq Gens /\ \A g \in expired' : g < MaxGen
      BY <1>24, <2>2 DEF WriteBack, TypeInv, TypeOK
    <2>5. /\ pc' \in [Procs -> States] /\ pc'[r] = "giveUp"
          /\ pc[r] # "idle" /\ \A q \in Procs \ {r} : pc'[q] = pc[q]
      BY <1>24 DEF WriteBack, TypeInv, TypeOK, States
    <2> QED
      BY <1>24, <2>1, <2>3, <2>4, <2>5 DEF WriteBack, procVars, TypeInv, TypeOK
  <1>25. ASSUME TokenNears PROVE TypeInv'
    BY <1>25 DEF TokenNears, dbVars, clockVars, procVars, TypeInv, TypeOK,
       States, InLock
  <1>26. ASSUME TokenExpires PROVE TypeInv'
    BY <1>26 DEF TokenExpires, dbVars, clockVars, procVars, TypeInv, TypeOK,
       States, InLock
  <1>27. ASSUME CacheExpires PROVE TypeInv'
    BY <1>27 DEF CacheExpires, dbVars, clockVars, procVars, TypeInv, TypeOK,
       States, InLock
  <1>28. ASSUME LockExpires PROVE TypeInv'
    BY <1>28 DEF LockExpires, dbVars, clockVars, procVars, TypeInv, TypeOK,
       States, InLock
  <1>29. ASSUME LockLapses PROVE TypeInv'
    BY <1>29 DEF LockLapses, dbVars, clockVars, procVars, TypeInv, TypeOK,
       States, InLock
  <1>30. ASSUME NEW i \in Instances, Crash(i) PROVE TypeInv'
    BY <1>30 DEF Crash, dbVars, clockVars, procVars, TypeInv, TypeOK,
       States, InLock
  <1>31. CASE UNCHANGED vars
    BY <1>31 DEF vars, dbVars, clockVars, procVars, TypeInv, TypeOK, States,
       InLock
  <1> QED
    BY <1>1, <1>2, <1>3, <1>4, <1>5, <1>6, <1>7, <1>8, <1>9, <1>10, <1>11,
       <1>12, <1>13, <1>14, <1>15, <1>16, <1>17, <1>18, <1>19, <1>20, <1>21,
       <1>22, <1>23, <1>24, <1>25, <1>26, <1>27, <1>28, <1>29, <1>30, <1>31
       DEF Next, CallStep, CallFails, WorkerStep, RequestStep

(* Every step keeps LockInv.                                               *)
LEMMA LockInvStep == TypeInv /\ LockInv /\ [Next]_vars => LockInv'
  <1> SUFFICES ASSUME TypeInv, LockInv, [Next]_vars
               PROVE  LockInv'
    OBVIOUS
  <1> USE RefreshAssumption DEF To, Fault, Because, Procs, Gens, None, rowVars
  <1>1. ASSUME NEW p \in Procs, LocalLock(p) PROVE LockInv'
    BY <1>1 DEF LocalLock, dbVars, clockVars, procVars, TypeInv, TypeOK,
       States, InLock, LockInv, Inside
  <1>2. ASSUME NEW p \in Procs, AcquireRefreshLock(p) PROVE LockInv'
    BY <1>2 DEF AcquireRefreshLock, dbVars, clockVars, procVars, TypeInv,
       TypeOK, States, InLock, LockInv, Inside
  <1>3. ASSUME NEW p \in Procs, LockHeld(p) PROVE LockInv'
    BY <1>3 DEF LockHeld, Done, Forget, dbVars, clockVars, procVars,
       TypeInv, TypeOK, States, InLock, LockInv, Inside
  <1>4. ASSUME NEW p \in Procs, Reread(p) PROVE LockInv'
    BY <1>4 DEF Reread, NeedsRefresh, Window, dbVars, clockVars, procVars, TypeInv,
       TypeOK, States, InLock, LockInv, Inside
  <1>5. ASSUME NEW p \in Procs, Refresh(p) PROVE LockInv'
    BY <1>5 DEF Refresh, dbVars, clockVars, procVars, TypeInv, TypeOK,
       States, InLock, LockInv, Inside
  <1>6. ASSUME NEW p \in Procs, InvalidGrant(p) PROVE LockInv'
    BY <1>6 DEF InvalidGrant, dbVars, clockVars, procVars, TypeInv, TypeOK,
       States, InLock, LockInv, Inside
  <1>7. ASSUME NEW p \in Procs, Recover(p) PROVE LockInv'
    BY <1>7 DEF Recover, dbVars, clockVars, procVars, TypeInv, TypeOK,
       States, InLock, LockInv, Inside
  <1>8. ASSUME NEW p \in Procs, Persist(p) PROVE LockInv'
    BY <1>8 DEF Persist, Store, Raced, dbVars, clockVars, procVars, TypeInv,
       TypeOK, States, InLock, LockInv, Inside
  <1>9. ASSUME NEW p \in Procs, Release(p) PROVE LockInv'
    <2>1. \A q \in Procs : pc'[q] \in InLock => q # p /\ pc[q] = pc'[q]
      BY <1>9, ReleaseEffect DEF TypeInv, InLock
    <2>2. \A q \in Procs \ {p} : pc[q] = pc'[q]
      BY <1>9, ReleaseEffect DEF TypeInv
    <2>3. pc[p] \in InLock \ {"lock"} /\ mutex[Home[p]] = p
      BY <1>9 DEF Release, LockInv, InLock
    <2>4. \A q \in Procs : pc'[q] \in InLock => mutex'[Home[q]] = q
      BY <1>9, <2>1, <2>3 DEF Release, LockInv, TypeInv, TypeOK
    <2>5. \A q \in Procs : held'[q] => q # p /\ held[q]
      BY <1>9 DEF Release, TypeInv, TypeOK
    <2>6. \A q \in Procs : Inside(q)' => q # p /\ Inside(q) /\ held'[q] = held[q]
      BY <1>9, <2>1 DEF Release, TypeInv, TypeOK, Inside
    <2>7. "unlocked" \notin why => \A q \in Procs : ~Inside(q)'
      BY <2>3, <2>6 DEF LockInv, Inside
    <2>8. why' = why
      BY <1>9 DEF Release
    <2> QED
      BY <2>2, <2>4, <2>5, <2>7, <2>8 DEF LockInv, Inside
  <1>10. ASSUME NEW p \in Procs, LockDegraded(p) PROVE LockInv'
    BY <1>10 DEF LockDegraded, dbVars, clockVars, procVars, TypeInv, TypeOK,
       States, InLock, LockInv, Inside
  <1>11. ASSUME NEW p \in Procs, RefreshFails(p) PROVE LockInv'
    BY <1>11 DEF RefreshFails, dbVars, clockVars, procVars, TypeInv, TypeOK,
       States, InLock, LockInv, Inside
  <1>12. ASSUME NEW p \in Procs, PersistFails(p) PROVE LockInv'
    BY <1>12 DEF PersistFails, Store, dbVars, clockVars, procVars, TypeInv, TypeOK,
       States, InLock, LockInv, Inside
  <1>13. ASSUME NEW w \in Workers, Cycle(w) PROVE LockInv'
    BY <1>13 DEF Cycle, NeedsRefresh, Window, dbVars, clockVars, procVars, TypeInv,
       TypeOK, States, InLock, LockInv, Inside
  <1>14. ASSUME NEW w \in Workers, PostRefresh(w) PROVE LockInv'
    BY <1>14 DEF PostRefresh, Done, Forget, dbVars, clockVars, procVars,
       TypeInv, TypeOK, States, InLock, LockInv, Inside
  <1>15. ASSUME NEW p \in Procs, SetError(p) PROVE LockInv'
    BY <1>15 DEF SetError, Done, Forget, dbVars, clockVars, procVars,
       TypeInv, TypeOK, States, InLock, LockInv, Inside
  <1>16. ASSUME NEW p \in Procs, SetTempUnschedulable(p) PROVE LockInv'
    BY <1>16 DEF SetTempUnschedulable, Done, Forget, dbVars, clockVars,
       procVars, TypeInv, TypeOK, States, InLock, LockInv, Inside
  <1>17. ASSUME NEW r \in Requests, GetAccessToken(r) PROVE LockInv'
    BY <1>17 DEF GetAccessToken, NeedsRefresh, Window, dbVars, clockVars, procVars,
       TypeInv, TypeOK, States, InLock, LockInv, Inside
  <1>18. ASSUME NEW r \in Requests, WaitForCache(r) PROVE LockInv'
    BY <1>18 DEF WaitForCache, Forward, dbVars, clockVars, procVars,
       TypeInv, TypeOK, States, InLock, LockInv, Inside
  <1>19. ASSUME NEW r \in Requests, CheckTokenVersion(r) PROVE LockInv'
    BY <1>19 DEF CheckTokenVersion, Forward, dbVars, clockVars,
       procVars, TypeInv, TypeOK, States, InLock, LockInv, Inside
  <1>20. ASSUME NEW r \in Requests, SetAccessToken(r) PROVE LockInv'
    BY <1>20 DEF SetAccessToken, Forward, dbVars, clockVars, procVars,
       TypeInv, TypeOK, States, InLock, LockInv, Inside
  <1>21. ASSUME NEW p \in Procs, RefreshRefused(p) PROVE LockInv'
    BY <1>21 DEF RefreshRefused, dbVars, clockVars, procVars, TypeInv, TypeOK,
       States, InLock, LockInv, Inside
  <1>22. ASSUME NEW r \in Requests, Answered(r) PROVE LockInv'
    BY <1>22 DEF Answered, Done, Forget, dbVars, clockVars, procVars, TypeInv, TypeOK,
       States, InLock, LockInv, Inside
  <1>23. ASSUME NEW r \in Requests, Unauthorized(r) PROVE LockInv'
    BY <1>23 DEF Unauthorized, dbVars, clockVars, procVars, TypeInv, TypeOK,
       States, InLock, LockInv, Inside
  <1>24. ASSUME NEW r \in Requests, WriteBack(r) PROVE LockInv'
    BY <1>24 DEF WriteBack, Store, dbVars, clockVars, procVars, TypeInv, TypeOK,
       States, InLock, LockInv, Inside
  <1>25. ASSUME TokenNears PROVE LockInv'
    BY <1>25 DEF TokenNears, dbVars, clockVars, procVars, TypeInv, TypeOK,
       States, InLock, LockInv, Inside
  <1>26. ASSUME TokenExpires PROVE LockInv'
    BY <1>26 DEF TokenExpires, dbVars, clockVars, procVars, TypeInv, TypeOK,
       States, InLock, LockInv, Inside
  <1>27. ASSUME CacheExpires PROVE LockInv'
    BY <1>27 DEF CacheExpires, dbVars, clockVars, procVars, TypeInv, TypeOK,
       States, InLock, LockInv, Inside
  <1>28. ASSUME LockExpires PROVE LockInv'
    BY <1>28 DEF LockExpires, dbVars, clockVars, procVars, TypeInv, TypeOK,
       States, InLock, LockInv, Inside
  <1>29. ASSUME LockLapses PROVE LockInv'
    BY <1>29 DEF LockLapses, dbVars, clockVars, procVars, TypeInv, TypeOK,
       States, InLock, LockInv, Inside
  <1>30. ASSUME NEW i \in Instances, Crash(i) PROVE LockInv'
    BY <1>30 DEF Crash, dbVars, clockVars, procVars, TypeInv, TypeOK,
       States, InLock, LockInv, Inside
  <1>31. CASE UNCHANGED vars
    BY <1>31 DEF vars, dbVars, clockVars, procVars, TypeInv, TypeOK, States,
       InLock, LockInv, Inside
  <1> QED
    BY <1>1, <1>2, <1>3, <1>4, <1>5, <1>6, <1>7, <1>8, <1>9, <1>10, <1>11,
       <1>12, <1>13, <1>14, <1>15, <1>16, <1>17, <1>18, <1>19, <1>20, <1>21,
       <1>22, <1>23, <1>24, <1>25, <1>26, <1>27, <1>28, <1>29, <1>30, <1>31
       DEF Next, CallStep, CallFails, WorkerStep, RequestStep

(* Every step keeps CredInv.                                               *)
LEMMA CredInvStep == TypeInv /\ CredInv /\ [Next]_vars => CredInv'
  <1> SUFFICES ASSUME TypeInv, CredInv, [Next]_vars
               PROVE  CredInv'
    OBVIOUS
  <1> USE RefreshAssumption DEF To, Fault, Because, Procs, Gens, None, rowVars
  <1>1. ASSUME NEW p \in Procs, LocalLock(p) PROVE CredInv'
    BY <1>1 DEF LocalLock, dbVars, clockVars, procVars, TypeInv, TypeOK,
       States, InLock, CredInv, Behind
  <1>2. ASSUME NEW p \in Procs, AcquireRefreshLock(p) PROVE CredInv'
    BY <1>2 DEF AcquireRefreshLock, dbVars, clockVars, procVars, TypeInv,
       TypeOK, States, InLock, CredInv, Behind
  <1>3. ASSUME NEW p \in Procs, LockHeld(p) PROVE CredInv'
    BY <1>3 DEF LockHeld, Done, Forget, dbVars, clockVars, procVars,
       TypeInv, TypeOK, States, InLock, CredInv, Behind
  <1>4. ASSUME NEW p \in Procs, Reread(p) PROVE CredInv'
    BY <1>4 DEF Reread, NeedsRefresh, Window, dbVars, clockVars, procVars, TypeInv,
       TypeOK, States, InLock, CredInv, Behind
  <1>5. ASSUME NEW p \in Procs, Refresh(p) PROVE CredInv'
    BY <1>5 DEF Refresh, dbVars, clockVars, procVars, TypeInv, TypeOK,
       States, InLock, CredInv, Behind
  <1>6. ASSUME NEW p \in Procs, InvalidGrant(p) PROVE CredInv'
    BY <1>6 DEF InvalidGrant, dbVars, clockVars, procVars, TypeInv, TypeOK,
       States, InLock, CredInv, Behind
  <1>7. ASSUME NEW p \in Procs, Recover(p) PROVE CredInv'
    BY <1>7 DEF Recover, dbVars, clockVars, procVars, TypeInv, TypeOK,
       States, InLock, CredInv, Behind
  <1>8. ASSUME NEW p \in Procs, Persist(p) PROVE CredInv'
    BY <1>8 DEF Persist, Store, Raced, dbVars, clockVars, procVars, TypeInv,
       TypeOK, States, InLock, CredInv, Behind
  <1>9. ASSUME NEW p \in Procs, Release(p) PROVE CredInv'
    <2> SUFFICES ASSUME ~Behind
                 PROVE  CredInv'
      BY <1>9 DEF Release, CredInv, Behind
    <2>1. stored' = stored /\ newest' = newest /\ live' = live /\ stored \in Nat
      BY <1>9 DEF Release, dbVars, TypeInv, TypeOK
    <2>2. /\ pc[p] # "persist" /\ pc'[p] # "persist"
          /\ acct'[p] \in {acct[p], None} /\ fresh'[p] \in {fresh[p], acct[p], None}
          /\ \A q \in Procs : q # p => /\ pc'[q] = pc[q]
                                      /\ acct'[q] = acct[q] /\ fresh'[q] = fresh[q]
      BY <1>9, ReleaseEffect DEF TypeInv
    <2>3. acct'[p] <= stored /\ fresh'[p] <= stored
      BY <2>1, <2>2 DEF CredInv
    <2> QED
      BY <2>1, <2>2, <2>3 DEF CredInv
  <1>10. ASSUME NEW p \in Procs, LockDegraded(p) PROVE CredInv'
    BY <1>10 DEF LockDegraded, dbVars, clockVars, procVars, TypeInv, TypeOK,
       States, InLock, CredInv, Behind
  <1>11. ASSUME NEW p \in Procs, RefreshFails(p) PROVE CredInv'
    BY <1>11 DEF RefreshFails, dbVars, clockVars, procVars, TypeInv, TypeOK,
       States, InLock, CredInv, Behind
  <1>12. ASSUME NEW p \in Procs, PersistFails(p) PROVE CredInv'
    BY <1>12 DEF PersistFails, Store, dbVars, clockVars, procVars, TypeInv, TypeOK,
       States, InLock, CredInv, Behind
  <1>13. ASSUME NEW w \in Workers, Cycle(w) PROVE CredInv'
    BY <1>13 DEF Cycle, NeedsRefresh, Window, dbVars, clockVars, procVars, TypeInv,
       TypeOK, States, InLock, CredInv, Behind
  <1>14. ASSUME NEW w \in Workers, PostRefresh(w) PROVE CredInv'
    BY <1>14 DEF PostRefresh, Done, Forget, dbVars, clockVars, procVars,
       TypeInv, TypeOK, States, InLock, CredInv, Behind
  <1>15. ASSUME NEW p \in Procs, SetError(p) PROVE CredInv'
    BY <1>15 DEF SetError, Done, Forget, dbVars, clockVars, procVars,
       TypeInv, TypeOK, States, InLock, CredInv, Behind
  <1>16. ASSUME NEW p \in Procs, SetTempUnschedulable(p) PROVE CredInv'
    BY <1>16 DEF SetTempUnschedulable, Done, Forget, dbVars, clockVars,
       procVars, TypeInv, TypeOK, States, InLock, CredInv, Behind
  <1>17. ASSUME NEW r \in Requests, GetAccessToken(r) PROVE CredInv'
    BY <1>17 DEF GetAccessToken, NeedsRefresh, Window, dbVars, clockVars, procVars,
       TypeInv, TypeOK, States, InLock, CredInv, Behind
  <1>18. ASSUME NEW r \in Requests, WaitForCache(r) PROVE CredInv'
    BY <1>18 DEF WaitForCache, Forward, dbVars, clockVars, procVars,
       TypeInv, TypeOK, States, InLock, CredInv, Behind
  <1>19. ASSUME NEW r \in Requests, CheckTokenVersion(r) PROVE CredInv'
    BY <1>19 DEF CheckTokenVersion, Forward, dbVars, clockVars,
       procVars, TypeInv, TypeOK, States, InLock, CredInv, Behind
  <1>20. ASSUME NEW r \in Requests, SetAccessToken(r) PROVE CredInv'
    BY <1>20 DEF SetAccessToken, Forward, dbVars, clockVars, procVars,
       TypeInv, TypeOK, States, InLock, CredInv, Behind
  <1>21. ASSUME NEW p \in Procs, RefreshRefused(p) PROVE CredInv'
    BY <1>21 DEF RefreshRefused, dbVars, clockVars, procVars, TypeInv, TypeOK,
       States, InLock, CredInv, Behind
  <1>22. ASSUME NEW r \in Requests, Answered(r) PROVE CredInv'
    BY <1>22 DEF Answered, Done, Forget, dbVars, clockVars, procVars, TypeInv, TypeOK,
       States, InLock, CredInv, Behind
  <1>23. ASSUME NEW r \in Requests, Unauthorized(r) PROVE CredInv'
    BY <1>23 DEF Unauthorized, dbVars, clockVars, procVars, TypeInv, TypeOK,
       States, InLock, CredInv, Behind
  <1>24. ASSUME NEW r \in Requests, WriteBack(r) PROVE CredInv'
    <2> SUFFICES ASSUME ~Behind'
                 PROVE  CredInv'
      BY DEF CredInv
    <2>1. ~Behind
      BY <1>24 DEF WriteBack, Behind
    <2>2. stored' = stored
      BY <1>24 DEF WriteBack, Store, Behind
    <2>3. newest' = newest
      BY <1>24, <2>1, <2>2 DEF WriteBack, Store, TypeInv, TypeOK, CredInv
    <2> QED
      BY <1>24, <2>1, <2>2, <2>3 DEF WriteBack, procVars, TypeInv, TypeOK, CredInv
  <1>25. ASSUME TokenNears PROVE CredInv'
    BY <1>25 DEF TokenNears, dbVars, clockVars, procVars, TypeInv, TypeOK,
       States, InLock, CredInv, Behind
  <1>26. ASSUME TokenExpires PROVE CredInv'
    BY <1>26 DEF TokenExpires, dbVars, clockVars, procVars, TypeInv, TypeOK,
       States, InLock, CredInv, Behind
  <1>27. ASSUME CacheExpires PROVE CredInv'
    BY <1>27 DEF CacheExpires, dbVars, clockVars, procVars, TypeInv, TypeOK,
       States, InLock, CredInv, Behind
  <1>28. ASSUME LockExpires PROVE CredInv'
    BY <1>28 DEF LockExpires, dbVars, clockVars, procVars, TypeInv, TypeOK,
       States, InLock, CredInv, Behind
  <1>29. ASSUME LockLapses PROVE CredInv'
    BY <1>29 DEF LockLapses, dbVars, clockVars, procVars, TypeInv, TypeOK,
       States, InLock, CredInv, Behind
  <1>30. ASSUME NEW i \in Instances, Crash(i) PROVE CredInv'
    <2> SUFFICES ASSUME ~Behind'
                 PROVE  CredInv'
      BY DEF CredInv
    <2>1. ~Behind /\ \A p \in Procs : Home[p] = i => pc[p] # "persist"
      BY <1>30 DEF Crash, Behind
    <2>2. \A p \in Procs :
            /\ pc'[p] \in {pc[p], "idle"} /\ (pc[p] = "persist" => pc'[p] = "persist")
            /\ acct'[p] \in {acct[p], None}
            /\ fresh'[p] = IF pc[p] = "persist" THEN fresh[p] ELSE fresh'[p]
            /\ fresh'[p] \in {fresh[p], None}
      BY <1>30, <2>1 DEF Crash, TypeInv, TypeOK
    <2>3. stored' = stored /\ newest' = newest /\ live' = live /\ stored \in Nat
      BY <1>30 DEF Crash, dbVars, TypeInv, TypeOK
    <2> QED
      BY <2>1, <2>2, <2>3 DEF CredInv
  <1>31. CASE UNCHANGED vars
    BY <1>31 DEF vars, dbVars, clockVars, procVars, TypeInv, TypeOK, States,
       InLock, CredInv, Behind
  <1> QED
    BY <1>1, <1>2, <1>3, <1>4, <1>5, <1>6, <1>7, <1>8, <1>9, <1>10, <1>11,
       <1>12, <1>13, <1>14, <1>15, <1>16, <1>17, <1>18, <1>19, <1>20, <1>21,
       <1>22, <1>23, <1>24, <1>25, <1>26, <1>27, <1>28, <1>29, <1>30, <1>31
       DEF Next, CallStep, CallFails, WorkerStep, RequestStep

(* Every step keeps ErrorInv.                                              *)
LEMMA ErrorInvStep == TypeInv /\ LockInv /\ CredInv /\ ErrorInv /\ [Next]_vars => ErrorInv'
  <1> SUFFICES ASSUME TypeInv, LockInv, CredInv, ErrorInv, [Next]_vars
               PROVE  ErrorInv'
    OBVIOUS
  <1> USE RefreshAssumption DEF To, Fault, Because, Procs, Gens, None, rowVars
  <1>1. ASSUME NEW p \in Procs, LocalLock(p) PROVE ErrorInv'
    BY <1>1 DEF LocalLock, dbVars, clockVars, procVars, TypeInv, TypeOK,
       States, InLock, ErrorInv, Blamed, Behind
  <1>2. ASSUME NEW p \in Procs, AcquireRefreshLock(p) PROVE ErrorInv'
    BY <1>2 DEF AcquireRefreshLock, dbVars, clockVars, procVars, TypeInv,
       TypeOK, States, InLock, ErrorInv, Blamed, Behind
  <1>3. ASSUME NEW p \in Procs, LockHeld(p) PROVE ErrorInv'
    BY <1>3 DEF LockHeld, Done, Forget, dbVars, clockVars, procVars,
       TypeInv, TypeOK, States, InLock, ErrorInv, Blamed, Behind
  <1>4. ASSUME NEW p \in Procs, Reread(p) PROVE ErrorInv'
    BY <1>4 DEF Reread, NeedsRefresh, Window, dbVars, clockVars, procVars, TypeInv,
       TypeOK, States, InLock, ErrorInv, Blamed, Behind
  <1>5. ASSUME NEW p \in Procs, Refresh(p) PROVE ErrorInv'
    BY <1>5 DEF Refresh, dbVars, clockVars, procVars, TypeInv, TypeOK,
       States, InLock, ErrorInv, Blamed, Behind
  <1>6. ASSUME NEW p \in Procs, InvalidGrant(p) PROVE ErrorInv'
    <2>1. ~Behind /\ "unlocked" \notin why => fresh[p] # stored
      BY <1>6 DEF InvalidGrant, LockInv, Inside, InLock, CredInv
    <2> QED
      BY <1>6, <2>1 DEF InvalidGrant, dbVars, procVars, TypeInv, TypeOK, ErrorInv,
         Blamed, Behind
  <1>7. ASSUME NEW p \in Procs, Recover(p) PROVE ErrorInv'
    BY <1>7 DEF Recover, dbVars, clockVars, procVars, TypeInv, TypeOK,
       States, InLock, ErrorInv, Blamed, Behind
  <1>8. ASSUME NEW p \in Procs, Persist(p) PROVE ErrorInv'
    <2>1. \A q \in Procs : pc[q] = "recover" => "unlocked" \in why
      BY <1>8 DEF Persist, Store, LockInv, Inside, InLock
    <2>2. why \subseteq why'
      BY <1>8 DEF Persist
    <2> QED
      BY <1>8, <2>1, <2>2
         DEF Persist, Store, procVars, TypeInv, TypeOK, ErrorInv, Blamed, Behind
  <1>9. ASSUME NEW p \in Procs, Release(p) PROVE ErrorInv'
    BY <1>9, ReleaseEffect DEF Release, dbVars, TypeInv, ErrorInv, Blamed, Behind
  <1>10. ASSUME NEW p \in Procs, LockDegraded(p) PROVE ErrorInv'
    BY <1>10 DEF LockDegraded, dbVars, clockVars, procVars, TypeInv, TypeOK,
       States, InLock, ErrorInv, Blamed, Behind
  <1>11. ASSUME NEW p \in Procs, RefreshFails(p) PROVE ErrorInv'
    BY <1>11 DEF RefreshFails, dbVars, clockVars, procVars, TypeInv, TypeOK,
       States, InLock, ErrorInv, Blamed, Behind
  <1>12. ASSUME NEW p \in Procs, PersistFails(p) PROVE ErrorInv'
    <2>1. \A q \in Procs : pc[q] = "recover" => "unlocked" \in why
      BY <1>12 DEF PersistFails, LockInv, Inside, InLock
    <2>2. why \subseteq why'
      BY <1>12 DEF PersistFails
    <2> QED
      BY <1>12, <2>1, <2>2 DEF PersistFails, TypeInv, TypeOK, ErrorInv, Blamed
  <1>13. ASSUME NEW w \in Workers, Cycle(w) PROVE ErrorInv'
    BY <1>13 DEF Cycle, NeedsRefresh, Window, dbVars, clockVars, procVars, TypeInv,
       TypeOK, States, InLock, ErrorInv, Blamed, Behind
  <1>14. ASSUME NEW w \in Workers, PostRefresh(w) PROVE ErrorInv'
    BY <1>14 DEF PostRefresh, Done, Forget, dbVars, clockVars, procVars,
       TypeInv, TypeOK, States, InLock, ErrorInv, Blamed, Behind
  <1>15. ASSUME NEW p \in Procs, SetError(p) PROVE ErrorInv'
    BY <1>15 DEF SetError, Done, Forget, dbVars, clockVars, procVars,
       TypeInv, TypeOK, States, InLock, ErrorInv, Blamed, Behind
  <1>16. ASSUME NEW p \in Procs, SetTempUnschedulable(p) PROVE ErrorInv'
    BY <1>16 DEF SetTempUnschedulable, Done, Forget, dbVars, clockVars,
       procVars, TypeInv, TypeOK, States, InLock, ErrorInv, Blamed, Behind
  <1>17. ASSUME NEW r \in Requests, GetAccessToken(r) PROVE ErrorInv'
    BY <1>17 DEF GetAccessToken, NeedsRefresh, Window, dbVars, clockVars, procVars,
       TypeInv, TypeOK, States, InLock, ErrorInv, Blamed, Behind
  <1>18. ASSUME NEW r \in Requests, WaitForCache(r) PROVE ErrorInv'
    BY <1>18 DEF WaitForCache, Forward, dbVars, clockVars, procVars,
       TypeInv, TypeOK, States, InLock, ErrorInv, Blamed, Behind
  <1>19. ASSUME NEW r \in Requests, CheckTokenVersion(r) PROVE ErrorInv'
    BY <1>19 DEF CheckTokenVersion, Forward, dbVars, clockVars,
       procVars, TypeInv, TypeOK, States, InLock, ErrorInv, Blamed, Behind
  <1>20. ASSUME NEW r \in Requests, SetAccessToken(r) PROVE ErrorInv'
    BY <1>20 DEF SetAccessToken, Forward, dbVars, clockVars, procVars,
       TypeInv, TypeOK, States, InLock, ErrorInv, Blamed, Behind
  <1>21. ASSUME NEW p \in Procs, RefreshRefused(p) PROVE ErrorInv'
    BY <1>21 DEF RefreshRefused, dbVars, clockVars, procVars, TypeInv, TypeOK,
       States, InLock, ErrorInv, Blamed, Behind
  <1>22. ASSUME NEW r \in Requests, Answered(r) PROVE ErrorInv'
    BY <1>22 DEF Answered, Done, Forget, dbVars, clockVars, procVars, TypeInv, TypeOK,
       States, InLock, ErrorInv, Blamed, Behind
  <1>23. ASSUME NEW r \in Requests, Unauthorized(r) PROVE ErrorInv'
    BY <1>23 DEF Unauthorized, dbVars, clockVars, procVars, TypeInv, TypeOK,
       States, InLock, ErrorInv, Blamed, Behind
  <1>24. ASSUME NEW r \in Requests, WriteBack(r) PROVE ErrorInv'
    BY <1>24 DEF WriteBack, Store, dbVars, clockVars, procVars, TypeInv, TypeOK,
       States, InLock, ErrorInv, Blamed, Behind
  <1>25. ASSUME TokenNears PROVE ErrorInv'
    BY <1>25 DEF TokenNears, dbVars, clockVars, procVars, TypeInv, TypeOK,
       States, InLock, ErrorInv, Blamed, Behind
  <1>26. ASSUME TokenExpires PROVE ErrorInv'
    BY <1>26 DEF TokenExpires, dbVars, clockVars, procVars, TypeInv, TypeOK,
       States, InLock, ErrorInv, Blamed, Behind
  <1>27. ASSUME CacheExpires PROVE ErrorInv'
    BY <1>27 DEF CacheExpires, dbVars, clockVars, procVars, TypeInv, TypeOK,
       States, InLock, ErrorInv, Blamed, Behind
  <1>28. ASSUME LockExpires PROVE ErrorInv'
    BY <1>28 DEF LockExpires, dbVars, clockVars, procVars, TypeInv, TypeOK,
       States, InLock, ErrorInv, Blamed, Behind
  <1>29. ASSUME LockLapses PROVE ErrorInv'
    BY <1>29 DEF LockLapses, dbVars, clockVars, procVars, TypeInv, TypeOK,
       States, InLock, ErrorInv, Blamed, Behind
  <1>30. ASSUME NEW i \in Instances, Crash(i) PROVE ErrorInv'
    BY <1>30 DEF Crash, dbVars, clockVars, procVars, TypeInv, TypeOK,
       States, InLock, ErrorInv, Blamed, Behind
  <1>31. CASE UNCHANGED vars
    BY <1>31 DEF vars, dbVars, clockVars, procVars, TypeInv, TypeOK, States,
       InLock, ErrorInv, Blamed, Behind
  <1> QED
    BY <1>1, <1>2, <1>3, <1>4, <1>5, <1>6, <1>7, <1>8, <1>9, <1>10, <1>11,
       <1>12, <1>13, <1>14, <1>15, <1>16, <1>17, <1>18, <1>19, <1>20, <1>21,
       <1>22, <1>23, <1>24, <1>25, <1>26, <1>27, <1>28, <1>29, <1>30, <1>31
       DEF Next, CallStep, CallFails, WorkerStep, RequestStep

(* Every step keeps CacheInv.                                              *)
LEMMA CacheInvStep == TypeInv /\ CacheInv /\ [Next]_vars => CacheInv'
  <1> SUFFICES ASSUME TypeInv, CacheInv, [Next]_vars
               PROVE  CacheInv'
    OBVIOUS
  <1> USE RefreshAssumption DEF To, Fault, Because, Procs, Gens, None, rowVars
  <1>1. ASSUME NEW p \in Procs, LocalLock(p) PROVE CacheInv'
    BY <1>1 DEF LocalLock, dbVars, clockVars, procVars, TypeInv, TypeOK,
       States, InLock, CacheInv, UpdatesCache
  <1>2. ASSUME NEW p \in Procs, AcquireRefreshLock(p) PROVE CacheInv'
    BY <1>2 DEF AcquireRefreshLock, dbVars, clockVars, procVars, TypeInv,
       TypeOK, States, InLock, CacheInv, UpdatesCache
  <1>3. ASSUME NEW p \in Procs, LockHeld(p) PROVE CacheInv'
    BY <1>3 DEF LockHeld, Done, Forget, dbVars, clockVars, procVars,
       TypeInv, TypeOK, States, InLock, CacheInv, UpdatesCache
  <1>4. ASSUME NEW p \in Procs, Reread(p) PROVE CacheInv'
    BY <1>4 DEF Reread, NeedsRefresh, Window, dbVars, clockVars, procVars, TypeInv,
       TypeOK, States, InLock, CacheInv, UpdatesCache
  <1>5. ASSUME NEW p \in Procs, Refresh(p) PROVE CacheInv'
    BY <1>5 DEF Refresh, dbVars, clockVars, procVars, TypeInv, TypeOK,
       States, InLock, CacheInv, UpdatesCache
  <1>6. ASSUME NEW p \in Procs, InvalidGrant(p) PROVE CacheInv'
    BY <1>6 DEF InvalidGrant, dbVars, clockVars, procVars, TypeInv, TypeOK,
       States, InLock, CacheInv, UpdatesCache
  <1>7. ASSUME NEW p \in Procs, Recover(p) PROVE CacheInv'
    BY <1>7 DEF Recover, dbVars, clockVars, procVars, TypeInv, TypeOK,
       States, InLock, CacheInv, UpdatesCache
  <1>8. ASSUME NEW p \in Procs, Persist(p) PROVE CacheInv'
    BY <1>8 DEF Persist, Store, Raced, dbVars, clockVars, procVars, TypeInv,
       TypeOK, States, InLock, CacheInv, UpdatesCache
  <1>9. ASSUME NEW p \in Procs, Release(p) PROVE CacheInv'
    BY <1>9, ReleaseEffect DEF Release, dbVars, TypeInv, CacheInv, UpdatesCache
  <1>10. ASSUME NEW p \in Procs, LockDegraded(p) PROVE CacheInv'
    BY <1>10 DEF LockDegraded, dbVars, clockVars, procVars, TypeInv, TypeOK,
       States, InLock, CacheInv, UpdatesCache
  <1>11. ASSUME NEW p \in Procs, RefreshFails(p) PROVE CacheInv'
    BY <1>11 DEF RefreshFails, dbVars, clockVars, procVars, TypeInv, TypeOK,
       States, InLock, CacheInv, UpdatesCache
  <1>12. ASSUME NEW p \in Procs, PersistFails(p) PROVE CacheInv'
    BY <1>12 DEF PersistFails, Store, dbVars, clockVars, procVars, TypeInv, TypeOK,
       States, InLock, CacheInv, UpdatesCache
  <1>13. ASSUME NEW w \in Workers, Cycle(w) PROVE CacheInv'
    BY <1>13 DEF Cycle, NeedsRefresh, Window, dbVars, clockVars, procVars, TypeInv,
       TypeOK, States, InLock, CacheInv, UpdatesCache
  <1>14. ASSUME NEW w \in Workers, PostRefresh(w) PROVE CacheInv'
    BY <1>14 DEF PostRefresh, Done, Forget, dbVars, clockVars, procVars,
       TypeInv, TypeOK, States, InLock, CacheInv, UpdatesCache
  <1>15. ASSUME NEW p \in Procs, SetError(p) PROVE CacheInv'
    BY <1>15 DEF SetError, Done, Forget, dbVars, clockVars, procVars,
       TypeInv, TypeOK, States, InLock, CacheInv, UpdatesCache
  <1>16. ASSUME NEW p \in Procs, SetTempUnschedulable(p) PROVE CacheInv'
    BY <1>16 DEF SetTempUnschedulable, Done, Forget, dbVars, clockVars,
       procVars, TypeInv, TypeOK, States, InLock, CacheInv, UpdatesCache
  <1>17. ASSUME NEW r \in Requests, GetAccessToken(r) PROVE CacheInv'
    BY <1>17 DEF GetAccessToken, NeedsRefresh, Window, dbVars, clockVars, procVars,
       TypeInv, TypeOK, States, InLock, CacheInv, UpdatesCache
  <1>18. ASSUME NEW r \in Requests, WaitForCache(r) PROVE CacheInv'
    BY <1>18 DEF WaitForCache, Forward, dbVars, clockVars, procVars,
       TypeInv, TypeOK, States, InLock, CacheInv, UpdatesCache
  <1>19. ASSUME NEW r \in Requests, CheckTokenVersion(r) PROVE CacheInv'
    BY <1>19 DEF CheckTokenVersion, Forward, dbVars, clockVars,
       procVars, TypeInv, TypeOK, States, InLock, CacheInv, UpdatesCache
  <1>20. ASSUME NEW r \in Requests, SetAccessToken(r) PROVE CacheInv'
    BY <1>20 DEF SetAccessToken, Forward, dbVars, clockVars, procVars,
       TypeInv, TypeOK, States, InLock, CacheInv, UpdatesCache
  <1>21. ASSUME NEW p \in Procs, RefreshRefused(p) PROVE CacheInv'
    BY <1>21 DEF RefreshRefused, dbVars, clockVars, procVars, TypeInv, TypeOK,
       States, InLock, CacheInv, UpdatesCache
  <1>22. ASSUME NEW r \in Requests, Answered(r) PROVE CacheInv'
    BY <1>22 DEF Answered, Done, Forget, dbVars, clockVars, procVars, TypeInv, TypeOK,
       States, InLock, CacheInv, UpdatesCache
  <1>23. ASSUME NEW r \in Requests, Unauthorized(r) PROVE CacheInv'
    BY <1>23 DEF Unauthorized, dbVars, clockVars, procVars, TypeInv, TypeOK,
       States, InLock, CacheInv, UpdatesCache
  <1>24. ASSUME NEW r \in Requests, WriteBack(r) PROVE CacheInv'
    BY <1>24 DEF WriteBack, Store, dbVars, clockVars, procVars, TypeInv, TypeOK,
       States, InLock, CacheInv, UpdatesCache
  <1>25. ASSUME TokenNears PROVE CacheInv'
    BY <1>25 DEF TokenNears, dbVars, clockVars, procVars, TypeInv, TypeOK,
       States, InLock, CacheInv, UpdatesCache
  <1>26. ASSUME TokenExpires PROVE CacheInv'
    BY <1>26 DEF TokenExpires, dbVars, clockVars, procVars, TypeInv, TypeOK,
       States, InLock, CacheInv, UpdatesCache
  <1>27. ASSUME CacheExpires PROVE CacheInv'
    BY <1>27 DEF CacheExpires, dbVars, clockVars, procVars, TypeInv, TypeOK,
       States, InLock, CacheInv, UpdatesCache
  <1>28. ASSUME LockExpires PROVE CacheInv'
    BY <1>28 DEF LockExpires, dbVars, clockVars, procVars, TypeInv, TypeOK,
       States, InLock, CacheInv, UpdatesCache
  <1>29. ASSUME LockLapses PROVE CacheInv'
    BY <1>29 DEF LockLapses, dbVars, clockVars, procVars, TypeInv, TypeOK,
       States, InLock, CacheInv, UpdatesCache
  <1>30. ASSUME NEW i \in Instances, Crash(i) PROVE CacheInv'
    BY <1>30 DEF Crash, dbVars, clockVars, procVars, TypeInv, TypeOK,
       States, InLock, CacheInv, UpdatesCache
  <1>31. CASE UNCHANGED vars
    BY <1>31 DEF vars, dbVars, clockVars, procVars, TypeInv, TypeOK, States,
       InLock, CacheInv, UpdatesCache
  <1> QED
    BY <1>1, <1>2, <1>3, <1>4, <1>5, <1>6, <1>7, <1>8, <1>9, <1>10, <1>11,
       <1>12, <1>13, <1>14, <1>15, <1>16, <1>17, <1>18, <1>19, <1>20, <1>21,
       <1>22, <1>23, <1>24, <1>25, <1>26, <1>27, <1>28, <1>29, <1>30, <1>31
       DEF Next, CallStep, CallFails, WorkerStep, RequestStep

-----------------------------------------------------------------------------
(* The initial state satisfies every invariant.                            *)
LEMMA InitialInv ==
  Init => TypeInv /\ LockInv /\ CredInv /\ ErrorInv /\ CacheInv
  <1> SUFFICES ASSUME Init
               PROVE  TypeInv /\ LockInv /\ CredInv /\ ErrorInv /\ CacheInv
    OBVIOUS
  <1> USE RefreshAssumption
  <1>1. TypeInv
    <2>1. own \in [Procs -> BOOLEAN] /\ held \in [Procs -> BOOLEAN]
      BY DEF Init
    <2>2. mutex \in [Instances -> Procs \cup {Nobody}]
      BY DEF Init
    <2>3. pc \in [Procs -> States]
      BY DEF Init, States, InLock
    <2>4. acct \in [Procs -> Gens \cup {None}] /\ fresh \in [Procs -> Gens \cup {None}]
      BY DEF Init
    <2>5. attempt \in [Procs -> 0..MaxRetries]
      BY DEF Init
    <2>6. live \in Gens /\ stored \in Gens /\ newest \in Gens
           /\ near = 0 /\ expiring = 0 /\ expired = {}
      BY DEF Init, Gens
    <2>7. \A p \in Procs : pc[p] = "idle"
      BY DEF Init
    <2>8. unsched \in BOOLEAN /\ status \in {"active", "error"} /\ cache = None
           /\ lock = Nobody /\ faults = 0 /\ why = {}
      BY DEF Init
    <2>9. near \in 0..MaxGen /\ expiring \in 0..MaxGen /\ near <= MaxGen - 1
           /\ expiring <= near /\ faults \in 0..MaxFaults
      BY <2>6, <2>8
    <2>10. TypeOK
      BY <2>1, <2>2, <2>3, <2>4, <2>5, <2>6, <2>8, <2>9 DEF TypeOK, Reasons
    <2> QED
      BY <2>6, <2>7, <2>9, <2>10 DEF TypeInv, Procs
  <1>2. LockInv
    BY DEF Init, LockInv, Inside, InLock
  <1>3. CredInv
    BY DEF Init, CredInv, None
  <1>4. ErrorInv
    BY DEF Init, ErrorInv, Blamed, Behind
  <1>5. CacheInv
    BY DEF Init, CacheInv, Procs
  <1> QED
    BY <1>1, <1>2, <1>3, <1>4, <1>5

(* All of them hold throughout every behaviour.                            *)
LEMMA Invariants ==
  Spec => [](TypeInv /\ LockInv /\ CredInv /\ ErrorInv /\ CacheInv)
  BY InitialInv, TypeInvStep, LockInvStep, CredInvStep, ErrorInvStep,
     CacheInvStep, PTL DEF Spec

(* The refresh model is well typed (TypeOK): a generation is issued only   *)
(* for credentials that have aged or were expired by a 401, and retries    *)
(* stay within their limit.                                                *)
THEOREM TypeCorrect == Spec => []TypeOK
  <1>1. TypeInv => TypeOK
    BY DEF TypeInv
  <1> QED
    BY <1>1, Invariants, PTL

(* Two calls of RefreshIfNeeded work on an account at once only in         *)
(* different processes, after a Redis failure or an early TTL              *)
(* (ExclusiveRefresh).                                                     *)
THEOREM RefreshIsExclusive == Spec => []ExclusiveRefresh
  <1>1. TypeInv /\ LockInv => ExclusiveRefresh
    BY RefreshAssumption
       DEF TypeInv, TypeOK, LockInv, Inside, ExclusiveRefresh, Working, InLock
  <1> QED
    BY <1>1, Invariants, PTL

(* The provider's last credentials are stored or about to be, unless they  *)
(* were lost with an answer, an update or a process, or a 401 has written  *)
(* an older copy over them (CredentialsKept).                              *)
THEOREM CredentialsAreKept == Spec => []CredentialsKept
  <1>1. CredInv => CredentialsKept
    BY DEF CredInv, Behind, CredentialsKept
  <1> QED
    BY <1>1, Invariants, PTL

(* An account is marked as broken only if its stored token is dead, two    *)
(* refreshes overlapped, a newer stored token was not found, or the        *)
(* provider or the upstream refused for another reason (ErrorExplained).   *)
THEOREM ErrorsAreExplained == Spec => []ErrorExplained
  <1>1. ErrorInv => ErrorExplained
    BY DEF ErrorInv, ErrorExplained, Blamed
  <1> QED
    BY <1>1, Invariants, PTL

(* A cached token older than the stored one is about to be dropped or      *)
(* overwritten, unless it was written across an update, that step failed   *)
(* or was left out, or a 401 has changed the row (CacheCurrent).           *)
THEOREM CacheIsCurrent == Spec => []CacheCurrent
  <1>1. CacheInv => CacheCurrent
    BY DEF CacheInv, CacheCurrent
  <1> QED
    BY <1>1, Invariants, PTL
=============================================================================
