---------------------------- MODULE OAuthRefresh ----------------------------
(***************************************************************************)
(* Refresh of one OAuth account's tokens: RefreshIfNeeded                  *)
(* (service/oauth_refresh_api.go) as called by the background worker       *)
(* (service/token_refresh_service.go) and by requests                      *)
(* (service/claude_token_provider.go), with the token cache and the lock   *)
(* in Redis (repository/gemini_token_cache.go), the account row, and what  *)
(* a request does when the upstream refuses its token                      *)
(* (service/ratelimit_service.go).                                         *)
(*                                                                         *)
(* Credentials are generations: the provider accepts a refresh token only  *)
(* while it is the last one it issued, and then issues the next. Access    *)
(* token, refresh token and _token_version of one answer have the same     *)
(* generation. Tokens up to generation near are inside the background      *)
(* worker's refresh window, those up to expiring inside a request's skew,  *)
(* and those in expired have copies whose expires_at a 401 has set to now. *)
(***************************************************************************)
EXTENDS Integers, FiniteSets

CONSTANTS
    Workers,         \* background refresh loops
    Requests,
    Instances,       \* server processes
    Home,            \* the process a worker or request runs in
    MaxRetries,
    MaxGen,          \* bound on the generations issued; the last never ages
                     \* and is never refused
    MaxFaults        \* bound on errors, crashes, lapsed locks and 401s

None == 0
Nobody == "nobody"
Procs == Workers \cup Requests

ASSUME RefreshAssumption ==
    /\ Workers \cap Requests = {} /\ Nobody \notin Procs
    /\ Home \in [Procs -> Instances]
    /\ MaxRetries \in Nat \ {0} /\ MaxGen \in Nat \ {0} /\ MaxFaults \in Nat

VARIABLES
    live,            \* generation the provider accepts
    stored,          \* credentials in the account row
    newest,          \* highest generation the row has had
    status,          \* account row: "active" or "error"
    unsched,         \* account row: temporarily unschedulable
    near, expiring, expired,
    cache,           \* access token in Redis, None if absent
    lock,            \* holder of the Redis lock (the key itself has no owner)
    mutex,           \* instance -> holder of the in-process lock
    pc,
    acct,            \* credentials of the caller's account object
    fresh,           \* credentials of freshAccount, then the new ones, then
                     \* those whose token a request uses
    own,             \* freshAccount is the caller's object
    held,            \* lockAcquired
    attempt,
    faults,
    why              \* history: what may have gone wrong

rowVars == <<stored, newest>>
dbVars == <<rowVars, status, unsched>>
clockVars == <<near, expiring, expired>>
procVars == <<acct, fresh, own, attempt>>
vars == <<live, dbVars, clockVars, cache, lock, mutex, pc, procVars, held,
          faults, why>>

Init ==
    /\ live = 1 /\ stored = 1 /\ newest = 1
    /\ status = "active" /\ unsched = FALSE
    /\ near = 0 /\ expiring = 0 /\ expired = {}
    /\ cache = None /\ lock = Nobody
    /\ mutex = [i \in Instances |-> Nobody]
    /\ pc = [p \in Procs |-> "idle"]
    /\ acct = [p \in Procs |-> None]
    /\ fresh = [p \in Procs |-> None]
    /\ own = [p \in Procs |-> FALSE]
    /\ held = [p \in Procs |-> FALSE]
    /\ attempt = [p \in Procs |-> 0]
    /\ faults = 0 /\ why = {}

To(p, s) == pc' = [pc EXCEPT ![p] = s]
Fault == faults < MaxFaults /\ faults' = faults + 1
Because(reason, cond) == why' = IF cond THEN why \cup {reason} ELSE why

Window(p) == IF p \in Workers THEN near ELSE expiring
NeedsRefresh(p, g) == g <= Window(p) \/ g \in expired

(* UpdateCredentials                                                       *)
Store(g) ==
    /\ stored' = g
    /\ newest' = IF g > newest THEN g ELSE newest

(* Everything a finished call held; its account object is gone.            *)
Forget(p) ==
    /\ acct' = [acct EXCEPT ![p] = None]
    /\ fresh' = [fresh EXCEPT ![p] = None]
    /\ own' = [own EXCEPT ![p] = FALSE]
    /\ attempt' = [attempt EXCEPT ![p] = 0]

Done(p) == To(p, "idle") /\ Forget(p)

(* A request has its token; it keeps the account object it came with.      *)
Forward(r) ==
    /\ To(r, "forward")
    /\ fresh' = [fresh EXCEPT ![r] = None]
    /\ UNCHANGED <<acct, own, attempt>>

(***************************************************************************)
(* Callers                                                                 *)
(***************************************************************************)
(* processRefresh: ListActive and NeedsRefresh.                            *)
Cycle(w) ==
    /\ pc[w] = "idle" /\ status = "active" /\ NeedsRefresh(w, stored)
    /\ acct' = [acct EXCEPT ![w] = stored]
    /\ attempt' = [attempt EXCEPT ![w] = 1]
    /\ To(w, "mutex")
    /\ UNCHANGED <<live, dbVars, clockVars, cache, lock, mutex, fresh, own, held,
                   faults, why>>

(* The account comes from the scheduler and may be an old copy, one of     *)
(* before a 401 expired it too. A cached token is used as it is.           *)
GetAccessToken(r) ==
    /\ pc[r] = "idle"
    /\ \E g \in 1..newest :
         /\ acct' = [acct EXCEPT ![r] = g]
         /\ \/ cache # None /\ To(r, "forward") /\ UNCHANGED <<fresh, faults>>
            \/ /\ (cache = None /\ UNCHANGED faults) \/ Fault
               /\ \/ NeedsRefresh(r, g) /\ To(r, "mutex") /\ UNCHANGED fresh
                  \/ /\ g > expiring /\ To(r, "check")
                     /\ fresh' = [fresh EXCEPT ![r] = g]
    /\ UNCHANGED <<live, dbVars, clockVars, cache, lock, mutex, own, held,
                   attempt, why>>

(***************************************************************************)
(* RefreshIfNeeded                                                         *)
(***************************************************************************)
LocalLock(p) ==
    /\ pc[p] = "mutex" /\ mutex[Home[p]] = Nobody
    /\ mutex' = [mutex EXCEPT ![Home[p]] = p]
    /\ To(p, "lock")
    /\ UNCHANGED <<live, dbVars, clockVars, cache, lock, procVars, held, faults,
                   why>>

(* Mutant: SET without NX.                                                 *)
AcquireRefreshLockAnyway(p) ==
    /\ pc[p] = "lock"
    /\ lock' = p
    /\ held' = [held EXCEPT ![p] = TRUE]
    /\ To(p, "reread")
    /\ UNCHANGED <<live, dbVars, clockVars, cache, mutex, procVars, faults, why>>

(* SETNX                                                                   *)
AcquireRefreshLock(p) ==
    /\ pc[p] = "lock" /\ lock = Nobody
    /\ lock' = p
    /\ held' = [held EXCEPT ![p] = TRUE]
    /\ To(p, "reread")
    /\ UNCHANGED <<live, dbVars, clockVars, cache, mutex, procVars, faults, why>>

(* Redis fails: the refresh goes on without the distributed lock, which    *)
(* the lost call may have set.                                             *)
LockDegraded(p) ==
    /\ pc[p] = "lock" /\ Fault
    /\ lock' \in IF lock = Nobody THEN {Nobody, p} ELSE {lock}
    /\ To(p, "reread")
    /\ Because("unlocked", TRUE)
    /\ UNCHANGED <<live, dbVars, clockVars, cache, mutex, procVars, held>>

(* The worker skips the account, a request waits for the cache.            *)
LockHeld(p) ==
    /\ pc[p] = "lock" /\ lock # Nobody
    /\ mutex' = [mutex EXCEPT ![Home[p]] = Nobody]
    /\ IF p \in Workers THEN Done(p) ELSE To(p, "wait") /\ UNCHANGED procVars
    /\ UNCHANGED <<live, dbVars, clockVars, cache, lock, held, faults, why>>

(* The account is read again under the lock; an error falls back to the    *)
(* caller's copy. Another refresh may have been faster.                    *)
Reread(p) ==
    /\ pc[p] = "reread"
    /\ \E e \in BOOLEAN :
         LET g == IF e THEN acct[p] ELSE stored IN
         /\ IF e THEN Fault ELSE UNCHANGED faults
         /\ fresh' = [fresh EXCEPT ![p] = g]
         /\ own' = [own EXCEPT ![p] = e]
         /\ \/ NeedsRefresh(p, g) /\ To(p, "refresh")
            \/ (e \/ g \notin expired) /\ g > Window(p) /\ To(p, "current")
    /\ UNCHANGED <<live, dbVars, clockVars, cache, lock, mutex, acct, held,
                   attempt, why>>

(* Mutant: the old fields win when the credentials are merged.             *)
RefreshKeepsOld(p) ==
    /\ pc[p] = "refresh" /\ fresh[p] = live
    /\ live' = live + 1
    /\ To(p, "persist")
    /\ UNCHANGED <<dbVars, clockVars, cache, lock, mutex, procVars, held, faults,
                   why>>

(* The provider rotates the refresh token.                                 *)
Refresh(p) ==
    /\ pc[p] = "refresh" /\ fresh[p] = live
    /\ live' = live + 1
    /\ fresh' = [fresh EXCEPT ![p] = live + 1]
    /\ To(p, "persist")
    /\ UNCHANGED <<dbVars, clockVars, cache, lock, mutex, acct, own, held,
                   attempt, faults, why>>

(* A used token is answered invalid_grant or, by OpenAI,                   *)
(* refresh_token_reused, after which the row is not read again.            *)
InvalidGrant(p) ==
    /\ pc[p] = "refresh" /\ fresh[p] # live
    /\ \/ To(p, "recover") /\ UNCHANGED why
       \/ To(p, "denied") /\ Because("reused", stored # fresh[p])
    /\ UNCHANGED <<live, dbVars, clockVars, cache, lock, mutex, procVars, held,
                   faults>>

(* invalid_client, unauthorized_client, access_denied and their like       *)
RefreshRefused(p) ==
    /\ pc[p] = "refresh" /\ Fault
    /\ Because("refused", TRUE)
    /\ To(p, "denied")
    /\ UNCHANGED <<live, dbVars, clockVars, cache, lock, mutex, procVars, held>>

(* The request or its answer is lost: in the second case the provider has  *)
(* rotated the token and nobody knows the new one.                         *)
RefreshFails(p) ==
    /\ pc[p] = "refresh" /\ Fault
    /\ \E rotated \in {e \in BOOLEAN : e => fresh[p] = live} :
         /\ live' = IF rotated THEN live + 1 ELSE live
         /\ Because("lost", rotated)
    /\ To(p, "error")
    /\ UNCHANGED <<dbVars, clockVars, cache, lock, mutex, procVars, held>>

(* Mutant: a refused refresh is final.                                     *)
RecoverNever(p) ==
    /\ pc[p] = "recover"
    /\ To(p, "denied")
    /\ UNCHANGED <<live, dbVars, clockVars, cache, lock, mutex, procVars, held,
                   faults, why>>

(* tryRecoverFromRefreshRace                                               *)
Recover(p) ==
    /\ pc[p] = "recover"
    /\ \/ /\ stored # fresh[p]
          /\ fresh' = [fresh EXCEPT ![p] = stored]
          /\ To(p, "current") /\ UNCHANGED <<faults, why>>
       \/ /\ stored = fresh[p]
          /\ To(p, "denied") /\ UNCHANGED <<fresh, faults, why>>
       \/ /\ Fault /\ Because("unread", stored # fresh[p])
          /\ To(p, "denied") /\ UNCHANGED fresh
    /\ UNCHANGED <<live, dbVars, clockVars, cache, lock, mutex, acct, own, held,
                   attempt>>

(* A request that has checked the version of an older token and not stored *)
(* it yet will store it behind this update.                                *)
Raced(g) == \E r \in Requests : pc[r] = "set" /\ fresh[r] < g

(* persistAccountCredentials: the new credentials go into freshAccount,    *)
(* which may be the caller's object, and then into the row.                *)
Persist(p) ==
    /\ pc[p] = "persist"
    /\ acct' = IF own[p] THEN [acct EXCEPT ![p] = fresh[p]] ELSE acct
    /\ Store(fresh[p])
    /\ Because("raced", Raced(fresh[p]))
    /\ To(p, "refreshed")
    /\ UNCHANGED <<live, status, unsched, clockVars, cache, lock, mutex, fresh,
                   own, attempt, held, faults>>

(* The update fails, or is made and reported as failed: then the retry     *)
(* finds the new credentials and leaves the cached token alone.            *)
PersistFails(p) ==
    /\ pc[p] = "persist" /\ Fault
    /\ acct' = IF own[p] THEN [acct EXCEPT ![p] = fresh[p]] ELSE acct
    /\ \/ Because("lost", TRUE) /\ UNCHANGED rowVars
       \/ Because("dropped", TRUE) /\ Store(fresh[p])
    /\ To(p, "error")
    /\ UNCHANGED <<live, status, unsched, clockVars, cache, lock, mutex, fresh,
                   own, held, attempt>>

(* Mutant: one attempt too many.                                           *)
RetriesLeftOnceMore(p) == attempt[p] <= MaxRetries

RetriesLeft(p) == attempt[p] < MaxRetries

(* Where the caller continues.                                             *)
Continue(p) ==
    IF p \in Requests
    THEN /\ To(p, "check")
         /\ fresh' = IF pc[p] \in {"refreshed", "current"}
                     THEN fresh ELSE [fresh EXCEPT ![p] = acct[p]]
         /\ own' = [own EXCEPT ![p] = FALSE]
         /\ UNCHANGED <<acct, attempt>>
    ELSE CASE pc[p] = "refreshed" -> To(p, "post") /\ UNCHANGED procVars
           [] pc[p] = "current"   -> Done(p)
           [] pc[p] = "denied"    -> To(p, "setError") /\ UNCHANGED procVars
           [] pc[p] = "error"     ->
                /\ To(p, IF RetriesLeft(p) THEN "mutex" ELSE "giveUp")
                /\ attempt' = [attempt EXCEPT ![p] =
                                 IF RetriesLeft(p) THEN @ + 1 ELSE @]
                /\ UNCHANGED <<acct, fresh, own>>

(* The deferred calls: DEL whoever set the key, an error of it ignored,    *)
(* then the mutex.                                                         *)
Release(p) ==
    /\ pc[p] \in {"refreshed", "current", "denied", "error"}
    /\ \/ lock' = (IF held[p] THEN Nobody ELSE lock) /\ UNCHANGED faults
       \/ held[p] /\ Fault /\ UNCHANGED lock
    /\ held' = [held EXCEPT ![p] = FALSE]
    /\ mutex' = [mutex EXCEPT ![Home[p]] = Nobody]
    /\ Continue(p)
    /\ UNCHANGED <<live, dbVars, clockVars, cache, why>>

(***************************************************************************)
(* Afterwards                                                              *)
(***************************************************************************)
(* postRefreshActions: temporary unschedulability, cleared if the account  *)
(* object of before the refresh shows it, then the token cache.            *)
PostRefresh(w) ==
    /\ pc[w] = "post"
    /\ unsched' \in {unsched, FALSE}
    /\ \/ cache' = None /\ UNCHANGED <<faults, why>>
       \/ UNCHANGED cache /\ Fault /\ Because("dropped", TRUE)
    /\ Done(w)
    /\ UNCHANGED <<live, rowVars, status, clockVars, lock, mutex, held>>

(* A non-retryable error, a worker's or a request's, takes the account out *)
(* of ListActive.                                                          *)
SetError(p) ==
    /\ pc[p] = "setError"
    /\ \/ status' = "error" /\ UNCHANGED faults
       \/ Fault /\ UNCHANGED status
    /\ Done(p)
    /\ UNCHANGED <<live, rowVars, unsched, clockVars, cache, lock, mutex, held, why>>

(* A worker out of retries, or a request after a 401.                      *)
SetTempUnschedulable(p) ==
    /\ pc[p] = "giveUp"
    /\ \/ unsched' = TRUE /\ UNCHANGED faults
       \/ Fault /\ UNCHANGED unsched
    /\ Done(p)
    /\ UNCHANGED <<live, rowVars, status, clockVars, cache, lock, mutex, held, why>>

(***************************************************************************)
(* The request afterwards                                                  *)
(***************************************************************************)
WaitForCache(r) ==
    /\ pc[r] = "wait"
    /\ \/ cache # None /\ Forward(r) /\ UNCHANGED faults
       \/ /\ (cache = None /\ UNCHANGED faults) \/ Fault
          /\ To(r, "check")
          /\ fresh' = [fresh EXCEPT ![r] = acct[r]]
          /\ UNCHANGED <<acct, own, attempt>>
    /\ UNCHANGED <<live, dbVars, clockVars, cache, lock, mutex, held, why>>

(* Mutant: the token is cached without the check.                          *)
CheckTokenVersionNever(r) ==
    /\ pc[r] = "check"
    /\ To(r, "set")
    /\ UNCHANGED <<live, dbVars, clockVars, cache, lock, mutex, procVars, held,
                   faults, why>>

(* A newer version in the row is used and not cached; if the row cannot be *)
(* read the token is cached unchecked.                                     *)
CheckTokenVersion(r) ==
    /\ pc[r] = "check"
    /\ \/ stored > fresh[r] /\ Forward(r) /\ UNCHANGED <<faults, why>>
       \/ /\ stored <= fresh[r]
          /\ To(r, "set") /\ UNCHANGED <<procVars, faults, why>>
       \/ Fault /\ To(r, "set") /\ Because("raced", stored > fresh[r])
          /\ UNCHANGED procVars
    /\ UNCHANGED <<live, dbVars, clockVars, cache, lock, mutex, held>>

SetAccessToken(r) ==
    /\ pc[r] = "set"
    /\ \/ cache' = fresh[r] /\ UNCHANGED <<faults, why>>
       \/ Fault /\ Because("dropped", cache # None) /\ UNCHANGED cache
    /\ Forward(r)
    /\ UNCHANGED <<live, dbVars, clockVars, lock, mutex, held>>

Answered(r) ==
    /\ pc[r] = "forward"
    /\ Done(r)
    /\ UNCHANGED <<live, dbVars, clockVars, cache, lock, mutex, held, faults, why>>

(* HandleUpstreamError on a 401: the cached token is dropped, unless that  *)
(* fails or the 401 says that the token was revoked, which is final, as is *)
(* a missing refresh token.                                                *)
Unauthorized(r) ==
    /\ pc[r] = "forward" /\ acct[r] < MaxGen /\ Fault
    /\ cache' \in {None, cache}
    /\ \/ Because("refused", TRUE) /\ To(r, "setError")
       \/ To(r, "writeBack") /\ UNCHANGED why
    /\ UNCHANGED <<live, dbVars, clockVars, lock, mutex, procVars, held>>

(* The account object the request came with is written back with           *)
(* expires_at set to now, all its credentials and without a lock.          *)
WriteBack(r) ==
    /\ pc[r] = "writeBack"
    /\ \/ /\ Store(acct[r]) /\ expired' = expired \cup {acct[r]}
          /\ Because("overwritten", acct[r] # stored)
          /\ UNCHANGED faults
       \/ Fault /\ UNCHANGED <<rowVars, expired, why>>
    /\ To(r, "giveUp")
    /\ UNCHANGED <<live, status, unsched, near, expiring, cache, lock, mutex,
                   procVars, held>>

(***************************************************************************)
(* The environment                                                         *)
(***************************************************************************)
TokenNears ==
    /\ near < live /\ near < MaxGen - 1 /\ near' = near + 1
    /\ UNCHANGED <<live, dbVars, expiring, expired, cache, lock, mutex, pc,
                   procVars, held, faults, why>>

TokenExpires ==
    /\ expiring < near /\ expiring' = expiring + 1
    /\ UNCHANGED <<live, dbVars, near, expired, cache, lock, mutex, pc, procVars,
                   held, faults, why>>

CacheExpires ==
    /\ cache # None /\ cache' = None
    /\ UNCHANGED <<live, dbVars, clockVars, lock, mutex, pc, procVars, held,
                   faults, why>>

(* Mutant: the key is set without a TTL.                                   *)
LockExpiresNever == FALSE /\ UNCHANGED vars

(* The TTL ends, for a lock left behind or under its holder.               *)
LockExpires ==
    /\ lock # Nobody /\ ~held[lock]
    /\ lock' = Nobody
    /\ UNCHANGED <<live, dbVars, clockVars, cache, mutex, pc, procVars, held,
                   faults, why>>

LockLapses ==
    /\ lock # Nobody /\ held[lock] /\ Fault
    /\ lock' = Nobody
    /\ Because("unlocked", TRUE)
    /\ UNCHANGED <<live, dbVars, clockVars, cache, mutex, pc, procVars, held>>

(* A server process dies; the lock in Redis stays.                         *)
Crash(i) ==
    LET dead == {p \in Procs : Home[p] = i} IN
    /\ Fault /\ \E p \in dead : pc[p] # "idle"
    /\ pc' = [p \in Procs |-> IF p \in dead THEN "idle" ELSE pc[p]]
    /\ acct' = [p \in Procs |-> IF p \in dead THEN None ELSE acct[p]]
    /\ fresh' = [p \in Procs |-> IF p \in dead THEN None ELSE fresh[p]]
    /\ own' = [p \in Procs |-> own[p] /\ p \notin dead]
    /\ held' = [p \in Procs |-> held[p] /\ p \notin dead]
    /\ attempt' = [p \in Procs |-> IF p \in dead THEN 0 ELSE attempt[p]]
    /\ mutex' = [mutex EXCEPT ![i] = Nobody]
    /\ why' = why \cup (IF \E p \in dead : pc[p] = "persist" THEN {"lost"} ELSE {})
                  \cup (IF \E p \in dead : pc[p] \in {"refreshed", "post", "check", "set"}
                        THEN {"dropped"} ELSE {})
    /\ UNCHANGED <<live, dbVars, clockVars, cache, lock>>

CallStep(p) ==
    \/ LocalLock(p) \/ AcquireRefreshLock(p) \/ LockHeld(p) \/ Reread(p)
    \/ Refresh(p) \/ InvalidGrant(p) \/ Recover(p) \/ Persist(p) \/ Release(p)
    \/ SetError(p) \/ SetTempUnschedulable(p)

WorkerStep(w) == Cycle(w) \/ PostRefresh(w)
RequestStep(r) ==
    \/ WaitForCache(r) \/ CheckTokenVersion(r) \/ SetAccessToken(r)
    \/ Answered(r) \/ WriteBack(r)
CallFails(p) ==
    LockDegraded(p) \/ RefreshRefused(p) \/ RefreshFails(p) \/ PersistFails(p)

Next ==
    \/ \E p \in Procs : CallStep(p) \/ CallFails(p)
    \/ \E w \in Workers : WorkerStep(w)
    \/ \E r \in Requests : GetAccessToken(r) \/ Unauthorized(r) \/ RequestStep(r)
    \/ TokenNears \/ TokenExpires \/ CacheExpires
    \/ LockExpires \/ LockLapses \/ \E i \in Instances : Crash(i)

(* Calls return or time out, the refresh loop ticks, and an abandoned lock *)
(* runs out. A mutex waiter is served before others take it for ever.      *)
Spec ==
    /\ Init /\ [][Next]_vars
    /\ \A p \in Procs : SF_vars(LocalLock(p))
    /\ \A w \in Workers : WF_vars(CallStep(w) \/ WorkerStep(w))
    /\ \A r \in Requests : WF_vars(CallStep(r) \/ RequestStep(r))
    /\ WF_vars(LockExpires)

-----------------------------------------------------------------------------
InLock == {"lock", "reread", "refresh", "recover", "persist", "refreshed",
           "current", "denied", "error"}
States == InLock \cup {"idle", "mutex", "post", "setError", "giveUp", "wait",
                       "check", "set", "forward", "writeBack"}
Gens == 1..MaxGen
Reasons == {"unlocked", "lost", "overwritten", "unread", "reused", "refused",
            "raced", "dropped"}

TypeOK ==
    /\ live \in Gens /\ stored \in Gens /\ newest \in Gens
    /\ status \in {"active", "error"} /\ unsched \in BOOLEAN
    /\ near \in 0..MaxGen /\ expiring \in 0..MaxGen /\ expired \subseteq Gens
    /\ cache \in Gens \cup {None}
    /\ lock \in Procs \cup {Nobody}
    /\ mutex \in [Instances -> Procs \cup {Nobody}]
    /\ pc \in [Procs -> States]
    /\ acct \in [Procs -> Gens \cup {None}]
    /\ fresh \in [Procs -> Gens \cup {None}]
    /\ own \in [Procs -> BOOLEAN] /\ held \in [Procs -> BOOLEAN]
    /\ attempt \in [Procs -> 0..MaxRetries]
    /\ faults \in 0..MaxFaults /\ why \subseteq Reasons

Working(p) == pc[p] \in {"reread", "refresh", "recover", "persist"}

(* Two calls work on the same account at once only in different processes  *)
(* and only after Redis failed or a lock ran out under its holder.         *)
ExclusiveRefresh ==
    \A p, q \in Procs :
        p # q /\ Working(p) /\ Working(q) => Home[p] # Home[q] /\ "unlocked" \in why

(* The row holds the provider's last credentials, or a call is about to    *)
(* write them, unless the provider's answer, the update or the process was *)
(* lost while they existed only there (RefreshFails, PersistFails, Crash), *)
(* or a 401 has written a request's older copy over them (WriteBack). The  *)
(* refreshes themselves, overlapping ones too, never undo one another.     *)
CredentialsKept ==
    \/ stored = live
    \/ \E p \in Procs : pc[p] = "persist" /\ fresh[p] = live
    \/ why \cap {"lost", "overwritten"} # {}

(* An account is taken out of service for good only if its refresh token   *)
(* is dead in the row (lost or overwritten, see CredentialsKept), two      *)
(* refreshes overlapped, a used token was refused and the row's newer one  *)
(* not found (both reads failed, or refresh_token_reused, after which none *)
(* is made), or the provider or the upstream gave another final refusal.   *)
(* A stale copy, one failed read, a lost race answered invalid_grant or    *)
(* any number of retryable errors alone never does it.                     *)
ErrorExplained ==
    status = "error" =>
        why \cap {"lost", "overwritten", "unlocked", "unread", "reused", "refused"} # {}

(* A call that has written newer credentials, or found them written, and   *)
(* has yet to drop or overwrite the cached token.                          *)
UpdatesCache(p) ==
    \/ p \in Workers /\ pc[p] \in {"refreshed", "post"}
    \/ p \in Requests /\ pc[p] \in {"refreshed", "check", "set"} /\ fresh[p] >= stored

(* A cached access token is not older than the row's, or the refresh that  *)
(* replaced it has yet to drop or overwrite it, unless a request stored it *)
(* between its check and an update or could not check ("raced"), the step  *)
(* that should have replaced it failed, died or was left out because the   *)
(* update was reported as failed ("dropped"), or a 401 has changed the row *)
(* ("overwritten"). In particular lost locks, stale copies and refused     *)
(* refreshes leave no old token behind.                                    *)
CacheCurrent ==
    \/ cache = None \/ cache >= stored
    \/ \E p \in Procs : UpdatesCache(p)
    \/ why \cap {"raced", "dropped", "overwritten"} # {}

(* Credentials that a worker would refresh.                                *)
Due == stored <= near \/ stored \in expired

(* A token inside the refresh window, or expired by a 401, is replaced, or *)
(* the account is marked, unless requests go on taking the lock for ever:  *)
(* a worker that finds it taken skips the account until its next cycle.    *)
TokenRefreshed ==
    <>[](lock \notin Requests) => (Due ~> (~Due \/ status = "error"))

(* What the comment of CheckTokenVersion says: a refresh has updated the   *)
(* token and deleted the cached one, and a request's old account object is *)
(* not written to the cache. Not an invariant: an update may come between  *)
(* the check and the write.                                                *)
OldTokenNotCached ==
    cache = None \/ cache >= stored \/ \E p \in Procs : UpdatesCache(p)

(* What the comments of the 401 handler say: an OAuth account is kept      *)
(* active, with an expired token, for the refresh service to pick up. Only *)
(* losses and refusals of a refresh take it out of service. Not an         *)
(* invariant: the credentials written back may hold a used refresh token.  *)
AccountSurvives401 ==
    status = "error" => why \cap {"lost", "unlocked", "unread", "reused", "refused"} # {}
=============================================================================
