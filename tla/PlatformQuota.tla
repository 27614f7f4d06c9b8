---------------------------- MODULE PlatformQuota ---------------------------
(***************************************************************************)
(* The spending quota of one user on one platform, kept in Postgres        *)
(* (repository/user_platform_quota_repo.go) and cached in Redis            *)
(* (repository/billing_cache.go). A request is checked before it is        *)
(* forwarded (checkUserPlatformQuotaEligibility) and charged after it      *)
(* (finalizePostUsageBilling): at once in Redis, later in Postgres, by a   *)
(* goroutine of its own that reads the clock before it waits for the row.  *)
(*                                                                         *)
(* The daily and the weekly window are handled alike in the same           *)
(* statements, so one of them is modelled; the monthly one differs only in *)
(* where a window begins (at its first use). Windows are numbered, 0 is    *)
(* the NULL window start of a row or entry never charged. A charge costs   *)
(* 1. Limit 0 is a NULL limit: unlimited.                                  *)
(***************************************************************************)
EXTENDS Integers, FiniteSets

CONSTANTS
    Requests,    \* requests in flight at one time
    Writers,     \* bound: goroutines writing to Postgres at one time
    Limit,       \* the limit registration gives the user
    Origins,     \* which users: "registered" with quotas, "legacy" before them
    Faults,      \* whether Redis, Postgres and the writer goroutine may fail
    LastWindow,  \* bound: windows
    MaxSpent     \* bound: charges per window

ASSUME QuotaAssumption ==
    /\ IsFiniteSet(Requests)
    /\ IsFiniteSet(Writers)
    /\ Limit \in Nat \ {0}
    /\ Origins \subseteq {"registered", "legacy"}
    /\ Faults \in BOOLEAN
    /\ LastWindow \in Nat \ {0}
    /\ MaxSpent \in Nat

VARIABLES
    now,         \* the current window
    row,         \* the Postgres row; kind "none" when absent
    cache,       \* the Redis hash: "none", "old" (previous schema) or "v1"
    pc,          \* per request
    path,        \* per request: which branch of the check it is in
    snap,        \* per request: what it read, later what it will store
    write,       \* per goroutine: "none", "started", "dated", "inserting"
    clock,       \* per goroutine: the window of the time it read
    spent,       \* history: charges made in the current window
    carried,     \* history: writes under way when the window began
    undated,     \* history: those of them that had not read the clock
    lost,        \* history: failed writes of this window
    erased,      \* history: usage of this window an older clock reset
    misfiled     \* history: charges of this window added to another one's
                 \* row, less those of others added to this one's

vars == <<now, row, cache, pc, path, snap, write, clock, spent, carried,
          undated, lost, erased, misfiled>>
reqVars == <<pc, path, snap>>
writeVars == <<write, clock>>
slips == <<lost, erased, misfiled>>
tally == <<spent, carried, undated, slips>>

Windows == 0..LastWindow
Entry == [kind : {"none", "old", "v1"}, usage : Nat, start : Windows,
          limit : {0, Limit}]
Absent == [kind |-> "none", usage |-> 0, start |-> 0, limit |-> 0]

(* Registration leaves a row with the default limit and NULL window        *)
(* starts; a user older than the quotas has no row.                        *)
InitialRow(o) ==
    IF o = "legacy" THEN Absent
    ELSE [kind |-> "v1", usage |-> 0, start |-> 0, limit |-> Limit]

Init ==
    /\ now = 1
    /\ \E o \in Origins : row = InitialRow(o)
    /\ cache \in {Absent, [Absent EXCEPT !.kind = "old"]}
    /\ pc = [r \in Requests |-> "idle"]
    /\ path = [r \in Requests |-> "miss"]
    /\ snap = [r \in Requests |-> Absent]
    /\ write = [g \in Writers |-> "none"]
    /\ clock = [g \in Writers |-> 0]
    /\ spent = 0
    /\ carried = 0
    /\ undated = 0
    /\ lost = 0
    /\ erased = 0
    /\ misfiled = 0

(***************************************************************************)
(* checkUserPlatformQuotaEligibility                                       *)
(***************************************************************************)
(* Mutant: only a window never started counts as expired.                  *)
ExpiredIfNull(start) == start = 0

(* quotaWindowExpired, for NULL too.                                       *)
Expired(start) == start < now

Exhausted(limit, usage) == limit # 0 /\ usage >= limit

GetCache(r) ==
    /\ pc[r] = "idle"
    /\ \/ /\ cache.kind = "v1"
          /\ snap' = [snap EXCEPT ![r] = cache]
          /\ path' = [path EXCEPT ![r] = "hit"]
          /\ pc' = [pc EXCEPT ![r] = "decide"]
       \/ /\ cache.kind # "v1"
          /\ path' = [path EXCEPT ![r] = "miss"]
          /\ pc' = [pc EXCEPT ![r] = "load"]
          /\ UNCHANGED snap
       \/ /\ Faults
          /\ path' = [path EXCEPT ![r] = "redisDown"]
          /\ pc' = [pc EXCEPT ![r] = "load"]
          /\ UNCHANGED snap
    /\ UNCHANGED <<now, row, cache, writeVars, tally>>

(* GetByUserPlatform, possibly shared with other callers (singleflight); a *)
(* missing row, an error and a context that ends let the request through.  *)
LoadRow(r) ==
    /\ pc[r] = "load"
    /\ \/ /\ row.kind = "v1"
          /\ snap' = [snap EXCEPT ![r] = row]
          /\ pc' = [pc EXCEPT ![r] = "decide"]
       \/ /\ row.kind = "none" \/ Faults
          /\ pc' = [pc EXCEPT ![r] = "run"]
          /\ UNCHANGED snap
    /\ UNCHANGED <<now, row, cache, path, writeVars, tally>>

(* Window start of the entry to store: a hit moves an expired window to    *)
(* the current one, a backfill keeps what the row says.                    *)
StoredStart(r) ==
    IF path[r] = "hit" /\ Expired(snap[r].start) THEN now ELSE snap[r].start

CountedUsage(r) == IF Expired(snap[r].start) THEN 0 ELSE snap[r].usage

MustStore(r) ==
    \/ path[r] = "miss"
    \/ path[r] = "hit" /\ Expired(snap[r].start)

Passes(r) == ~Exhausted(snap[r].limit, CountedUsage(r))

DecideAndStore(r) ==
    /\ pc[r] = "decide"
    /\ MustStore(r)
    /\ snap' = [snap EXCEPT ![r] = [kind |-> "v1", usage |-> CountedUsage(r),
                                    start |-> StoredStart(r), limit |-> @.limit]]
    /\ pc' = [pc EXCEPT ![r] = IF Passes(r) THEN "storePass" ELSE "storeReject"]
    /\ UNCHANGED <<now, row, cache, path, writeVars, tally>>

Decide(r) ==
    /\ pc[r] = "decide"
    /\ ~MustStore(r)
    /\ snap' = [snap EXCEPT ![r] = Absent]
    /\ pc' = [pc EXCEPT ![r] = IF Passes(r) THEN "run" ELSE "idle"]
    /\ UNCHANGED <<now, row, cache, path, writeVars, tally>>

(* SetUserPlatformQuotaCache: unconditional, for hits and for backfills;   *)
(* the verdict stands when it fails.                                       *)
StoreEntry(r) ==
    /\ pc[r] \in {"storePass", "storeReject"}
    /\ cache' = snap[r] \/ (Faults /\ UNCHANGED cache)
    /\ snap' = [snap EXCEPT ![r] = Absent]
    /\ pc' = [pc EXCEPT ![r] = IF @ = "storePass" THEN "run" ELSE "idle"]
    /\ UNCHANGED <<now, row, path, writeVars, tally>>

(***************************************************************************)
(* finalizePostUsageBilling                                                *)
(***************************************************************************)
(* updateUserPlatformQuotaUsageScript: only an entry of this schema.       *)
IncrUsage ==
    cache' = IF cache.kind = "v1" THEN [cache EXCEPT !.usage = @ + 1] ELSE cache

(* Starts the goroutine of the Postgres write; Writers bounds how many run.*)
Charge(r) ==
    /\ pc[r] = "run"
    /\ spent < MaxSpent
    /\ IncrUsage \/ (Faults /\ UNCHANGED cache)
    /\ \E g \in Writers :
          /\ write[g] = "none"
          /\ write' = [write EXCEPT ![g] = "started"]
    /\ spent' = spent + 1
    /\ pc' = [pc EXCEPT ![r] = "idle"]
    /\ UNCHANGED <<now, row, path, snap, clock, carried, undated, slips>>

(* The forward failed: nothing to charge.                                  *)
EndUncharged(r) ==
    /\ pc[r] = "run"
    /\ pc' = [pc EXCEPT ![r] = "idle"]
    /\ UNCHANGED <<now, row, cache, path, snap, writeVars, tally>>

(* time.Now() is the argument of the call: read before the transaction     *)
(* begins and before SELECT ... FOR UPDATE waits for the row.              *)
ReadClock(g) ==
    /\ write[g] = "started"
    /\ write' = [write EXCEPT ![g] = "dated"]
    /\ clock' = [clock EXCEPT ![g] = now]
    /\ UNCHANGED <<now, row, cache, reqVars, tally>>

EndWrite(g) ==
    /\ write' = [write EXCEPT ![g] = "none"]
    /\ clock' = [clock EXCEPT ![g] = 0]

(* Mutant: usage of an earlier window is kept.                             *)
maybeResetNever(usage, start, currStart) == usage + 1

maybeReset(usage, start, currStart) ==
    IF start # currStart THEN 1 ELSE usage + 1

(* Usage Postgres attributes to the current window.                        *)
PersistedUsage == IF row.start = now THEN row.usage ELSE 0

(* IncrementUsageWithReset on a row that is there and now locked.          *)
WriteRow(g) ==
    /\ write[g] = "dated"
    /\ row.kind = "v1"
    /\ row' = [row EXCEPT !.usage = maybeReset(row.usage, row.start, clock[g]),
                          !.start = clock[g]]
    /\ erased' = erased + IF clock[g] < now THEN PersistedUsage ELSE 0
    /\ EndWrite(g)
    /\ UNCHANGED <<now, cache, reqVars, spent, carried, undated, lost, misfiled>>

(* The same SELECT finds no row, and locks nothing.                        *)
SelectMissing(g) ==
    /\ write[g] = "dated"
    /\ row.kind = "none"
    /\ write' = [write EXCEPT ![g] = "inserting"]
    /\ UNCHANGED <<now, row, cache, reqVars, clock, tally>>

(* INSERT ... ON CONFLICT DO UPDATE: creates the row without a limit, or   *)
(* adds to the one created meanwhile, whose window it leaves alone.        *)
InsertRow(g) ==
    /\ write[g] = "inserting"
    /\ \/ /\ row.kind = "none"
          /\ row' = [kind |-> "v1", usage |-> 1, start |-> clock[g], limit |-> 0]
          /\ UNCHANGED misfiled
       \/ /\ row.kind = "v1"
          /\ row' = [row EXCEPT !.usage = @ + 1]
          /\ misfiled' = misfiled + (IF clock[g] = now THEN 1 ELSE 0)
                                  - (IF row.start = now THEN 1 ELSE 0)
    /\ EndWrite(g)
    /\ UNCHANGED <<now, cache, reqVars, spent, carried, undated, lost, erased>>

(* Whether g's charge is to be counted in the current window.              *)
Current(g) == write[g] = "started" \/ (write[g] # "none" /\ clock[g] = now)

(* The write fails, or the process ends before the goroutine is done.      *)
WriteRowFails(g) ==
    /\ Faults
    /\ write[g] # "none"
    /\ lost' = lost + IF Current(g) THEN 1 ELSE 0
    /\ EndWrite(g)
    /\ UNCHANGED <<now, row, cache, reqVars, spent, carried, undated, erased,
                   misfiled>>

(* BulkInsertInitial: creates the row, or fills in a NULL limit.           *)
InsertInitial ==
    /\ row.limit = 0
    /\ row' = [row EXCEPT !.kind = "v1", !.limit = Limit]
    /\ UNCHANGED <<now, cache, reqVars, writeVars, tally>>

(***************************************************************************)
(* Time                                                                    *)
(***************************************************************************)
CacheExpires ==
    /\ cache.kind # "none"
    /\ cache' = Absent
    /\ UNCHANGED <<now, row, reqVars, writeVars, tally>>

UnderWay == {g \in Writers : write[g] # "none"}
Undated == {g \in Writers : write[g] = "started"}

NextWindow ==
    /\ now < LastWindow
    /\ now' = now + 1
    /\ spent' = 0
    /\ carried' = Cardinality(UnderWay)
    /\ undated' = Cardinality(Undated)
    /\ lost' = 0
    /\ erased' = 0
    /\ misfiled' = 0
    /\ UNCHANGED <<row, cache, reqVars, writeVars>>

Next ==
    \/ \E r \in Requests :
          \/ GetCache(r) \/ LoadRow(r) \/ DecideAndStore(r) \/ Decide(r)
          \/ StoreEntry(r) \/ Charge(r) \/ EndUncharged(r)
    \/ \E g \in Writers :
          \/ ReadClock(g) \/ WriteRow(g) \/ SelectMissing(g) \/ InsertRow(g)
          \/ WriteRowFails(g)
    \/ InsertInitial \/ CacheExpires \/ NextWindow

Spec == Init /\ [][Next]_vars

-----------------------------------------------------------------------------
TypeOK ==
    /\ now \in 1..LastWindow
    /\ row \in Entry
    /\ cache \in Entry
    /\ pc \in [Requests -> {"idle", "load", "decide", "storePass",
                             "storeReject", "run"}]
    /\ path \in [Requests -> {"hit", "miss", "redisDown"}]
    /\ snap \in [Requests -> Entry]
    /\ write \in [Writers -> {"none", "started", "dated", "inserting"}]
    /\ clock \in [Writers -> Windows]
    /\ spent \in 0..MaxSpent
    /\ carried \in Nat
    /\ undated \in Nat
    /\ lost \in Nat
    /\ erased \in Nat
    /\ misfiled \in Int

(* The writes whose charge is to be counted in the current window.         *)
CurrentWrites == {g \in Writers : Current(g)}

(* Every charge dated in the current window is counted exactly once: in    *)
(* the row, in a write still to come or in one that failed. The two races  *)
(* of IncrementUsageWithReset are the only exceptions, each to the charge: *)
(* usage reset by a writer that read the clock in an earlier window and    *)
(* waited for the row (erased), and charges added by ON CONFLICT to a row  *)
(* whose window is not their own (misfiled).                               *)
PersistedUsageExact ==
    PersistedUsage + Cardinality(CurrentWrites) + lost + erased + misfiled
      = spent + undated

(* "If prevStart ... differs from currStart, the window has expired"       *)
(* (maybeReset): a write never moves the row's window back. It does: its   *)
(* clock may be older than that of a write it waited for.                  *)
ResetsOnlyExpired == [][row'.start >= row.start]_vars

(* The inductive invariant behind both properties: window starts and       *)
(* clocks are never in the future (a missing row has none), and what the   *)
(* row with the writes under way, a cached entry or a request's copy       *)
(* attribute to the current window has really been charged.                *)
NoFutureStart ==
    /\ row.start <= now
    /\ row.kind = "none" => row.start = 0
    /\ row.kind # "old"
    /\ cache.start <= now
    /\ \A r \in Requests : snap[r].start <= now
    /\ \A g \in Writers : clock[g] <= now
    /\ \A g \in Writers : write[g] \in {"none", "started"} => clock[g] = 0

CopiesSound ==
    /\ PersistedUsage + Cardinality(UnderWay) <= spent + carried
    /\ cache.start = now => cache.usage <= spent + carried
    /\ \A r \in Requests : snap[r].start = now => snap[r].usage <= spent + carried

QuotaInv == NoFutureStart /\ PersistedUsageExact /\ CopiesSound

(* No request is refused before the user has really spent the limit:       *)
(* stale snapshots, late stores and window changes in the middle of a      *)
(* check may let requests through, never turn one away unjustly.           *)
NeverRejectedEarly ==
    [][\A r \in Requests :
         pc[r] = "decide" /\ pc'[r] \in {"storeReject", "idle"}
           => spent + carried >= Limit]_vars

(* "Synchronous write ... limits the TOCTOU overspend window to the number *)
(* of concurrent in-flight requests" (IncrementUserPlatformQuotaUsage).    *)
(* Not an invariant: a backfill stores the old window start and the next   *)
(* hit takes the charges in between back.                                  *)
OverspendWithinInFlight ==
    row.limit = Limit => spent <= Limit - 1 + Cardinality(Requests)
=============================================================================
