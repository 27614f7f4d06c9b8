# Formal models of the seller relay

TLA+ models of the concurrent core of `seller-relay` (the Go gateway of this
repository), model-checked with TLC, with the safety of all eleven parts proved with
TLAPS. Source paths below are relative to `seller-relay/internal/`.

## 1. The system

`docs/` describes a marketplace protocol that has no code yet. The program is
`seller-relay`: an LLM API gateway (gin, Postgres, Redis) that authenticates an API
key, checks that the caller may spend, picks an upstream account, forwards the request,
switches account on failure, and charges the usage afterwards. Administration, login and
payment routes have been removed (`docs/progress/W1.md`); their services are still
compiled and wired in `cmd/server`, with their background jobs.

A request crosses these parts, in this order:

    API key auth -> user slot (wait queue) -> billing check -> account selection
      -> account slot -> forward / failover loop -> usage record worker
      -> billing transaction -> cache updates

They share Postgres rows and Redis keys; several server processes may share both.

| Part | State | Operations | What is hard | What makes it correct |
|---|---|---|---|---|
| Failover loop (`handler/failover_loop.go`, `gateway_handler.go`) | switch and retry counters, failed accounts, held slots, response started or not | select, wait, forward, retry, switch, back off, fall back | disconnect at any moment, slot released by two paths, half-written responses, retries that select anew | attempts bounded; never two accounts' output in one stream; slot held only around a forward; usage recorded exactly for what was served; no account unscheduled before its retries |
| Concurrency slots (`repository/concurrency_cache.go`, `handler/gateway_helper.go`) | sorted set of slots, wait counter | acquire, release, wait, prune, start-up cleanup | lost replies, crashes, restarts, several instances, expiring slots | limit kept but for requests that lost their slot to a named cause; no slot outlives its request; wait counter exact; every wait ends |
| Platform quota (`service/billing_cache_service.go`, `repository/user_platform_quota_repo.go`) | Postgres row, Redis hash, writes under way | check (hit, miss, Redis down), charge, persist, window reset | stale copies stored late, window change in the middle of a check, a clock read before the row lock | persisted usage exact up to two named races; nobody refused before the limit is spent |
| Billing transaction (`repository/usage_billing_repo.go`) | dedup row, archive row, balance, key quota, account quota, outbox | claim, apply, commit, archive | redelivery, lost commit reply, archive job in between | each request charged at most once; exhaustion reported by the charge that causes it |
| Balance cache (`service/billing_cache_service.go`) | Redis balance, write channel, load in flight | read, load, deduct, invalidate, stop | ten workers reorder writes; stop during traffic | the cached error is bounded by what overlapped the load or failed |
| Billing circuit breaker (same file) | state, failures, tokens | allow, refuse, report | late reports of earlier periods, failures that are not the store's | bounded probes; never stuck half-open; closes once checks stop failing |
| Idempotency (`service/idempotency.go`, `repository/idempotency_repo.go`) | one record per key | create, reclaim, mark, cleanup | clocks read long ago, expiry, a cleanup that selects first and deletes later, crashes, lost replies | replies answer their own request; one execution at a time and no repetition within the TTL, unless a claim is outlived or a renewed record taken for the expired one |
| System operation lock (`service/system_operation_lock_service.go`) | a lease on such a record | acquire, renew, release | lease running out, take-over, cleanup | one operation at a time while leases last |
| Scheduler snapshot (`service/scheduler_snapshot_service.go`, `repository/scheduler_cache.go`, `scheduler_outbox_repo.go`) | outbox rows, watermark, bucket snapshot, account entries, bucket lock | change and enqueue, delete, poll, rebuild, activate, fall back to the database | ids drawn before commit, events merged, missing or handled without the bucket, unlocked loads | a stale answer has a known cause; the snapshot converges |
| OAuth refresh (`service/oauth_refresh_api.go`, `token_refresh_service.go`, `claude_token_provider.go`, `ratelimit_service.go`) | credentials in the row, token cache, Redis lock, in-process mutex | refresh, persist, recover, mark broken, wait, cache, write back after a 401 | single-use refresh tokens, lock without owner check, lost answers, late cache writes, stale account objects | one refresh at a time; credentials lost, an account marked broken or an old token cached only for named causes; due tokens are replaced |
| WebSocket pool (`service/openai_ws_pool.go`) | connection map, lease token and waiters of each connection, dials under way | acquire, wait, dial, check, release, evict, ping, pre-warm, close | eviction against claims, work outside the lock, two paths that return a token | one lease per connection; limit kept; nothing leaked; leases not closed without cause |
| User message queue, usage record pool, auth cache, usage clean-up, account state, payments, sessions | see `PROJECT.json` | | lock without renewal, overflow at shutdown, late invalidation, duplicate notifications | not modelled, sections 7 and 8 |

`PROJECT.json` lists every part under `components`, the places where the code is hard to
test under `hazards`, and the source lines of every definition under `map`.

## 2. Modules

| Module | Contents |
|---|---|
| `Failover` | one request in the account loop; selection, upstream and client are the environment |
| `ConcurrencySlots` | slots and wait counter of one user, several requests, successive processes |
| `PlatformQuota` | one user on one platform, one kind of window |
| `IdempotencyStore` | one row of `idempotency_records`; one operator per SQL statement |
| `Idempotency` | `IdempotencyCoordinator.Execute` over that store |
| `SystemOperationLock` | the lease service over the same store |
| `ChargeLedger` | abstract promise of usage billing: a charge per request, at most once |
| `UsageBilling` | the billing transaction, the archive job and finalization; implements `ChargeLedger` |
| `BalanceCache` | cached balance of one user, write channel, shutdown |
| `BillingBreaker` | the breaker in front of the billing check |
| `SchedulerSnapshot` | one account in one bucket: writers, billing transactions, pollers, rebuilds, readers |
| `OAuthRefresh` | credentials of one account; workers and requests in several processes |
| `WSPool` | the connections of one account |
| `*Proofs` | theorems about the module of that name; `IdempotencyProofs` covers `SystemOperationLock` too, `BillingCacheProofs` both `BalanceCache` and `BillingBreaker`, and `BillingSchedulerProofs` both `UsageBilling` and `SchedulerSnapshot` |
| `MC*` | constants and symmetry for TLC |

`IdempotencyStore` is shared: `Idempotency` and `SystemOperationLock` extend it, so a
change of a SQL statement shows in both. Modules that share a proof module have names of
their own (`LockSpec`, `BreakerSpec`, `BillingSpec`, ...). `UsageBilling` instantiates `ChargeLedger` with
`charged` mapped to the requests that have a dedup or an archive row.

Conventions. An action is a step that others can interleave with: one SQL statement, one
Lua script, one critical section, or one call to the outside. Data are reduced to what
the properties distinguish: payloads are fingerprints, costs small numbers, times ticks
or numbered windows. Names follow the source where TLA+ allows. Operators preceded by a
comment starting with "Mutant" are deliberately wrong variants of the operator that
follows; they show that the property named for them in `PROJECT.json` can fail.

### How the models correspond to the code

*Failover.* The variables written in Go capitals are the fields of `FailoverState`. A step
from `select` to `forward` is one iteration of the handler's loop. `SwitchAccount` is
`HandleFailoverError` with everything it calls: recording the error, temporarily
unscheduling the account, counting the switch, and the delay Antigravity accounts get.
A retry in place goes through the selection again, as in the code. `ReleaseOnDone` is the
context callback of `wrapReleaseOnDone`; it may run during a forward that has not noticed
the disconnect.

*ConcurrencySlots.* An acquire is the Lua script: prune, count, add. A reply that is
lost leaves a member without an owner. `StartProcess` includes the cleanup that every
process runs before it serves, including its failure, which is only logged; processes
start and crash in any order, also side by side. A request whose client has left gives its
slot back and is `draining` until its forward ends; it still counts as running.
`unbacked` records who runs without a slot: its TTL ended, its client left, or a process
started beside its own.

*PlatformQuota.* A check reads the hash (`GetCache`), on a miss the row (`LoadRow`),
decides, and stores the entry it built (`StoreEntry`) as separate steps, because others
run in between. `Charge` adds to Redis at once and starts a goroutine (`Writers`) that
first reads the clock, then gets the row lock and writes; if the row is missing, the
`INSERT ... ON CONFLICT` is a step of its own. `erased` and `misfiled` count, charge by
charge, what a clock of an earlier window resets and what the conflict branch adds to a row
of another window.

*Idempotency, SystemOperationLock.* `at` (`began` in the lock) is the `now` read at the
start of the call and used in every later comparison. The record's fingerprint is not
compared by `TryReclaim` in the code and not in the model either. `DeleteExpired` selects
ids by its snapshot (`victims`) and deletes them by id in a later step, without looking at
`expires_at` again. `anomalies` and `lapses` record that an execution outlived its claim,
an expired record was overtaken, or a renewed one deleted ("swept").

*UsageBilling.* `claim` holds uncommitted inserts, on which a second insert waits. `Fail`
is a rollback for any reason, and after the commit the loss of the reply. `Archive` is the
single statement that moves rows. Deliveries without a request id or a repository, which
`applyUsageBilling` charges without a transaction, do not occur: the caller always makes an id
and the wiring always provides the repository.

*BalanceCache.* `stopped` and the channel are separate in the code: `SetNotStopped` and
`DeductNotStopped` read the flag, the `...Queued`, `...Refused`, `...Dropped` and
`...Panics` steps are the send under the lock. The channel is shared by all users, so any
send may find it full. `excuse` is a history variable: what could make the entry wrong.

*BillingBreaker.* `running` are the checks let through and not yet reported; `probes` is
the part of them let through in the present half-open period. A check may report a failure
at any time, also with a healthy store: the code counts unknown users and cancelled
requests as failures.

*SchedulerSnapshot.* A database state is its version number; snapshot, account entry and
every copy in flight are the version that was read, so "stale" means "less than `row`".
`Change` and `Enqueue` are two statements, because the repository enqueues after its
update; a billing transaction (`TxInsert` ... `TxCommit`) draws its id early and shows its
row at commit. `Unannounced` are the changes that write no event (`BindGroups` with no
groups), `Delete` and `DeleteEntry` the deletion of the account. A poller that handles an
event chooses the buckets by the account as it reads it then (`SetAccount`), so the bucket
may be left out. `rebuildBucket` is `TryLockBucket`, `Load`, `Incr`, `Activate`,
`UnlockBucket`, whoever runs it; a reader's fallback, after a miss or a failed read of
Redis, enters at `Load`, without the lock.
Snapshot versions (`vers`) are counted from the active one, since `activateSnapshotScript`
only compares a version with that: an activation moves the zero point (`CountFrom`), and a
job whose version is no longer above zero has been overtaken. A poller's batch is the set of
ids it has listed and not yet handled; the lowest is next. `excuse` is a history variable:
it is set by a step that may leave the snapshot stale and cleared by an activation of the
present state that nothing older can follow.

*OAuthRefresh.* Credentials are generations: the provider accepts the refresh token it
issued last and then issues the next. `LocalLock` to `Release` is `RefreshIfNeeded`;
`Release` is both deferred calls with what the caller does with the result (`Continue`). The
Redis key has no owner in the code, so `Release` deletes it whoever set it; `lock` names
the owner only for the properties. A used refresh token (`InvalidGrant`) leads to
`Recover`, which compares with a second read, or, where the provider answers
`refresh_token_reused`, straight to `SetError`, as do the other final refusals
(`RefreshRefused`). `PersistFails` covers an update that failed and one that committed and
was reported as failed. `Unauthorized` and `WriteBack` are the 401 handler, which writes all
credentials of the request's account object back, without a lock; the object may be of any
generation the row has had. `why` is a history variable with the causes "unlocked" (Redis
failed or a lock ran out under its holder), "lost" (new credentials), "overwritten" (by a
401), "unread" and "reused" (a used token refused and the newer one not found), "refused",
"raced" (a token cached across an update) and "dropped" (the cache update left out).

*WSPool.* What the code does under `ap.mu` is one step. `Acquire` is one pass: clean-up,
displacement, choice. What follows the unlock (closing evicted connections, dialling,
`tryAcquire` of a new connection, health checks, waiting) are steps of their own. Ages and
health are choices where the code looks at them, so every order of last use is covered.
`token` is the buffered channel `leaseCh`; `queued` counts a waiter as long as the deferred
`waiters.Add(-1)` has not run, which for a retried pass is the end of the outer call.

## 3. Runs

| Run | Instance | States | Shows |
|---|---|---|---|
| `failover` | 2 accounts, one Antigravity, 2 switches, 1 same-account retry | 216,432 | all loop properties and termination |
| `slots` | 2 requests, 3 processes, limit 1, wait queue 1, faults | 451,844 | limit, no leak, exact wait counter, every request ends |
| `quota` | 2 requests, 2 writers, limit 2, 2 windows, faults | 2,960,353 | exact persistence, no unjust refusal |
| `idempotency` | 2 callers, 2 fingerprints, 5 ticks | 5,741,535 | exclusion, matching replies, no repetition |
| `system_lock` | 2 processes, 2 operations, 5 ticks | 3,462,332 | exclusion while leases last |
| `usage_billing` | 5 deliveries of 2 requests, 2 fingerprints | 28,434 | refinement of `ChargeLedger`, reports, progress |
| `balance_cache` | 2 requests of different cost, 1 top-up, faults, stop | 70,099 | bounded error, drained on stop |
| `billing_breaker` | 5 handlers, threshold 3, 3 probes | 454 | bounded probes, no wedge, recovery |
| `scheduler` | a writer, a billing transaction, a poller, a rebuild, a reader; account events, 2 changes, 2 events, no fault | 1,046,025 | every stale answer is explained (`StaleExplained`) |
| `scheduler_converges` | the same actors, all kinds of events, 2 changes, the second a deletion, 1 fault | 1,018,124 | every stale answer is explained, also after a fault; the snapshot and the entries become the database's |
| `oauth` | a worker and a request in different processes; 2 generations, 2 faults | 70,922 | exclusion; kept credentials, errors and cache up to the named causes; tokens due are replaced |
| `ws_pool` | 2 requests in every mode, 2 connections, 3 dials | 1,754,965 | exclusive leases, limit, no leak, leases kept |

### Known deviations

Statements of comments and tests that do not hold of the code. Each is a definition of its
module with a `.cfg` of its own, with which TLC finds the behaviour in seconds; these
configurations are not among the runs.

| Statement (`.cfg`) | What it says, and where | What the code does |
|---|---|---|
| `PlatformQuota!ResetsOnlyExpired` (`MCQuotaClock`) | "表示窗口已过期": a differing window start means the window has expired (`repository/user_platform_quota_repo.go:292`) | the time is read at `service/gateway_service.go:8264`, before the wait for the row; a writer of before midnight that gets the row after one of after midnight takes the newer window for an expired one, moves it back and resets its usage |
| `PlatformQuota!OverspendWithinInFlight` (`MCQuotaOverspend`) | the overspend is limited to the number of requests in flight (`service/billing_cache_service.go:678`) | a miss stores the row's window start even if that window is over; the charge that follows is added to this entry, and the next hit finds it expired and resets it. One request at a time is enough |
| `Idempotency!SideEffectOnce` (`MCIdempotencyOnce`) | "concurrent same-key requests should execute business side-effect once" (`service/idempotency_test.go:392`) | the cleanup selects an expired record, a retry reclaims and executes it, the cleanup deletes it, and the next retry creates it anew; likewise a caller that read the expired record reclaims it after another has completed it |
| `SystemOperationLock!RenewedWhileHeld` (`MCSystemLockRenewal`) | "locked_until should be renewed while lock is held" (`service/system_operation_lock_service_test.go:65`) | a reclaimed lock keeps the previous operation's fingerprint, so the new holder's renewals match no row and its lease lapses |
| `ConcurrencySlots!LiveSlotsKept` (`MCSlotsOverlap`) | the start-up cleanup removes what old processes left behind (`service/concurrency_service.go:51`) | it removes the slots of every other process, running ones too; with two instances or a rolling restart the limit is exceeded by as many |
| `Failover!CacheBilledAfterSwitch` (`MCFailoverBilling`) | cache billing is for a sticky session that switches accounts (`handler/failover_loop.go:158`) | any error of a bound session turns it on, also one retried on the same account |
| `Failover!RetriedOnSameAccount` (`MCFailoverRetry`) | a temporary error is retried on the same account first (`handler/failover_loop.go:79`) | the retry selects again and may get another account, with no switch counted |
| `OAuthRefresh!OldTokenNotCached` (`MCOAuthCache`) | a request's old account object is not written to the cache after a refresh has dropped it (`service/token_cache_invalidator.go:70`) | the version check and the write are two steps, and a refresh fits in between |
| `OAuthRefresh!AccountSurvives401` (`MCOAuth401`) | the account stays active for the refresh service to pick up (`service/ratelimit_service.go:254`) | the 401 handler writes a request's older credentials over refreshed ones; the next refresh uses a spent refresh token and the account is marked as broken |
| `BalanceCache!EnqueueNeverPanics` (`MCBalancePanics`) | a write offered after `Stop` is refused (`TestBillingCacheServiceEnqueueAfterStopReturnsFalse`) | a write that saw `stopped = false` sends on the channel that `Stop` has closed and not yet set to nil |

Further observations, made while modelling:

- In `PlatformQuota` two requests that refresh the same expired entry each overwrite it, so
  the second takes back charges counted in between; `NeverRejectedEarly` holds
  nevertheless, since copies only err on the low side.
- The scheduler's snapshot may stay stale until the next interval rebuild after: a change
  without an event; an event merged into one that was already handled; a billing transaction
  that commits behind the watermark; an event whose handler leaves the bucket out, or finds
  it locked by a rebuild that had already read; a reader's unlocked load that overtakes a
  rebuild. These are what `excuse` records.
- The breaker counts failures that are not the store's, so requests of unknown users or
  cancelled ones can open it for everybody.
- A worker that finds the refresh lock taken skips the account until its next cycle, so
  requests of other processes that take the lock in turn can keep it out.
- A connection dialled for `ForceNewConn` is in the map before its creator leases it, so
  another request may lease it first and hand it over used, contrary to the comments at
  `service/openai_ws_pool.go:69` and `openai_ws_forwarder.go:2753`. If the creator's
  context then ends, it closes the connection under the other's lease.
- Eviction by age ignores waiters; the comment at `openai_ws_pool.go:1190` (a connection
  with waiters must not be evicted) is kept only for redundant connections. The waiters
  notice and try once more.
- A waiter whose health check fails gives the lease back before it closes the connection.
- Pins are set only under a lease, so no pin alone ever prevents an eviction; with a fixed
  limit the "pool full" branch of pre-warming is never taken (it is modelled all the same).

### Bounds

Two actors suffice for every race listed, since each involves one step of one actor between
two steps of another. `slots` has three processes, so that one can crash and two run side by
side; its invariants were also checked with three requests and a queue of two (4.7 million
states). Clocks run one tick past the longest interval that matters (TTL 3, claim
2), so that a claim, a record and a re-created record can each expire. Quota windows: one
change, with two writers to cross it in either order. `MaxSpent`, `MaxTime` and `LastWindow`
bound counters that grow without end; they appear in guards only. The five deliveries in
`usage_billing` are duplicates, a conflict and a charge of another request around the quota,
so that every pair of outcomes meets. Costs in `balance_cache` are 1, 2 and 4, so that no
sum of errors hides another. The scheduler runs have one actor of each kind: every cause of
staleness is one step of one kind of actor inside the rebuild of another. Three versions
of the account allow a stale snapshot and a stale entry at once; in `scheduler_converges` it
is deleted at the last. `scheduler` uses account events, whose handling contains that of the
other kinds, and two of them, so that one can be merged into another;
`scheduler_converges` has all kinds and a fault. `StaleExplained` was also checked with two
account events and a fault together (7.6 million states), and is proved for any number of
actors, changes and events (section 4). In `oauth` a worker and a request in different
processes are what overlapping refreshes, late cache writes and the 401 need; two generations
are a refresh and its successor. All properties were also checked with two workers in two
processes and a request beside one of them, which contend for the in-process mutex as well
(709,030 states), and `TokenRefreshed` with three generations, so that a token is due again
(874,852 states). In
`ws_pool` three connections are dialled in a pool of two, so that one is displaced; it was
also checked with three requests and two waiters to a connection. `MaxFaults`,
`MaxVersion`, `MaxEvents`, `MaxGen` and `MaxDials` bound what is unbounded in the code.
Symmetry is used only in runs without liveness properties.

`CHECK_DEADLOCK FALSE` appears where requests run once and the system then rests
(`failover`, `slots`, `usage_billing`, `balance_cache`).

### Fairness

- `Failover`: weak fairness of the handler's own steps. Every call it makes has a deadline
  or follows the request context.
- `ConcurrencySlots`: weak fairness of each request's steps; the wait loop has a timer and
  forwards end. Nothing is assumed of restarts, cleanup or expiry.
- `UsageBilling`: weak fairness of each delivery's statements; the billing context has a
  timeout and Postgres resolves a waiting insert when the other transaction ends. No
  fairness of failures or of the archive job.
- `BalanceCache`: the workers and `Stop` itself; nothing of the requests.
- `BillingBreaker`: requests keep arriving, checks end (they have timeouts), time passes.
  Recovery is claimed only from the time on at which no check reports a failure; a healthy
  store alone is not enough in the code.

- `SchedulerSnapshot`: statements and jobs under way end, since every database and Redis call
  has a timeout; pollers poll; the interval rebuild starts again and again; the TTL of an
  abandoned lock ends. Nothing of changes, faults or readers.
- `OAuthRefresh`: calls return or time out, the worker's loop ticks; strong fairness of the
  in-process mutex, which Go's `sync.Mutex` gives by its starvation mode; the TTL of an
  abandoned lock ends. Nothing of new requests or faults, but faults are bounded: a provider
  that fails for ever refreshes nothing. `TokenRefreshed` is claimed if requests do not hold
  the refresh lock again and again for ever, since a worker that finds it taken does not wait.
- `WSPool` has no liveness property and no fairness: a lease may be held as long as its
  session lasts, and a waiting request ends by its own timeout.

## 4. What is proved

All theorems hold for every value of the constants that satisfies the named assumptions
(`...Assumption` in each module: finite sets of actors, positive limits).

| Module | Theorems | Argument |
|---|---|---|
| `FailoverProofs` | `TypeCorrect`, `AttemptsAreBounded`, `StreamsAreNeverSpliced`, `SlotsFollowForwards`, `UnscheduledOnlyAfterRetries`, `UsageFollowsOutcome` | `Ledger`: attempts on an account lie between its retry counter and that plus the switches; the upper side bounds the attempts, the lower one shows that an account is unscheduled only after its retries. Content and response status are tied to the program counter. `AnswerInv`: nothing is answered or recorded before the handler ends, and a usage record goes with an answer and nothing else. `BillingInv`: the sticky `ForceCacheBilling` says at every moment whether one of the errors handled so far asked for cache billing, and the record carries its value at the answer |
| `ConcurrencySlotsProofs` | `TypeCorrect`, `SlotsAreReleased`, `WaitCountIsExact`, `LimitIsKept` | `RequestInv`: running requests belong to live processes and only queued ones are counted. `SlotInv`: a running request is an unexpired member or has lost its slot to a named cause, and the unexpired members do not exceed the limit. The limit alone is not inductive: a request could run without being a member. Processes may overlap |
| `PlatformQuotaProofs` | `TypeCorrect`, `PersistedUsageIsExact`, `RefusalsAreJustified` | `QuotaInv`: no window start and no writer's clock lies in the future; the persisted usage, the writes under way, the failed ones and what the two races of the write took or misplaced add up to the charges; and every copy of the current window (cached or held by a request) counts at most what was charged. The last part is what makes late stores harmless for refusals |
| `IdempotencyProofs` | `TypeCorrect`, `ExecutionIsExclusive`, `RepliesAnswerTheRequest`, `SideEffectsAreNotRepeated`; `LockTypeCorrect`, `OneOperationAtATime` | `ReplyInv`: a record keeps its fingerprint and stores only its own response. `ClaimInv`: until an execution outlives its claim or loses it to the cleanup, the record is as its executor left it. `GuardInv`: a protected side effect is remembered by an unexpired record. For the lock, `LeaseInv`: record ids are not reused, no clock reading is ahead of time, and only a holder renews; `HolderInv`: as long as `lapses` is empty, whoever runs an operation owns the row by its id, with an unexpired lease, so a second operation finds the row in force and is refused, whatever operation ids the lock has passed through |
| `BillingSchedulerProofs` | `BillingTypeCorrect`, `CacheIsToldOnce`, `ExhaustionIsReportedOnce`, `SchedulerIsTold`, `ChargesAtMostOnce`; `SnapshotTypeCorrect`, `StaleAnswerIsExplained` | `ClaimInv`: a delivery that may commit holds the claim, and no row of its request exists. From it each commit is a ledger charge and every other step a stutter, the archive move included. Snapshot: the types add who may be where, that an uncommitted row belongs to the one open transaction, and that pollers list visible events only. `LockInv`: until the first fault a job that rebuilds under the lock has it. `FreshInv`: without an excuse all loads in flight have read the same version; a load whose version was overtaken has nothing to add to the snapshot; and a load or a snapshot that is out of date has an open event behind it, or a poller is about to store the present row for an event that nobody else has spent, so that its failure opens the event again. `StaleExplained` alone says nothing of the loads that are still to be stored |
| `BillingCacheProofs` | `BalanceTypeCorrect`, `CacheErrorIsExplained`; `BreakerTypeCorrect`, `ClosedIsBelowThreshold`, `ProbesArePending` | `LoadInv`: a value that was read and not yet stored is the balance without the charges and the top-up that came since, and all of these are among its excuses. `EntryInv`: the entry lacks some charges of its excuses, has counted some twice, and a charge still in flight is lacking only if it is also counted twice; without this last part a deduction could leave an error that no excuse covers. The bound itself is not inductive, since a deduction changes the entry and the expected value by the same amount only if the charge was not among the errors. Breaker: the failure count stays within the threshold only because a closed breaker is below it; probes and tokens add up because the first report ends a half-open period |
| `OAuthRefreshProofs` | `TypeCorrect`, `RefreshIsExclusive`, `CredentialsAreKept`, `ErrorsAreExplained`, `CacheIsCurrent` | `LockInv`: whoever is past the mutex has it, and until Redis fails or a TTL ends early whoever is past the lock has that too. `CredInv`: until credentials are lost or overwritten, no copy is newer than the row, except that of the one call that has just refreshed; so the provider's last credentials are stored or in that call's hands. `ErrorInv`: then, and unless refreshes overlapped, a refused token differs from the stored one, so the recovery's second read finds a newer one. `CacheInv`: whoever writes the row is still to update the cache, and a request about to cache a token has the stored one. `ErrorExplained` is not inductive without the ownership of the locks |
| `WSPoolProofs` | `TypeCorrect`, `LeasesAreExclusive`, `CapacityIsKept`, `NoConnectionLeaks`, `LeasesAreKept` | `LeaseInv`: a connection in use has no token, unless it is closed, which is why the token that `close` puts back is harmless. `MapInv`: map and evicted connections are disjoint. `KeptInv`: a waiter is counted and a creator visible, so an eviction either sees a claim or none can follow. `CapacityInv`: places reserved are the dials of requests and of pre-warming. The lemma `AcquirePasses` reduces the choice made in `Acquire` to four outcomes |

`ErrorExplained` compares sums over sets of requests. `BillingCacheProofs` proves what it
needs of these sums (that they exist, are natural numbers, grow with the set, and change by
one request's cost when it joins or leaves) by induction over finite sets in the form of a
minimal counterexample: the subsets of a finite set are well-founded under strict inclusion,
so the sets on which a fact fails, if any, have a minimal member, which leads to a smaller one.

History variables (`anomalies`, `lapses`, `incidents`, `guard`, `tries`, `excuse`, `why`, `excused`...) record what the
code does not keep, such as "an execution outlived its claim". They restrict no action.

## 5. Only model-checked

Liveness (`Terminates`, `RequestsEnd`, `DeliveriesEnd`, `StopDrains`, `Recovers`,
`Converges`, `TokenRefreshed`), because the prover does not handle fairness. Every other
property of the runs is stated by a theorem. That the statements of "Known deviations" fail
is shown by TLC's counterexamples.

## 6. Abstractions to keep in mind

- A single window in `PlatformQuota`, a single limit in `UsageBilling`: the others are
  treated alike by the same statements.
- Subscription billing, key rate limits and RPM limits are left out of the billing check.
- Redis and Postgres are linearizable; failover of Redis with loss of writes is not modelled.
- `BalanceCache` has one top-up and requests that run once. A singleflight load merges all
  waiting requests of the one user.
- Account selection is a free choice among accounts that are not excluded.
- `SchedulerSnapshot` has one account in one bucket; whether an event's buckets include it
  is a choice where the code may leave it out. Bulk events are
  the account and group events of several accounts.
- `OAuthRefresh` follows the Claude provider; the other platforms' providers call the same
  functions. The final refusals of all of them are choices. A token's age moves in two
  steps, into the worker's window and into a request's.
- `WSPool` is one account with a fixed limit. Messages on a leased connection are left out.

## 7. Not modelled

`PROJECT.json` gives the reason for each part. In short: format translation, pricing,
settings, moderation, monitoring, provider clients, backups and updates are data
conversion or pure input/output; the `ent` layer is generated; subscriptions, payments,
redeem codes and sessions have no route left that reaches them; the marketplace protocol is
a document. Most of the repository's lines belong to these parts, so the mapped lines are a
small share of it: the state machines and their statements.

## 8. Plan

Built: failover, slots, quota, idempotency and lock, billing with its ledger, balance
cache, breaker, scheduler snapshot, token refresh, connection pool. Left, by weight:

1. `UserMsgQueue` (a Redis lock per account with waiting and a TTL) and `UsageRecordPool`,
   the latter with the order of shutdown: what is accepted is billed before the process
   ends.
2. `AuthCache`: two cache levels and invalidation by publish/subscribe. Abstract
   specification: a revoked key is refused after a bounded time.
3. `UsageCleanup` task claims and recovery.
4. A composition of slots, billing check, failover and billing for one request, with
   `ChargeLedger` as its abstract view, and of `UsageBilling` with `SchedulerSnapshot`
   through the outbox.
