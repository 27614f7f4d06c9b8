------------------------------ MODULE BalanceCache --------------------------
(***************************************************************************)
(* The cached balance of one user (service/billing_cache_service.go over   *)
(* the Redis key of repository/billing_cache.go): checked before a request *)
(* is forwarded, loaded from the database on a miss, reduced after each    *)
(* charge, deleted after a top-up. Loads and deductions write the cache    *)
(* through a bounded channel served by ten workers, so writes take effect  *)
(* in any order. Stop closes the channel while requests still run: the     *)
(* services are stopped in parallel (cmd/server/wire.go).                  *)
(***************************************************************************)
EXTENDS Integers, FiniteSetsExt

CONSTANTS
    Requests,
    Cost,            \* request -> what it will be charged
    InitialBalance,
    TopUpAmount,     \* one top-up happens
    Faults           \* whether Redis and database calls may fail

ASSUME CacheAssumption ==
    /\ IsFiniteSet(Requests) /\ "topUp" \notin Requests
    /\ Cost \in [Requests -> Nat \ {0}]
    /\ InitialBalance \in Int /\ TopUpAmount \in Nat \ {0}
    /\ Faults \in BOOLEAN

VARIABLES
    balance,         \* users.balance in the database
    cached,          \* whether the key exists
    cacheVal,        \* its value
    topUp,           \* "no", "committed", "done" (cache invalidated)
    pc,              \* per request
    flight,          \* the singleflight call: "none", "load", "loaded", "sending"
    flightVal,
    flightExcuse,
    loads,           \* number of loads so far
    setTasks,        \* set_balance tasks in the channel or with a worker
    channel,         \* "open", "stopping" (stopped is set), "closed", "nil"
    excuse           \* history: charges in progress while the entry was
                     \* loaded, and those whose cache write failed

cache == <<cached, cacheVal, excuse>>
load == <<flight, flightVal, flightExcuse, loads>>
vars == <<balance, cache, topUp, pc, load, setTasks, channel>>

Init ==
    /\ balance = InitialBalance
    /\ cached = FALSE /\ cacheVal = 0 /\ excuse = {}
    /\ topUp = "no"
    /\ pc = [r \in Requests |-> "new"]
    /\ flight = "none" /\ flightVal = 0 /\ flightExcuse = {} /\ loads = 0
    /\ setTasks = {}
    /\ channel = "open"

To(r, p) == pc' = [pc EXCEPT ![r] = p]

(* Charged, but not yet deducted from the cache.                           *)
InFlight == {r \in Requests : pc[r] \in {"charged", "sending", "fallback", "queued"}}

(* balance <= 0 refuses the request.                                       *)
Verdict(v) == IF v > 0 THEN "forward" ELSE "refused"

(* A change of the balance that a load in progress has missed.             *)
MissedBy(x) ==
    /\ flightExcuse' = IF flight \in {"loaded", "sending"}
                       THEN flightExcuse \cup {x} ELSE flightExcuse
    /\ setTasks' = {[t EXCEPT !.excuse = @ \cup {x}] : t \in setTasks}

(***************************************************************************)
(* GetUserBalance                                                          *)
(***************************************************************************)
CacheHit(r) ==
    /\ pc[r] = "new"
    /\ cached
    /\ To(r, Verdict(cacheVal))
    /\ UNCHANGED <<balance, cache, topUp, load, setTasks, channel>>

(* A miss, or an error of Redis: start a load or join the one running.     *)
CacheMiss(r) ==
    /\ pc[r] = "new"
    /\ ~cached \/ Faults
    /\ To(r, "joined")
    /\ IF flight = "none" THEN flight' = "load" /\ loads' = loads + 1
                          ELSE UNCHANGED <<flight, loads>>
    /\ UNCHANGED <<balance, cache, topUp, flightVal, flightExcuse, setTasks, channel>>

(* Every joined request gets the answer of the flight.                     *)
Joined(p) == pc' = [r \in Requests |-> IF pc[r] = "joined" THEN p ELSE pc[r]]

LoadFromDB ==
    /\ flight = "load"
    /\ flight' = "loaded"
    /\ flightVal' = balance
    /\ flightExcuse' = InFlight \cup (IF topUp = "committed" THEN {"topUp"} ELSE {})
    /\ UNCHANGED <<balance, cache, topUp, pc, loads, setTasks, channel>>

(* Mutant: the requests try again after an error.                          *)
LoadFailsRetried ==
    /\ Faults
    /\ flight = "load"
    /\ flight' = "none"
    /\ Joined("new")
    /\ UNCHANGED <<balance, cache, topUp, flightVal, flightExcuse, loads, setTasks, channel>>

LoadFails ==
    /\ Faults
    /\ flight = "load"
    /\ flight' = "none"
    /\ Joined("refused")
    /\ UNCHANGED <<balance, cache, topUp, flightVal, flightExcuse, loads, setTasks, channel>>

EndFlight(p) ==
    /\ flight' = "none"
    /\ flightExcuse' = {} /\ flightVal' = 0
    /\ Joined(p)
    /\ UNCHANGED <<balance, cache, topUp, loads, channel>>

(***************************************************************************)
(* enqueueCacheWrite: stopped is read first, the channel under the lock    *)
(***************************************************************************)
(* The buffer is shared by all users and all kinds of write, so any send   *)
(* may find it full.                                                       *)
Full == channel \in {"open", "stopping"}

SetNotStopped ==
    /\ flight = "loaded"
    /\ channel = "open"
    /\ flight' = "sending"
    /\ UNCHANGED <<balance, cache, topUp, pc, flightVal, flightExcuse, loads, setTasks, channel>>

(* The task is dropped; the answer is still used.                          *)
SetDropped ==
    /\ \/ flight = "loaded" /\ channel # "open"
       \/ flight = "sending" /\ (channel = "nil" \/ Full)
    /\ EndFlight(Verdict(flightVal))
    /\ UNCHANGED setTasks

SetQueued ==
    /\ flight = "sending"
    /\ channel \in {"open", "stopping"}
    /\ setTasks' = setTasks \cup {[id |-> loads, val |-> flightVal, excuse |-> flightExcuse]}
    /\ EndFlight(Verdict(flightVal))

(* Send on a closed channel: every joined handler panics.                  *)
SetPanics ==
    /\ flight = "sending"
    /\ channel = "closed"
    /\ EndFlight("panicked")
    /\ UNCHANGED setTasks

(* Mutant: the workers leave when the channel is closed, not when it is    *)
(* empty.                                                                  *)
SetBalanceUntilClosed(t) ==
    /\ channel # "closed"
    /\ setTasks' = setTasks \ {t}
    /\ \/ cached' = TRUE /\ cacheVal' = t.val /\ excuse' = t.excuse
       \/ Faults /\ UNCHANGED cache
    /\ UNCHANGED <<balance, topUp, pc, load, channel>>

SetBalance(t) ==
    /\ setTasks' = setTasks \ {t}
    /\ \/ cached' = TRUE /\ cacheVal' = t.val /\ excuse' = t.excuse
       \/ Faults /\ UNCHANGED cache
    /\ UNCHANGED <<balance, topUp, pc, load, channel>>

(***************************************************************************)
(* Charging and QueueDeductBalance                                         *)
(***************************************************************************)
ForwardFails(r) ==
    /\ pc[r] = "forward"
    /\ To(r, "done")
    /\ UNCHANGED <<balance, cache, topUp, load, setTasks, channel>>

(* The billing transaction commits (UsageBilling!Commit).                  *)
Charge(r) ==
    /\ pc[r] = "forward"
    /\ balance' = balance - Cost[r]
    /\ MissedBy(r)
    /\ To(r, "charged")
    /\ UNCHANGED <<cache, topUp, flight, flightVal, loads, channel>>

DeductNotStopped(r) ==
    /\ pc[r] = "charged"
    /\ To(r, IF channel = "open" THEN "sending" ELSE "fallback")
    /\ UNCHANGED <<balance, cache, topUp, load, setTasks, channel>>

(* Mutant: the task is dropped when the channel does not take it.          *)
SendRefusedDrops(r) ==
    /\ pc[r] = "sending"
    /\ channel = "nil" \/ Full
    /\ To(r, "done")
    /\ UNCHANGED <<balance, cache, topUp, load, setTasks, channel>>

SendRefused(r) ==
    /\ pc[r] = "sending"
    /\ channel = "nil" \/ Full
    /\ To(r, "fallback")
    /\ UNCHANGED <<balance, cache, topUp, load, setTasks, channel>>

SendQueued(r) ==
    /\ pc[r] = "sending"
    /\ channel \in {"open", "stopping"}
    /\ To(r, "queued")
    /\ UNCHANGED <<balance, cache, topUp, load, setTasks, channel>>

(* The usage worker recovers; its deduction is lost.                       *)
SendPanics(r) ==
    /\ pc[r] = "sending"
    /\ channel = "closed"
    /\ To(r, "panicked")
    /\ excuse' = excuse \cup {r}
    /\ UNCHANGED <<balance, cached, cacheVal, topUp, load, setTasks, channel>>

(* deductBalanceScript does nothing without an entry. A worker runs it, or *)
(* the caller when the task was not queued.                                *)
Deduct(r) ==
    /\ pc[r] \in {"queued", "fallback"}
    /\ \/ /\ cacheVal' = IF cached THEN cacheVal - Cost[r] ELSE cacheVal
          /\ UNCHANGED <<cached, excuse>>
       \/ Faults /\ excuse' = excuse \cup {r} /\ UNCHANGED <<cached, cacheVal>>
    /\ To(r, "done")
    /\ UNCHANGED <<balance, topUp, load, setTasks, channel>>

(***************************************************************************)
(* Top-up, expiry and Stop                                                 *)
(***************************************************************************)
Drop == cached' = FALSE /\ cacheVal' = 0 /\ excuse' = {}

TopUp ==
    /\ topUp = "no"
    /\ topUp' = "committed"
    /\ balance' = balance + TopUpAmount
    /\ MissedBy("topUp")
    /\ UNCHANGED <<cache, pc, flight, flightVal, loads, channel>>

(* InvalidateUserBalance, in a goroutine of its own.                       *)
Invalidate ==
    /\ topUp = "committed"
    /\ topUp' = "done"
    /\ \/ Drop
       \/ Faults /\ excuse' = excuse \cup {"topUp"} /\ UNCHANGED <<cached, cacheVal>>
    /\ UNCHANGED <<balance, pc, load, setTasks, channel>>

Expire ==
    /\ cached
    /\ Drop
    /\ UNCHANGED <<balance, topUp, pc, load, setTasks, channel>>

StopStore ==
    /\ channel = "open"
    /\ channel' = "stopping"
    /\ UNCHANGED <<balance, cache, topUp, pc, load, setTasks>>

StopClose ==
    /\ channel = "stopping"
    /\ channel' = "closed"
    /\ UNCHANGED <<balance, cache, topUp, pc, load, setTasks>>

(* The workers have drained the channel.                                   *)
StopDrained ==
    /\ channel = "closed"
    /\ setTasks = {} /\ \A r \in Requests : pc[r] # "queued"
    /\ channel' = "nil"
    /\ UNCHANGED <<balance, cache, topUp, pc, load, setTasks>>

Flight == LoadFromDB \/ LoadFails \/ SetNotStopped \/ SetDropped \/ SetQueued \/ SetPanics

Next ==
    \/ \E r \in Requests :
         \/ CacheHit(r) \/ CacheMiss(r) \/ ForwardFails(r) \/ Charge(r)
         \/ DeductNotStopped(r) \/ SendRefused(r) \/ SendQueued(r) \/ SendPanics(r) \/ Deduct(r)
    \/ Flight
    \/ \E t \in setTasks : SetBalance(t)
    \/ TopUp \/ Invalidate \/ Expire
    \/ StopStore \/ StopClose \/ StopDrained

(* The workers run until the channel is closed and empty, each write under *)
(* a timeout, and Stop itself runs. Nothing is assumed of the requests.    *)
Workers ==
    \/ \E t \in setTasks : SetBalance(t)
    \/ \E r \in Requests : pc[r] = "queued" /\ Deduct(r)

Spec == Init /\ [][Next]_vars
        /\ WF_vars(Workers) /\ WF_vars(StopClose) /\ WF_vars(StopDrained)

-----------------------------------------------------------------------------
Excuses == Requests \cup {"topUp"}

TypeOK ==
    /\ balance \in Int /\ cacheVal \in Int /\ flightVal \in Int
    /\ cached \in BOOLEAN
    /\ topUp \in {"no", "committed", "done"}
    /\ pc \in [Requests -> {"new", "joined", "forward", "refused", "charged", "sending",
                            "fallback", "queued", "done", "panicked"}]
    /\ flight \in {"none", "load", "loaded", "sending"}
    /\ loads \in 0..Cardinality(Requests)  \* a request loads at most once
    /\ excuse \subseteq Excuses /\ flightExcuse \subseteq Excuses
    /\ setTasks \subseteq [id : 1..Cardinality(Requests), val : Int, excuse : SUBSET Excuses]
    /\ channel \in {"open", "stopping", "closed", "nil"}

Amount(x) == IF x = "topUp" THEN TopUpAmount ELSE Cost[x]
Total(S) == MapThenSumSet(Amount, S)

(* What the entry should be: the balance without the deductions and the    *)
(* invalidation still on their way.                                        *)
Expected ==
    balance + Total(InFlight) - (IF topUp = "committed" THEN TopUpAmount ELSE 0)

(* The cached balance differs from the expected one by no more than the    *)
(* charges and top-ups that were in progress when the entry was loaded, or *)
(* whose own cache write failed: workers running writes out of order, full *)
(* queues, dropped tasks and Stop add nothing to that error.               *)
ErrorExplained ==
    cached => /\ cacheVal - Expected <= Total(excuse)
              /\ Expected - cacheVal <= Total(excuse)

(* Stop returns, and not before every write the channel took is in Redis   *)
(* (or has failed there): requests still running cannot keep it waiting.   *)
StopDrains ==
    channel = "stopping" ~>
        /\ channel = "nil"
        /\ setTasks = {} /\ \A r \in Requests : pc[r] # "queued"

(* A write offered while the service stops is refused, not a panic ("Test- *)
(* BillingCacheServiceEnqueueAfterStopReturnsFalse"). Not an invariant:    *)
(* stopped is read before the lock is taken and Stop closes in between.    *)
EnqueueNeverPanics == \A r \in Requests : pc[r] # "panicked"
=============================================================================
