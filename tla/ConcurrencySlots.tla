--------------------------- MODULE ConcurrencySlots -------------------------
(***************************************************************************)
(* The concurrency limit of one user: slots in a Redis sorted set and a    *)
(* counter of waiting requests (repository/concurrency_cache.go), used by  *)
(* the Messages handler through ConcurrencyHelper (handler/gateway_helper  *)
(* .go). Every Lua script is atomic. An account's limit uses the same      *)
(* scripts and the same wait loop.                                         *)
(*                                                                         *)
(* Server processes share Redis, one after the other or side by side. One  *)
(* that starts removes the slots of every other process, running or not,   *)
(* and the wait counter (CleanupStaleProcessSlots).                        *)
(***************************************************************************)
EXTENDS Integers, FiniteSets

CONSTANTS
    Requests,        \* each runs once
    Processes,       \* each starts once; a restart is another process
    First,           \* the process running at the beginning
    Faults,          \* whether Redis calls may fail or lose their reply
    MaxConcurrency,
    MaxWait,
    SlotTTL,
    MaxTime          \* bound: clock

ASSUME SlotsAssumption ==
    /\ IsFiniteSet(Requests)
    /\ First \in Processes
    /\ Faults \in BOOLEAN
    /\ MaxConcurrency \in Nat \ {0} /\ MaxWait \in Nat \ {0}
    /\ SlotTTL \in Nat \ {0} /\ MaxTime \in Nat

VARIABLES
    now,
    slots,       \* members of the sorted set
    stamp,       \* their scores
    waitCount,   \* the wait counter
    alive,       \* running processes
    started,     \* processes started so far
    pc,          \* per request
    proc,        \* per request: its process
    counted,     \* requests with waitCounted set
    unbacked,    \* history: requests that lost their slot while they ran: to
                 \* its TTL, to the client's departure, to a starting process
    incidents    \* history: what may explain a slot without a request
                 \* ("leaked") or a wrong count of waiters ("drifted")

redis == <<slots, stamp, waitCount>>
history == <<unbacked, incidents>>
vars == <<now, redis, alive, started, pc, proc, counted, history>>

Ended == {"done", "dead"}
Holding == {"gotSlot", "hold"}
Running == Holding \cup {"draining"}

Init ==
    /\ now = SlotTTL
    /\ slots = {}
    /\ stamp = [r \in Requests |-> 0]
    /\ waitCount = 0
    /\ alive = {First}
    /\ started = {First}
    /\ pc = [r \in Requests |-> "new"]
    /\ proc = [r \in Requests |-> First]
    /\ counted = {}
    /\ unbacked = {}
    /\ incidents = {}

To(r, p) == pc' = [pc EXCEPT ![r] = p]
Incident(i) == incidents' = incidents \cup {i}

(***************************************************************************)
(* Waiting for a slot                                                      *)
(***************************************************************************)
(* IncrementWaitCount, at the beginning of the handler.                    *)
Arrive(r, p) ==
    /\ pc[r] = "new"
    /\ p \in alive
    /\ waitCount < MaxWait
    /\ proc' = [proc EXCEPT ![r] = p]
    /\ waitCount' = waitCount + 1
    /\ counted' = counted \cup {r}
    /\ To(r, "acquire")
    /\ UNCHANGED <<now, slots, stamp, alive, started, history>>

QueueFull(r, p) ==
    /\ pc[r] = "new"
    /\ p \in alive
    /\ waitCount >= MaxWait
    /\ To(r, "done")
    /\ UNCHANGED <<now, redis, alive, started, proc, counted, history>>

(* The service hides the error, so the handler counts the request.         *)
ArriveUncounted(r, p) ==
    /\ Faults
    /\ pc[r] = "new"
    /\ p \in alive
    /\ proc' = [proc EXCEPT ![r] = p]
    /\ counted' = counted \cup {r}
    /\ Incident("drifted")
    /\ To(r, "acquire")
    /\ UNCHANGED <<now, redis, alive, started, unbacked>>

(* Mutant: a slot is dropped one tick early.                               *)
UnexpiredStrict(t) == {r \in slots : stamp[r] > t - SlotTTL + 1}

(* Members ZREMRANGEBYSCORE leaves.                                        *)
Unexpired(t) == {r \in slots : stamp[r] > t - SlotTTL}

(* acquireScript, on the first try and on every tick of the wait loop.     *)
AcquireScript(r) ==
    /\ pc[r] \in {"acquire", "wait"}
    /\ Cardinality(Unexpired(now)) < MaxConcurrency
    /\ slots' = Unexpired(now) \cup {r}
    /\ stamp' = [stamp EXCEPT ![r] = now]

Acquire(r) ==
    /\ AcquireScript(r)
    /\ To(r, "gotSlot")
    /\ UNCHANGED <<now, waitCount, alive, started, proc, counted, history>>

(* The context ends, or the connection breaks, after the script has run.   *)
AcquireReplyLost(r) ==
    /\ Faults
    /\ AcquireScript(r)
    /\ To(r, "leave")
    /\ Incident("leaked")
    /\ UNCHANGED <<now, waitCount, alive, started, proc, counted, unbacked>>

AcquireFull(r) ==
    /\ pc[r] \in {"acquire", "wait"}
    /\ Cardinality(Unexpired(now)) >= MaxConcurrency
    /\ slots' = Unexpired(now)
    /\ To(r, "wait")
    /\ UNCHANGED <<now, stamp, waitCount, alive, started, proc, counted, history>>

(* Redis error on the first try.                                           *)
AcquireFails(r) ==
    /\ Faults
    /\ pc[r] = "acquire"
    /\ To(r, "leave")
    /\ UNCHANGED <<now, redis, alive, started, proc, counted, history>>

(* Mutant: the wait loop has no timeout.                                   *)
StopWaitingNever(r) == FALSE /\ UNCHANGED vars

(* Timeout, client gone, a failed ping or Redis error in the wait loop.    *)
StopWaiting(r) ==
    /\ pc[r] = "wait"
    /\ To(r, "leave")
    /\ UNCHANGED <<now, redis, alive, started, proc, counted, history>>

(* Mutant: the handler forgets that it has decremented.                    *)
LeaveQueueStillCounted(r) ==
    /\ pc[r] \in {"gotSlot", "leave"}
    /\ waitCount' = IF waitCount > 0 THEN waitCount - 1 ELSE 0
    /\ To(r, IF pc[r] = "gotSlot" THEN "hold" ELSE "done")
    /\ UNCHANGED <<now, slots, stamp, alive, started, proc, counted, history>>

(* DecrementWaitCount, once the slot is held or by the deferred call.      *)
LeaveQueue(r) ==
    /\ pc[r] \in {"gotSlot", "leave"}
    /\ r \in counted
    /\ counted' = counted \ {r}
    /\ \/ /\ waitCount' = IF waitCount > 0 THEN waitCount - 1 ELSE 0
          /\ UNCHANGED incidents
       \/ Faults /\ Incident("drifted") /\ UNCHANGED waitCount
    /\ To(r, IF pc[r] = "gotSlot" THEN "hold" ELSE "done")
    /\ UNCHANGED <<now, slots, stamp, alive, started, proc, unbacked>>

(***************************************************************************)
(* Holding and releasing                                                   *)
(***************************************************************************)
(* ZREM by the release function; it runs once (sync.Once).                 *)
Release(r) ==
    \/ slots' = slots \ {r} /\ UNCHANGED incidents
    \/ Faults /\ UNCHANGED slots /\ Incident("leaked")

(* Mutant: only the deferred call releases.                                *)
ClientGoneLeaves(r) ==
    /\ pc[r] = "hold"
    /\ To(r, "draining")
    /\ unbacked' = unbacked \cup {r}
    /\ UNCHANGED <<now, redis, alive, started, proc, counted, incidents>>

(* The context callback releases while the handler still runs.             *)
ClientGone(r) ==
    /\ pc[r] = "hold"
    /\ Release(r)
    /\ To(r, "draining")
    /\ unbacked' = unbacked \cup {r}
    /\ UNCHANGED <<now, stamp, waitCount, alive, started, proc, counted>>

Finish(r) ==
    /\ pc[r] = "hold"
    /\ Release(r)
    /\ To(r, "done")
    /\ UNCHANGED <<now, stamp, waitCount, alive, started, proc, counted, unbacked>>

FinishDraining(r) ==
    /\ pc[r] = "draining"
    /\ To(r, "done")
    /\ UNCHANGED <<now, redis, alive, started, proc, counted, history>>

(***************************************************************************)
(* Processes and time                                                      *)
(***************************************************************************)
Crash(p) ==
    /\ p \in alive
    /\ alive' = alive \ {p}
    /\ pc' = [r \in Requests |-> IF pc[r] \notin Ended \cup {"new"} /\ proc[r] = p
                                 THEN "dead" ELSE pc[r]]
    /\ counted' = {r \in counted : proc[r] # p}
    /\ incidents' = incidents
         \cup (IF \E r \in counted : proc[r] = p THEN {"drifted"} ELSE {})
         \cup (IF \E r \in slots : proc[r] = p THEN {"leaked"} ELSE {})
    /\ UNCHANGED <<now, redis, started, proc, unbacked>>

(* startupCleanupScript and the deletion of the wait counters.             *)
CleanupStaleProcessSlots(p) ==
    /\ slots' = {r \in slots : proc[r] = p}
    /\ waitCount' = 0
    /\ incidents' = IF alive = {} THEN {} ELSE incidents \cup {"drifted"}

(* The cleanup runs before the process serves requests; its error, before  *)
(* or after the slots are removed, is only logged.                         *)
StartProcess(p) ==
    /\ p \notin started
    /\ started' = started \cup {p}
    /\ alive' = alive \cup {p}
    /\ \/ CleanupStaleProcessSlots(p)
       \/ /\ Faults
          /\ slots' \in {slots, {r \in slots : proc[r] = p}}
          /\ UNCHANGED <<waitCount, incidents>>
    /\ unbacked' = unbacked \cup {r \in slots \ slots' : pc[r] \in Holding}
    /\ UNCHANGED <<now, stamp, pc, proc, counted>>

(* CleanupExpiredAccountSlots of the background worker, and key expiry.    *)
PruneExpired ==
    /\ slots # Unexpired(now)
    /\ slots' = Unexpired(now)
    /\ UNCHANGED <<now, stamp, waitCount, alive, started, pc, proc, counted, history>>

(* The wait key expires, waitQueueTTLSeconds after the last increment.     *)
WaitKeyExpires ==
    /\ waitCount > 0
    /\ waitCount' = 0
    /\ Incident("drifted")
    /\ UNCHANGED <<now, slots, stamp, alive, started, pc, proc, counted, unbacked>>

Tick ==
    /\ now < MaxTime
    /\ now' = now + 1
    /\ unbacked' = unbacked \cup
         {r \in Requests : pc[r] \in Holding /\ stamp[r] <= now + 1 - SlotTTL}
    /\ UNCHANGED <<redis, alive, started, pc, proc, counted, incidents>>

Step(r) ==
    \/ Acquire(r) \/ AcquireReplyLost(r) \/ AcquireFull(r) \/ AcquireFails(r)
    \/ StopWaiting(r) \/ LeaveQueue(r) \/ ClientGone(r) \/ Finish(r)
    \/ FinishDraining(r)

Next ==
    \/ \E r \in Requests, p \in Processes :
          Arrive(r, p) \/ QueueFull(r, p) \/ ArriveUncounted(r, p)
    \/ \E r \in Requests : Step(r)
    \/ \E p \in Processes : Crash(p) \/ StartProcess(p)
    \/ PruneExpired \/ WaitKeyExpires \/ Tick

(* A handler keeps running, its wait loop ends by timeout at the latest    *)
(* and its forward returns.                                                *)
Fairness ==
    \A r \in Requests :
        /\ WF_vars(Acquire(r) \/ AcquireFull(r))
        /\ WF_vars(StopWaiting(r))
        /\ WF_vars(LeaveQueue(r))
        /\ WF_vars(Finish(r) \/ ClientGone(r) \/ FinishDraining(r))

Spec == Init /\ [][Next]_vars /\ Fairness

-----------------------------------------------------------------------------
TypeOK ==
    /\ now \in Nat
    /\ slots \subseteq Requests
    /\ stamp \in [Requests -> Nat]
    /\ waitCount \in 0..MaxWait
    /\ alive \subseteq started /\ started \subseteq Processes
    /\ pc \in [Requests -> Ended \cup Holding \cup
                 {"new", "acquire", "wait", "leave", "draining"}]
    /\ proc \in [Requests -> Processes]
    /\ counted \subseteq Requests
    /\ unbacked \subseteq Requests
    /\ incidents \subseteq {"leaked", "drifted"}

Holders == {r \in Requests : pc[r] \in Holding}

(* The user never has more than MaxConcurrency requests running, those     *)
(* whose client has left included, apart from the requests that lost their *)
(* slot: to its TTL, to the client's departure, or to a process that       *)
(* started beside theirs. Nothing else, no restart, lost reply, expiry or  *)
(* failed call of any process, lets one more in.                           *)
ConcurrencyLimit ==
    Cardinality({r \in Requests : pc[r] \in Running} \ unbacked) <= MaxConcurrency

(* "On startup, clean up slots and wait counts left behind by old          *)
(* processes" (ConcurrencyCache.CleanupStaleProcessSlots): no start takes  *)
(* the slot of a request that is running. It does, if the request belongs  *)
(* to another process that still serves.                                   *)
LiveSlotsKept ==
    [][\A p \in Processes : StartProcess(p) =>
          \A r \in slots : pc[r] \in Holding => r \in slots']_vars

(* No slot survives its request: whatever ends a request (error, timeout,  *)
(* disconnect at any point) its slot goes with it, unless a Redis call     *)
(* failed or the process died; a restart clears those.                     *)
NoSlotLeak ==
    "leaked" \notin incidents => slots \subseteq Holders

(* The wait counter equals the number of requests between arrival and      *)
(* slot, so that "queue full" means what it says.                          *)
WaitCountExact ==
    "drifted" \notin incidents => waitCount = Cardinality(counted)

(* The inductive invariants. RequestInv: running requests belong to live   *)
(* processes and only queued ones are counted. SlotInv: a running request  *)
(* is an unexpired member or unbacked, and the members never exceed the    *)
(* limit.                                                                  *)
RequestInv ==
    /\ \A r \in Requests :
         /\ proc[r] \in started
         /\ pc[r] \notin Ended \cup {"new"} => proc[r] \in alive
    /\ \A r \in counted : pc[r] \in {"acquire", "wait", "gotSlot", "leave"}

SlotInv ==
    /\ Cardinality(Unexpired(now)) <= MaxConcurrency
    /\ \A r \in Requests :
         /\ pc[r] \in Holding /\ r \notin unbacked => r \in Unexpired(now)
         /\ pc[r] = "draining" => r \in unbacked

(* Every request that arrives is answered: nobody waits for ever.          *)
RequestsEnd ==
    \A r \in Requests : pc[r] = "acquire" ~> pc[r] \in Ended
=============================================================================
