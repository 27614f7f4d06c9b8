------------------------------- MODULE WSPool -------------------------------
(***************************************************************************)
(* The pool of upstream WebSocket connections of one account               *)
(* (service/openai_ws_pool.go): Acquire, leases and their waiters,         *)
(* eviction, background ping and clean-up, pre-warming and Close.          *)
(*                                                                         *)
(* Actions that hold ap.mu in the code are one step here. Connections are  *)
(* numbers in the order of dialling. Ages, idle times and the health of a  *)
(* connection are choices at the point where the code looks at them.       *)
(***************************************************************************)
EXTENDS Integers, FiniteSets, FiniteSetsExt

CONSTANTS
    Requests,
    Modes,           \* how a request may ask, see PoolAssumption
    MaxConns,        \* effectiveMaxConnsByAccount
    MaxIdle, MinIdle,
    QueueLimit,      \* queueLimitPerConn
    Utilization,     \* targetUtilization, in percent
    MaxDials         \* bound on the connections ever dialled

NoConn == 0
Sweeper == "sweeper"
Pinger == "pinger"
NoAsk == [mode |-> "any", pref |-> NoConn]
Closers == Requests \cup {Sweeper, Pinger}
Conns == 1..MaxDials

ASSUME PoolAssumption ==
    /\ IsFiniteSet(Requests) /\ {Sweeper, Pinger} \cap Requests = {}
    /\ Modes \subseteq {"any", "force", "new"}
    /\ MaxConns \in Nat \ {0} /\ MaxIdle \in Nat /\ MinIdle \in Nat
    /\ QueueLimit \in Nat \ {0} /\ Utilization \in 1..100 /\ MaxDials \in Nat

VARIABLES
    conns,           \* keys of ap.conns
    dialled,         \* last connection number
    closed,          \* connections whose closedCh is closed
    token,           \* connections whose leaseCh holds its element
    creating,
    prewarm,         \* connections the pre-warming goroutine has yet to dial
    pc,
    ask,             \* request -> [mode, pref], the fields of its acquire request
    at,              \* connection a request waits for, checks or leases
    retry,
    queued,          \* request -> call depth -> connection it waits at
    evicting,        \* connections taken out of the map and not yet closed
    pinged,          \* connection under background ping
    stopped,
    excused          \* history: connections that may be closed under a lease

poolVars == <<conns, closed, token, creating, prewarm>>
reqVars == <<ask, at, retry, queued>>
vars == <<poolVars, dialled, pc, reqVars, evicting, pinged, stopped, excused>>

Init ==
    /\ conns = {} /\ dialled = 0 /\ closed = {} /\ token = {}
    /\ creating = 0 /\ prewarm = 0
    /\ pc = [r \in Requests |-> "idle"]
    /\ ask = [r \in Requests |-> NoAsk]
    /\ at = [r \in Requests |-> NoConn]
    /\ retry = [r \in Requests |-> 0]
    /\ queued = [r \in Requests |-> [k \in 0..1 |-> NoConn]]
    /\ evicting = [p \in Closers |-> {}]
    /\ pinged = NoConn /\ stopped = FALSE /\ excused = {}

To(r, s) == pc' = [pc EXCEPT ![r] = s]
Ready(r, s) == pc[r] = s /\ evicting[r] = {}

Waiters(c) == Cardinality({rk \in Requests \X (0..1) : queued[rk[1]][rk[2]] = c})
Pinned(c) == \E r \in Requests : pc[r] = "pinned" /\ at[r] = c
Leased(c) == c \notin token

(* tryAcquire                                                              *)
Free(S) == {c \in S : c \in token /\ c \notin closed}

(* A request has dialled c and put it into the map, and not claimed it.    *)
Unclaimed(c) == \E r \in Requests : pc[r] \in {"own", "ownWait"} /\ at[r] = c

(***************************************************************************)
(* cleanupAccountLocked                                                    *)
(***************************************************************************)
(* Mutant: only waiters and pins protect a connection.                     *)
IdleUnlessAwaited(S) == {c \in S : Waiters(c) = 0 /\ ~Pinned(c)}

Idle(S) == {c \in S : ~Leased(c) /\ Waiters(c) = 0 /\ ~Pinned(c)}

IdleLimit == IF MaxIdle > MaxConns THEN MaxConns ELSE MaxIdle

(* The longest unused idle connections above the limit: some of them.      *)
Redundant(S) ==
    LET over == Cardinality(S) - IdleLimit
        n == IF over > Cardinality(Idle(S)) THEN Cardinality(Idle(S)) ELSE over
    IN  IF over > 0 THEN kSubset(n, Idle(S)) ELSE {{}}

(* What a clean-up of the map may evict: closed connections, some that are *)
(* too old (whoever waits for them), and the redundant ones of the rest.   *)
Cleanups ==
    LET old == {c \in conns \ closed : ~Leased(c) /\ ~Pinned(c)}
    IN  UNION {{(conns \cap closed) \cup A \cup X :
                  X \in Redundant(conns \ (closed \cup A))} : A \in SUBSET old}

(* Connections another request can still claim after they are evicted.     *)
Exposed(S) == {c \in S : Waiters(c) > 0 \/ Unclaimed(c)}

(***************************************************************************)
(* Acquire                                                                 *)
(***************************************************************************)
(* The end of the call, with connection c or NoConn: its locals are gone   *)
(* and the deferred waiters.Add(-1) have run.                              *)
Forget(r, c) ==
    /\ ask' = [ask EXCEPT ![r] = NoAsk]
    /\ at' = [at EXCEPT ![r] = c]
    /\ retry' = [retry EXCEPT ![r] = 0]
    /\ queued' = [queued EXCEPT ![r] = [k \in 0..1 |-> NoConn]]

Fail(r) == To(r, "idle") /\ Forget(r, NoConn)

(* A pass that finds its connection closed is repeated once.               *)
Remember(r, a) == ask' = [ask EXCEPT ![r] = IF retry[r] < 1 THEN a ELSE NoAsk]

Take(r, a, c) ==
    /\ token' = token \ {c}
    /\ Remember(r, a)
    /\ at' = [at EXCEPT ![r] = c]
    /\ To(r, "ping")
    /\ UNCHANGED <<creating, retry, queued>>

Refuse(r) == Fail(r) /\ UNCHANGED <<token, creating>>

Queue(r, a, c) ==
    /\ Waiters(c) < QueueLimit
    /\ queued' = [queued EXCEPT ![r][retry[r]] = c]
    /\ Remember(r, a)
    /\ at' = [at EXCEPT ![r] = c]
    /\ To(r, "wait")
    /\ UNCHANGED <<token, creating, retry>>

QueueFull(r, c) == Waiters(c) >= QueueLimit /\ Refuse(r)

Dial(r) ==
    /\ creating' = creating + 1
    /\ ask' = [ask EXCEPT ![r] = NoAsk]
    /\ To(r, "dial")
    /\ UNCHANGED <<token, at, retry, queued>>

(* pickLeastBusyConnLocked, whatever the last uses were.                   *)
LeastBusy(S) == {c \in S : \A d \in S : Waiters(c) <= Waiters(d)}

(* The preferred connection, else the least busy one, else any free one.   *)
Reusable(a, S) ==
    IF a.mode = "new" THEN {}
    ELSE IF a.pref \in Free(S) THEN {a.pref}
    ELSE IF a.mode = "force" THEN {}
    ELSE IF LeastBusy(S) \subseteq Free(S) THEN LeastBusy(S) ELSE Free(S)

Room(S) == Cardinality(S) + creating < MaxConns

(* Connections to wait for when nothing is free and nothing may be dialled.*)
Targets(a, S) ==
    IF a.mode = "new" THEN {}
    ELSE IF a.pref \in S THEN {a.pref}
    ELSE IF a.mode = "force" THEN {} ELSE LeastBusy(S)

(* What happens to the request under ap.mu, with map S after the clean-up. *)
Pick(r, a, S) ==
    IF Reusable(a, S) # {} THEN \E c \in Reusable(a, S) : Take(r, a, c)
    ELSE IF a.mode # "force" /\ Room(S) THEN Dial(r)
    ELSE IF Targets(a, S) # {}
    THEN \E c \in Targets(a, S) : Queue(r, a, c) \/ QueueFull(r, c)
    ELSE Refuse(r)

(* A request for a new connection may evict an idle one to make room.      *)
Displaced(a, S) ==
    IF a.mode = "new" /\ ~Room(S) /\ Idle(S) # {}
    THEN {{c} : c \in Idle(S)} ELSE {{}}

(* Mutant: the displaced connection is deleted from the map, and only what *)
(* the clean-up evicted is closed.                                         *)
AcquireForgetsDisplaced(r, a) ==
    /\ \E gone \in {{}} \cup Cleanups :
       \E more \in Displaced(a, conns \ gone) :
         /\ conns' = conns \ (gone \cup more)
         /\ evicting' = [evicting EXCEPT ![r] = gone \ closed]
         /\ excused' = excused \cup Exposed(gone \cup more)
         /\ Pick(r, a, conns \ (gone \cup more))
    /\ UNCHANGED <<dialled, closed, prewarm, pinged, stopped>>

(* One pass of acquire under ap.mu; the clean-up runs at most every few    *)
(* seconds.                                                                *)
Acquire(r, a) ==
    /\ \E gone \in {{}} \cup Cleanups :
       \E more \in Displaced(a, conns \ gone) :
         /\ conns' = conns \ (gone \cup more)
         /\ evicting' = [evicting EXCEPT ![r] = (gone \cup more) \ closed]
         /\ excused' = excused \cup Exposed(gone \cup more)
         /\ Pick(r, a, conns \ (gone \cup more))
    /\ UNCHANGED <<dialled, closed, prewarm, pinged, stopped>>

(* A preferred id was noted by an earlier response of the session; one     *)
(* that has left the map is as good as none.                               *)
Asks == [mode : Modes, pref : conns \cup {NoConn}]

Call(r) == Ready(r, "idle") /\ \E a \in Asks : Acquire(r, a)
Again(r) == Ready(r, "again") /\ Acquire(r, ask[r])

(* The caller of an eviction closes the connections after the unlock.      *)
CloseEvicted(p) ==
    \E c \in evicting[p] :
        /\ closed' = closed \cup {c}
        /\ token' = token \cup {c}
        /\ evicting' = [evicting EXCEPT ![p] = @ \ {c}]
        /\ UNCHANGED <<conns, creating, prewarm, dialled, pc, reqVars, pinged,
                       stopped, excused>>

(***************************************************************************)
(* A new connection                                                        *)
(***************************************************************************)
DialOK(r) ==
    /\ Ready(r, "dial") /\ dialled < MaxDials
    /\ dialled' = dialled + 1
    /\ conns' = conns \cup {dialled + 1}
    /\ token' = token \cup {dialled + 1}
    /\ creating' = creating - 1
    /\ at' = [at EXCEPT ![r] = dialled + 1]
    /\ To(r, "own")
    /\ UNCHANGED <<closed, prewarm, ask, retry, queued, evicting, pinged,
                   stopped, excused>>

DialFails(r) ==
    /\ Ready(r, "dial")
    /\ creating' = creating - 1
    /\ Fail(r)
    /\ UNCHANGED <<conns, dialled, closed, token, prewarm, evicting, pinged,
                   stopped, excused>>

(* tryAcquire of the new connection, outside ap.mu: someone else may have  *)
(* taken it, then the request waits for it without being counted.          *)
Own(r) ==
    /\ Ready(r, "own")
    /\ IF at[r] \in Free(Conns)
       THEN token' = token \ {at[r]} /\ To(r, "ensure")
       ELSE To(r, "ownWait") /\ UNCHANGED token
    /\ UNCHANGED <<conns, closed, creating, prewarm, dialled, reqVars, evicting,
                   pinged, stopped, excused>>

OwnTake(r) ==
    /\ Ready(r, "ownWait") /\ at[r] \in Free(Conns)
    /\ token' = token \ {at[r]}
    /\ To(r, "ensure")
    /\ UNCHANGED <<conns, closed, creating, prewarm, dialled, reqVars, evicting,
                   pinged, stopped, excused>>

(* Closed meanwhile, or the caller is gone: the connection is closed, and  *)
(* whoever has leased it loses it.                                         *)
OwnGivesUp(r) ==
    /\ Ready(r, "ownWait")
    /\ excused' = excused \cup {at[r]}
    /\ To(r, "close")
    /\ retry' = [retry EXCEPT ![r] = 1]
    /\ UNCHANGED <<poolVars, dialled, ask, at, queued, evicting, pinged,
                   stopped>>

(***************************************************************************)
(* Waiting, health check, lease                                            *)
(***************************************************************************)
Retry(r) ==
    IF retry[r] < 1
    THEN /\ retry' = [retry EXCEPT ![r] = 1]
         /\ at' = [at EXCEPT ![r] = NoConn]
         /\ To(r, "again")
         /\ UNCHANGED <<ask, queued>>
    ELSE Fail(r)

WaitTake(r) ==
    /\ Ready(r, "wait") /\ at[r] \in Free(Conns)
    /\ token' = token \ {at[r]}
    /\ To(r, "ping")
    /\ UNCHANGED <<conns, closed, creating, prewarm, dialled, reqVars, evicting,
                   pinged, stopped, excused>>

WaitClosed(r) ==
    /\ Ready(r, "wait") /\ at[r] \in closed
    /\ Retry(r)
    /\ UNCHANGED <<poolVars, dialled, evicting, pinged, stopped, excused>>

WaitCanceled(r) ==
    /\ Ready(r, "wait")
    /\ Fail(r)
    /\ UNCHANGED <<poolVars, dialled, evicting, pinged, stopped, excused>>

(* Used a short while ago, or the ping is answered.                        *)
PingOK(r) ==
    /\ Ready(r, "ping")
    /\ To(r, "ensure")
    /\ UNCHANGED <<poolVars, dialled, reqVars, evicting, pinged, stopped, excused>>

(* A request that waited gives the lease back before it closes the         *)
(* connection, so the next waiter may lease it in between.                 *)
PingFails(r) ==
    /\ Ready(r, "ping")
    /\ excused' = excused \cup {at[r]}
    /\ token' = IF queued[r][retry[r]] = at[r] THEN token \cup {at[r]} ELSE token
    /\ To(r, "close")
    /\ UNCHANGED <<conns, closed, creating, prewarm, dialled, reqVars, evicting,
                   pinged, stopped>>

CloseOwn(r) ==
    /\ Ready(r, "close")
    /\ closed' = closed \cup {at[r]}
    /\ token' = token \cup {at[r]}
    /\ To(r, "evict")
    /\ UNCHANGED <<conns, creating, prewarm, dialled, reqVars, evicting, pinged,
                   stopped, excused>>

EvictOwn(r) ==
    /\ Ready(r, "evict")
    /\ conns' = conns \ {at[r]}
    /\ Retry(r)
    /\ UNCHANGED <<closed, token, creating, prewarm, dialled, evicting, pinged,
                   stopped, excused>>

(* targetConnCountLocked                                                   *)
Demand == Cardinality({c \in conns : Leased(c)})
          + Cardinality({rk \in Requests \X (0..1) : queued[rk[1]][rk[2]] \in conns})
AtLeast(n, m) == IF n < m THEN m ELSE n
AtMost(n, m) == IF n > m THEN m ELSE n

TargetConnCount ==
    LET busy == IF Demand > 1 THEN (Demand * 100 + Utilization - 1) \div Utilization ELSE 1
        more == IF \E c \in conns : Waiters(c) > 0
                THEN AtLeast(busy, Cardinality(conns) + 1) ELSE busy
    IN  IF Demand = 0 THEN AtMost(MinIdle, MaxConns)
        ELSE AtMost(AtLeast(more, AtMost(MinIdle, MaxConns)), MaxConns)

(* Mutant: dials under way are not counted as connections.                 *)
EnsureIgnoresCreating(r) ==
    /\ Ready(r, "ensure")
    /\ LET need == TargetConnCount - Cardinality(conns) IN
       \/ /\ prewarm = 0 /\ need > 0
          /\ creating' = creating + need /\ prewarm' = need
       \/ UNCHANGED <<creating, prewarm>>
    /\ Forget(r, at[r])
    /\ To(r, "leased")
    /\ UNCHANGED <<conns, closed, token, dialled, evicting, pinged, stopped, excused>>

(* ensureTargetIdleAsync unless it is cooling down, then Acquire returns   *)
(* the lease.                                                              *)
Ensure(r) ==
    /\ Ready(r, "ensure")
    /\ LET need == TargetConnCount - (Cardinality(conns) + creating) IN
       \/ /\ prewarm = 0 /\ need > 0
          /\ creating' = creating + need /\ prewarm' = need
       \/ UNCHANGED <<creating, prewarm>>
    /\ Forget(r, at[r])
    /\ To(r, "leased")
    /\ UNCHANGED <<conns, closed, token, dialled, evicting, pinged, stopped, excused>>

PinConn(r) ==
    /\ Ready(r, "leased") /\ at[r] \in conns
    /\ To(r, "pinned")
    /\ UNCHANGED <<poolVars, dialled, reqVars, evicting, pinged, stopped, excused>>

(* The next turn of the session stores its responses.                      *)
UnpinConn(r) ==
    /\ Ready(r, "pinned")
    /\ To(r, "leased")
    /\ UNCHANGED <<poolVars, dialled, reqVars, evicting, pinged, stopped, excused>>

(* Mutant: MarkBroken gives the lease back as well.                        *)
MarkBrokenReleases(r) ==
    /\ pc[r] \in {"leased", "pinned"} /\ evicting[r] = {} /\ at[r] \in conns
    /\ conns' = conns \ {at[r]}
    /\ token' = token \cup {at[r]}
    /\ evicting' = [evicting EXCEPT ![r] = {at[r]}]
    /\ excused' = excused \cup {at[r]}
    /\ UNCHANGED <<closed, creating, prewarm, dialled, pc, reqVars, pinged, stopped>>

(* MarkBroken: evictConn takes the connection out of the map and then      *)
(* closes it.                                                              *)
MarkBroken(r) ==
    /\ pc[r] \in {"leased", "pinned"} /\ evicting[r] = {} /\ at[r] \in conns
    /\ conns' = conns \ {at[r]}
    /\ evicting' = [evicting EXCEPT ![r] = {at[r]}]
    /\ excused' = excused \cup {at[r]}
    /\ UNCHANGED <<closed, token, creating, prewarm, dialled, pc, reqVars, pinged,
                   stopped>>

(* UnpinConn and Release                                                   *)
Release(r) ==
    /\ pc[r] \in {"leased", "pinned"} /\ evicting[r] = {}
    /\ token' = token \cup {at[r]}
    /\ Fail(r)
    /\ UNCHANGED <<conns, closed, creating, prewarm, dialled, evicting, pinged,
                   stopped, excused>>

(***************************************************************************)
(* Background goroutines                                                   *)
(***************************************************************************)
PrewarmOK ==
    /\ prewarm > 0 /\ dialled < MaxDials
    /\ dialled' = dialled + 1
    /\ prewarm' = prewarm - 1
    /\ creating' = creating - 1
    /\ IF Cardinality(conns) >= MaxConns
       THEN closed' = closed \cup {dialled + 1} /\ UNCHANGED conns
       ELSE conns' = conns \cup {dialled + 1} /\ UNCHANGED closed
    /\ token' = token \cup {dialled + 1}
    /\ UNCHANGED <<pc, reqVars, evicting, pinged, stopped, excused>>

PrewarmFails ==
    /\ prewarm > 0
    /\ prewarm' = prewarm - 1
    /\ creating' = creating - 1
    /\ UNCHANGED <<conns, closed, token, dialled, pc, reqVars, evicting, pinged,
                   stopped, excused>>

(* runBackgroundCleanupSweep                                               *)
Sweep ==
    /\ ~stopped /\ evicting[Sweeper] = {}
    /\ \E gone \in Cleanups \ {{}} :
         /\ conns' = conns \ gone
         /\ evicting' = [evicting EXCEPT ![Sweeper] = gone \ closed]
         /\ excused' = excused \cup Exposed(gone)
    /\ UNCHANGED <<closed, token, creating, prewarm, dialled, pc, reqVars, pinged,
                   stopped>>

(* runBackgroundPingSweep: the connection was idle when it was chosen.     *)
PingIdle ==
    /\ ~stopped /\ pinged = NoConn /\ evicting[Pinger] = {}
    /\ \E c \in conns :
         /\ ~Leased(c) /\ Waiters(c) = 0
         /\ pinged' = c
    /\ UNCHANGED <<poolVars, dialled, pc, reqVars, evicting, stopped, excused>>

PingAnswered ==
    /\ pinged # NoConn
    /\ \/ UNCHANGED <<conns, evicting, excused>>
       \/ /\ conns' = conns \ {pinged}
          /\ evicting' = [evicting EXCEPT ![Pinger] = (conns \cap {pinged}) \ closed]
          /\ excused' = excused \cup {pinged}
    /\ pinged' = NoConn
    /\ UNCHANGED <<closed, token, creating, prewarm, dialled, pc, reqVars, stopped>>

(* Close waits for both workers, then closes what is idle.                 *)
Close ==
    /\ ~stopped /\ pinged = NoConn
    /\ evicting[Sweeper] = {} /\ evicting[Pinger] = {}
    /\ stopped' = TRUE
    /\ LET idle == {c \in conns : ~Leased(c)} IN
       /\ closed' = closed \cup idle
       /\ excused' = excused \cup Exposed(idle)
    /\ UNCHANGED <<conns, token, creating, prewarm, dialled, pc, reqVars,
                   evicting, pinged>>

RequestStep(r) ==
    \/ Call(r) \/ Again(r)
    \/ DialOK(r) \/ DialFails(r) \/ Own(r) \/ OwnTake(r) \/ OwnGivesUp(r)
    \/ WaitTake(r) \/ WaitClosed(r) \/ WaitCanceled(r)
    \/ PingOK(r) \/ PingFails(r) \/ CloseOwn(r) \/ EvictOwn(r) \/ Ensure(r)
    \/ PinConn(r) \/ UnpinConn(r) \/ MarkBroken(r) \/ Release(r)

Next ==
    \/ \E r \in Requests : RequestStep(r)
    \/ \E p \in Closers : CloseEvicted(p)
    \/ PrewarmOK \/ PrewarmFails \/ Sweep \/ PingIdle \/ PingAnswered \/ Close

Spec == Init /\ [][Next]_vars

-----------------------------------------------------------------------------
Holds(r) == pc[r] \in {"ping", "ensure", "leased", "pinned"}

States == {"idle", "again", "dial", "own", "ownWait", "wait", "ping", "close",
           "evict", "ensure", "leased", "pinned"}

TypeOK ==
    /\ dialled \in 0..MaxDials /\ creating \in Nat /\ prewarm \in Nat
    /\ conns \subseteq 1..dialled /\ closed \subseteq 1..dialled
    /\ token \subseteq 1..dialled /\ excused \subseteq 1..dialled
    /\ pc \in [Requests -> States]
    /\ ask \in [Requests -> [mode : {"any", "force", "new"}, pref : 0..MaxDials]]
    /\ at \in [Requests -> 0..dialled]
    /\ retry \in [Requests -> 0..1]
    /\ queued \in [Requests -> [0..1 -> 0..MaxDials]]
    /\ evicting \in [Closers -> SUBSET (1..dialled)]
    /\ pinged \in 0..dialled /\ stopped \in BOOLEAN

(* Two requests never use the same connection.                             *)
ExclusiveLease ==
    \A r, s \in Requests : r # s /\ Holds(r) /\ Holds(s) => at[r] # at[s]

(* Connections in the map and dials under way never exceed the account's   *)
(* limit, and every dial gives its place back.                             *)
CapacityKept ==
    /\ Cardinality(conns) + creating <= MaxConns
    /\ creating = prewarm + Cardinality({r \in Requests : pc[r] = "dial"})

(* A connection that left the map is closed, or its evictor will close it. *)
NoConnLeak ==
    (1..dialled) \ (conns \cup closed) \subseteq UNION {evicting[p] : p \in Closers}

(* A connection is closed under a request that leases it only if that      *)
(* request or a ping found it broken, or if it was evicted while a waiter  *)
(* or the request that dialled it was about to claim it.                   *)
LeaseKept ==
    \A r \in Requests : Holds(r) /\ at[r] \in closed => at[r] \in excused
=============================================================================
