---------------------------- MODULE WSPoolProofs ----------------------------
(***************************************************************************)
(* Invariants of WSPool for any number of requests and connections and any *)
(* limits.                                                                 *)
(***************************************************************************)
EXTENDS WSPool, FiniteSetTheorems, TLAPS

AnyAsk == [mode : {"any", "force", "new"}, pref : 0..MaxDials]
AnyQueue == [0..1 -> 0..MaxDials]
Using == {"own", "ownWait", "wait", "ping", "close", "evict", "ensure",
          "leased", "pinned"}

(* TypeOK without the counters, whose bounds follow from CapacityInv. The  *)
(* states in Using are those with a connection.                            *)
Shape ==
    /\ dialled \in 0..MaxDials
    /\ conns \subseteq 1..dialled /\ closed \subseteq 1..dialled
    /\ token \subseteq 1..dialled /\ excused \subseteq 1..dialled
    /\ pc \in [Requests -> States]
    /\ ask \in [Requests -> AnyAsk]
    /\ at \in [Requests -> 0..dialled]
    /\ retry \in [Requests -> 0..1]
    /\ queued \in [Requests -> AnyQueue]
    /\ evicting \in [Closers -> SUBSET (1..dialled)]
    /\ pinged \in 0..dialled /\ stopped \in BOOLEAN
    /\ \A r \in Requests : pc[r] \in Using => at[r] # NoConn

Evicted == UNION {evicting[p] : p \in Closers}

(* An evicted connection has left the map for good, and the pinger has     *)
(* closed what it evicted before it pings again.                           *)
MapInv ==
    /\ NoConnLeak
    /\ conns \cap Evicted = {}
    /\ pinged # NoConn => evicting[Pinger] = {}
    /\ \A r \in Requests : pc[r] = "evict" => at[r] \in closed

(* A connection in use has no element in its channel, unless it is closed. *)
LeaseInv ==
    /\ ExclusiveLease
    /\ \A r \in Requests : Holds(r) => at[r] \notin token \/ at[r] \in closed

(* Whoever may yet claim an evicted connection was seen by the eviction.   *)
KeptInv ==
    /\ LeaseKept
    /\ \A r \in Requests :
         /\ pc[r] = "wait" => queued[r][retry[r]] = at[r]
         /\ pc[r] = "close" => at[r] \in excused
         /\ Holds(r) \/ pc[r] \in {"wait", "own", "ownWait"}
              => at[r] \notin Evicted \/ at[r] \in excused

Dialling == {r \in Requests : pc[r] = "dial"}

(* CapacityKept with the counters' types.                                  *)
CapacityInv ==
    /\ creating \in Nat /\ prewarm \in Nat
    /\ Cardinality(conns) + creating <= MaxConns
    /\ creating = prewarm + Cardinality(Dialling)
-----------------------------------------------------------------------------
(* One pass of acquire, by what it does to the pool.                       *)

Outcome(r, a, S) ==
    \/ \E c \in Free(S) : Take(r, a, c)
    \/ Room(S) /\ Dial(r)
    \/ \E c \in S : Queue(r, a, c)
    \/ Refuse(r)

Pass(r, a, gone) ==
    /\ pc[r] \in {"idle", "again"} /\ evicting[r] = {}
    /\ \A c \in gone : c \in closed \/ c \in token
    /\ conns' = conns \ gone
    /\ evicting' = [evicting EXCEPT ![r] = gone \ closed]
    /\ excused' = excused \cup Exposed(gone)
    /\ Outcome(r, a, conns \ gone)
    /\ UNCHANGED <<dialled, closed, prewarm, pinged, stopped>>

(* A clean-up evicts closed and idle connections of the map only.          *)
LEMMA CleanupsAreIdle ==
  ASSUME NEW gone \in Cleanups
  PROVE  gone \subseteq conns /\ \A c \in gone : c \in closed \/ c \in token
  <1>1. ASSUME NEW S, NEW X \in Redundant(S)
        PROVE  X \subseteq S /\ X \subseteq token
    BY <1>1 DEF Redundant, kSubset, Idle, Leased
  <1> DEFINE old == {c \in conns \ closed : ~Leased(c) /\ ~Pinned(c)}
             Of(A) == {(conns \cap closed) \cup A \cup X :
                         X \in Redundant(conns \ (closed \cup A))}
  <1>2. gone \in UNION {Of(A) : A \in SUBSET old}
    BY DEF Cleanups
  <1>3. PICK A \in SUBSET old : gone \in Of(A)
    BY <1>2
  <1>4. PICK X \in Redundant(conns \ (closed \cup A)) :
          gone = (conns \cap closed) \cup A \cup X
    BY <1>3
  <1> QED
    BY <1>1, <1>3, <1>4 DEF Leased

(* Pick takes a free connection, dials, queues at one of the map, or fails.*)
LEMMA PickOutcome ==
  ASSUME NEW r \in Requests, NEW a, NEW S, Pick(r, a, S)
  PROVE  Outcome(r, a, S)
  <1>1. Reusable(a, S) \subseteq Free(S)
    BY DEF Reusable, Free, LeastBusy
  <1>2. Targets(a, S) \subseteq S
    BY DEF Targets, LeastBusy
  <1> QED
    BY <1>1, <1>2 DEF Pick, Outcome, QueueFull

(* Acquire makes such a pass.                                              *)
LEMMA AcquirePasses ==
  ASSUME Shape, NEW r \in Requests, Call(r) \/ Again(r)
  PROVE  \E a \in AnyAsk, gone \in SUBSET conns : Pass(r, a, gone)
  <1>1. PICK a \in AnyAsk : Acquire(r, a)
    <2>1. CASE Call(r)
      <3>1. ASSUME NEW a \in Asks PROVE a \in AnyAsk
        <4>1. \A x \in conns \cup {NoConn} : x \in 0..MaxDials
          BY PoolAssumption DEF Shape, NoConn
        <4>2. \A x \in Modes : x \in {"any", "force", "new"}
          BY PoolAssumption
        <4> QED
          BY <4>1, <4>2 DEF Asks, AnyAsk
      <3> QED
        BY <2>1, <3>1 DEF Call
    <2>2. CASE Again(r)
      BY <2>2 DEF Again, AnyAsk, Shape
    <2> QED
      BY <2>1, <2>2
  <1>2. PICK gone \in {{}} \cup Cleanups :
          \E more \in Displaced(a, conns \ gone) :
            /\ conns' = conns \ (gone \cup more)
            /\ evicting' = [evicting EXCEPT ![r] = (gone \cup more) \ closed]
            /\ excused' = excused \cup Exposed(gone \cup more)
            /\ Pick(r, a, conns \ (gone \cup more))
    BY <1>1 DEF Acquire
  <1>3. PICK more \in Displaced(a, conns \ gone) :
            /\ conns' = conns \ (gone \cup more)
            /\ evicting' = [evicting EXCEPT ![r] = (gone \cup more) \ closed]
            /\ excused' = excused \cup Exposed(gone \cup more)
            /\ Pick(r, a, conns \ (gone \cup more))
    BY <1>2
  <1>4. gone \subseteq conns /\ \A c \in gone : c \in closed \/ c \in token
    BY CleanupsAreIdle
  <1>5. more \subseteq conns /\ more \subseteq token
    BY DEF Displaced, Idle, Leased
  <1>6. Outcome(r, a, conns \ (gone \cup more))
    BY <1>3, PickOutcome
  <1>7. pc[r] \in {"idle", "again"} /\ evicting[r] = {}
    BY DEF Call, Again, Ready
  <1>8. UNCHANGED <<dialled, closed, prewarm, pinged, stopped>>
    BY <1>1 DEF Acquire
  <1>9. Pass(r, a, gone \cup more)
    BY <1>3, <1>4, <1>5, <1>6, <1>7, <1>8 DEF Pass
  <1> QED
    BY <1>4, <1>5, <1>9

(* What the end of a call does to its locals.                              *)
LEMMA ForgetEffect ==
  ASSUME Shape, NEW r \in Requests, NEW c \in 0..dialled, Forget(r, c)
  PROVE  /\ at' = [at EXCEPT ![r] = c]
         /\ at' \in [Requests -> 0..dialled]
         /\ retry' \in [Requests -> 0..1]
         /\ ask' \in [Requests -> AnyAsk]
         /\ queued' \in [Requests -> AnyQueue]
         /\ \A s \in Requests : s # r => retry'[s] = retry[s] /\ queued'[s] = queued[s]
  <1>1. NoAsk \in AnyAsk
    BY PoolAssumption DEF NoAsk, AnyAsk, NoConn
  <1>2. [k \in 0..1 |-> NoConn] \in AnyQueue
    BY PoolAssumption DEF NoConn, AnyQueue
  <1>3. ask' \in [Requests -> AnyAsk]
    BY <1>1 DEF Forget, Shape
  <1>4. queued' \in [Requests -> AnyQueue]
    BY <1>2 DEF Forget, Shape
  <1> QED
    BY <1>3, <1>4 DEF Forget, Shape

(* What a pass that found its connection closed does to them.              *)
LEMMA RetryEffect ==
  ASSUME Shape, NEW r \in Requests, Retry(r)
  PROVE  /\ at' \in [Requests -> 0..dialled]
         /\ retry' \in [Requests -> 0..1]
         /\ ask' \in [Requests -> AnyAsk]
         /\ queued' \in [Requests -> AnyQueue]
         /\ pc' \in [Requests -> States]
         /\ pc'[r] \in {"idle", "again"}
         /\ \A s \in Requests : s # r =>
              /\ pc'[s] = pc[s] /\ at'[s] = at[s]
              /\ retry'[s] = retry[s] /\ queued'[s] = queued[s]
  <1>1. NoConn \in 0..dialled
    BY DEF NoConn, Shape
  <1>2. CASE retry[r] < 1
    <2>1. /\ retry' = [retry EXCEPT ![r] = 1] /\ at' = [at EXCEPT ![r] = NoConn]
          /\ pc' = [pc EXCEPT ![r] = "again"]
          /\ ask' = ask /\ queued' = queued
      BY <1>2 DEF Retry, To
    <2>2. pc' \in [Requests -> States]
      BY <2>1 DEF Shape, States
    <2>3. at' \in [Requests -> 0..dialled] /\ retry' \in [Requests -> 0..1]
      BY <1>1, <2>1 DEF Shape
    <2> QED
      BY <2>1, <2>2, <2>3 DEF Shape
  <1>3. CASE ~(retry[r] < 1)
    BY <1>1, <1>3, ForgetEffect DEF Retry, Fail, To, Shape, States
  <1> QED
    BY <1>2, <1>3

(* What the outcomes of a pass have in common.                             *)
LEMMA OutcomeEffect ==
  ASSUME Shape, NEW r \in Requests, NEW a, NEW S, Outcome(r, a, S)
  PROVE  /\ pc' \in [Requests -> States]
         /\ pc'[r] \in {"ping", "dial", "wait", "idle"}
         /\ pc'[r] = "ping" => at'[r] \in Free(S) /\ token' = token \ {at'[r]}
         /\ pc'[r] # "ping" => token' = token
         /\ pc'[r] = "wait" => at'[r] \in S /\ queued'[r][retry'[r]] = at'[r]
         /\ pc'[r] = "dial" => Room(S) /\ creating' = creating + 1
         /\ pc'[r] # "dial" => creating' = creating
         /\ \A s \in Requests : s # r =>
              /\ pc'[s] = pc[s] /\ at'[s] = at[s]
              /\ retry'[s] = retry[s] /\ queued'[s] = queued[s]
  <1>1. ASSUME NEW c \in Free(S), Take(r, a, c)
        PROVE  /\ pc' = [pc EXCEPT ![r] = "ping"] /\ at' = [at EXCEPT ![r] = c]
               /\ token' = token \ {c} /\ UNCHANGED <<creating, retry, queued>>
    BY <1>1 DEF Take, To
  <1>2. ASSUME Dial(r)
        PROVE  /\ pc' = [pc EXCEPT ![r] = "dial"] /\ creating' = creating + 1
               /\ UNCHANGED <<token, at, retry, queued>>
    BY <1>2 DEF Dial, To
  <1>3. ASSUME NEW c \in S, Queue(r, a, c)
        PROVE  /\ pc' = [pc EXCEPT ![r] = "wait"] /\ at' = [at EXCEPT ![r] = c]
               /\ UNCHANGED <<token, creating, retry>>
               /\ queued' = [queued EXCEPT ![r] = [queued[r] EXCEPT ![retry[r]] = c]]
    BY <1>3 DEF Queue, To
  <1>4. ASSUME Refuse(r)
        PROVE  /\ pc' = [pc EXCEPT ![r] = "idle"] /\ UNCHANGED <<token, creating>>
               /\ at' = [at EXCEPT ![r] = NoConn]
               /\ \A s \in Requests : s # r =>
                    retry'[s] = retry[s] /\ queued'[s] = queued[s]
    BY <1>4, ForgetEffect DEF Refuse, Fail, To, Shape, NoConn
  <1>5. CASE \E c \in Free(S) : Take(r, a, c)
    BY <1>1, <1>5 DEF Shape, States
  <1>6. CASE Room(S) /\ Dial(r)
    BY <1>2, <1>6 DEF Shape, States
  <1>7. CASE \E c \in S : Queue(r, a, c)
    <2>1. PICK c \in S : Queue(r, a, c)
      BY <1>7
    <2>2. queued'[r][retry'[r]] = c
      BY <1>3, <2>1 DEF Shape, AnyQueue
    <2> QED
      BY <1>3, <2>1, <2>2 DEF Shape, States
  <1>8. CASE Refuse(r)
    BY <1>4, <1>8 DEF Shape, States
  <1> QED
    BY <1>5, <1>6, <1>7, <1>8 DEF Outcome

(* Requests have finitely many places in queues.                           *)
LEMMA PlacesFinite == IsFiniteSet(Requests \X (0..1))
  <1>1. 0 \in Int /\ 1 \in Int
    OBVIOUS
  <1>2. IsFiniteSet(0..1)
    BY <1>1, FS_Interval
  <1> QED
    BY <1>2, FS_Product, PoolAssumption

(* A waiter is counted.                                                    *)
LEMMA WaitersCounted ==
  ASSUME Shape, NEW r \in Requests
  PROVE  Waiters(queued[r][retry[r]]) > 0
  <1> DEFINE c == queued[r][retry[r]]
             W == {rk \in Requests \X (0..1) : queued[rk[1]][rk[2]] = c}
  <1>2. IsFiniteSet(W)
    BY PlacesFinite, FS_Subset
  <1>3. <<r, retry[r]>> \in W
    BY DEF Shape
  <1>4. Cardinality(W) \in Nat /\ Cardinality(W) # 0
    BY <1>2, <1>3, FS_CardinalityType, FS_EmptySet
  <1> QED
    BY <1>4 DEF Waiters

(* Whoever uses or may yet claim an evicted connection is seen by the      *)
(* eviction.                                                               *)
LEMMA ClaimsAreExposed ==
  ASSUME Shape, LeaseInv, KeptInv, NEW gone,
         \A c \in gone : c \in closed \/ c \in token,
         NEW r \in Requests, at[r] \in gone,
         Holds(r) \/ pc[r] \in {"wait", "own", "ownWait"}
  PROVE  at[r] \in excused \cup Exposed(gone)
  <1>1. CASE Holds(r)
    BY <1>1 DEF LeaseInv, KeptInv, LeaseKept
  <1>2. CASE pc[r] = "wait"
    BY <1>2, WaitersCounted DEF KeptInv, Exposed
  <1>3. CASE pc[r] \in {"own", "ownWait"}
    BY <1>3 DEF Exposed, Unclaimed
  <1> QED
    BY <1>1, <1>2, <1>3

(* The counted sets are finite.                                            *)
LEMMA Counts ==
  ASSUME Shape
  PROVE  /\ IsFiniteSet(conns) /\ Cardinality(conns) \in Nat
         /\ IsFiniteSet(Dialling) /\ Cardinality(Dialling) \in Nat
         /\ \A T \in SUBSET conns : /\ Cardinality(T) \in Nat
                                    /\ Cardinality(T) <= Cardinality(conns)
  <1>1. IsFiniteSet(1..dialled)
    BY FS_Interval DEF Shape
  <1>2. IsFiniteSet(conns)
    BY <1>1, FS_Subset DEF Shape
  <1>3. Dialling \in SUBSET Requests
    BY DEF Dialling
  <1>4. IsFiniteSet(Dialling)
    BY <1>3, FS_Subset, PoolAssumption
  <1>5. ASSUME NEW T \in SUBSET conns
        PROVE  Cardinality(T) \in Nat /\ Cardinality(T) <= Cardinality(conns)
    BY <1>2, FS_Subset, FS_CardinalityType
  <1> QED
    BY <1>2, <1>4, <1>5, FS_CardinalityType

(* A step that dials nothing and adds nothing keeps the limit.             *)
LEMMA NothingAdded ==
  ASSUME Shape, CapacityInv, conns' \subseteq conns, Dialling' = Dialling,
         UNCHANGED <<creating, prewarm>>
  PROVE  CapacityInv'
  BY Counts, PoolAssumption DEF CapacityInv

(* The target of pre-warming is a number within the limit.                 *)
LEMMA TargetWithinLimit ==
  ASSUME Shape
  PROVE  TargetConnCount \in Int /\ TargetConnCount <= MaxConns
  <1> DEFINE W == {rk \in Requests \X (0..1) : queued[rk[1]][rk[2]] \in conns}
             busy == IF Demand > 1
                     THEN (Demand * 100 + Utilization - 1) \div Utilization ELSE 1
  <1>1. Demand \in Nat
    <2>1. Cardinality({c \in conns : Leased(c)}) \in Nat
      BY Counts
    <2>2. IsFiniteSet(W)
      BY PlacesFinite, FS_Subset
    <2>3. Cardinality(W) \in Nat
      BY <2>2, FS_CardinalityType
    <2> QED
      BY <2>1, <2>3 DEF Demand
  <1>2. busy \in Int
    <2>1. Utilization \in Nat /\ Utilization > 0
      BY PoolAssumption
    <2>2. Demand * 100 + Utilization - 1 \in Int
      BY <1>1, <2>1
    <2>3. \A x \in Int : x \div Utilization \in Int
      BY <2>1
    <2> QED
      BY <2>2, <2>3
  <1>3. Cardinality(conns) + 1 \in Int
    BY Counts
  <1> HIDE DEF busy
  <1>4. MaxConns \in Int /\ MinIdle \in Int
    BY PoolAssumption
  <1>5. \A n, m \in Int : AtLeast(n, m) \in Int /\ AtMost(n, m) \in Int
                          /\ AtMost(n, m) <= m
    BY DEF AtLeast, AtMost
  <1>6. \/ TargetConnCount = AtMost(MinIdle, MaxConns)
        \/ TargetConnCount = AtMost(AtLeast(busy, AtMost(MinIdle, MaxConns)), MaxConns)
        \/ TargetConnCount =
             AtMost(AtLeast(AtLeast(busy, Cardinality(conns) + 1),
                            AtMost(MinIdle, MaxConns)), MaxConns)
    BY DEF TargetConnCount, busy
  <1> DEFINE floor == AtMost(MinIdle, MaxConns)
             more == AtLeast(busy, Cardinality(conns) + 1)
  <1>7. floor \in Int /\ floor <= MaxConns /\ more \in Int
    BY <1>2, <1>3, <1>4, <1>5
  <1>8. AtLeast(busy, floor) \in Int /\ AtLeast(more, floor) \in Int
    BY <1>2, <1>5, <1>7
  <1>9. \A n \in Int : AtMost(n, MaxConns) \in Int /\ AtMost(n, MaxConns) <= MaxConns
    BY <1>4, <1>5
  <1>10. TargetConnCount \in {floor, AtMost(AtLeast(busy, floor), MaxConns),
                              AtMost(AtLeast(more, floor), MaxConns)}
    BY <1>6
  <1> HIDE DEF floor, more
  <1> QED
    BY <1>7, <1>8, <1>9, <1>10

-----------------------------------------------------------------------------
(* Inductive steps, one per action.                                        *)

(* Every step keeps Shape.                                                 *)
LEMMA ShapeStep == Shape /\ [Next]_vars => Shape'
  <1> SUFFICES ASSUME Shape, [Next]_vars
               PROVE  Shape'
    OBVIOUS
  <1> USE PoolAssumption
  <1>1. ASSUME NEW r \in Requests, NEW a \in AnyAsk,
              NEW gone \in SUBSET conns, Pass(r, a, gone) PROVE Shape'
    <2>1. /\ conns' \subseteq 1..dialled /\ excused' \subseteq 1..dialled
          /\ evicting' \in [Closers -> SUBSET (1..dialled)]
          /\ UNCHANGED <<dialled, closed, prewarm, pinged, stopped>>
      BY <1>1 DEF Pass, Exposed, Shape
    <2>2. ASSUME NEW c \in Free(conns \ gone), Take(r, a, c) PROVE Shape'
      <3>1. c \in 1..dialled
        BY DEF Free, Shape
      <3>2. ask' \in [Requests -> AnyAsk]
        <4>1. NoAsk \in AnyAsk
          BY PoolAssumption DEF NoAsk, AnyAsk, NoConn
        <4> QED
          BY <2>2, <4>1 DEF Take, Remember, Shape
      <3>3. token' \subseteq 1..dialled
        BY <2>2 DEF Take, Shape
      <3>4. at' \in [Requests -> 0..dialled] /\ at'[r] # NoConn
            /\ \A s \in Requests : s # r => at'[s] = at[s]
        BY <2>2, <3>1 DEF Take, Shape, NoConn
      <3>5. pc' \in [Requests -> States]
            /\ \A s \in Requests : s # r => pc'[s] = pc[s]
        BY <2>2 DEF Take, To, Shape, States
      <3>6. retry' = retry /\ queued' = queued
        BY <2>2 DEF Take
      <3> QED
        BY <2>1, <3>2, <3>3, <3>4, <3>5, <3>6 DEF Shape
    <2>3. ASSUME Dial(r) PROVE Shape'
      <3>1. NoAsk \in AnyAsk
        BY PoolAssumption DEF NoAsk, AnyAsk, NoConn
      <3> QED
        BY <2>1, <2>3, <3>1 DEF Dial, To, Shape, States, Using, NoConn
    <2>4. ASSUME NEW c \in conns \ gone, Queue(r, a, c) PROVE Shape'
      <3>1. c \in 1..dialled /\ c \in 0..MaxDials
        BY DEF Shape
      <3>2. ask' \in [Requests -> AnyAsk]
        <4>1. NoAsk \in AnyAsk
          BY PoolAssumption DEF NoAsk, AnyAsk, NoConn
        <4> QED
          BY <2>4, <4>1 DEF Queue, Remember, Shape
      <3>3. queued' \in [Requests -> AnyQueue]
        <4>1. [queued[r] EXCEPT ![retry[r]] = c] \in AnyQueue
          BY <3>1 DEF AnyQueue, Shape
        <4>2. queued' = [queued EXCEPT ![r] = [queued[r] EXCEPT ![retry[r]] = c]]
          BY <2>4 DEF Queue
        <4> QED
          BY <4>1, <4>2 DEF Shape
      <3> QED
        BY <2>1, <2>4, <3>1, <3>2, <3>3 DEF Queue, To, Shape, States, Using, NoConn
    <2>5. ASSUME Refuse(r) PROVE Shape'
      BY <2>1, <2>5, ForgetEffect DEF Refuse, Fail, To, Shape, States, Using, NoConn
    <2> QED
      BY <1>1, <2>2, <2>3, <2>4, <2>5 DEF Pass, Outcome
  <1>2. ASSUME NEW r \in Requests, DialOK(r) PROVE Shape'
    BY <1>2 DEF DialOK, Ready, To, poolVars, reqVars, Shape, States, Using,
       NoConn, Closers
  <1>3. ASSUME NEW r \in Requests, DialFails(r) PROVE Shape'
    BY <1>3, ForgetEffect DEF DialFails, Fail, Ready, To, poolVars, reqVars,
       Shape, States, Using, NoConn, Closers
  <1>4. ASSUME NEW r \in Requests, Own(r) PROVE Shape'
    BY <1>4 DEF Own, Free, Ready, To, poolVars, reqVars, Shape, States,
       Using, NoConn, Closers
  <1>5. ASSUME NEW r \in Requests, OwnTake(r) PROVE Shape'
    BY <1>5 DEF OwnTake, Free, Ready, To, poolVars, reqVars, Shape, States,
       Using, NoConn, Closers
  <1>6. ASSUME NEW r \in Requests, OwnGivesUp(r) PROVE Shape'
    <2>1. at[r] \in 1..dialled
      BY <1>6 DEF OwnGivesUp, Ready, Shape, Using, NoConn
    <2>2. excused' \subseteq 1..dialled
      BY <1>6, <2>1 DEF OwnGivesUp, Shape
    <2>3. retry' \in [Requests -> 0..1]
      BY <1>6 DEF OwnGivesUp, Shape
    <2>4. pc' \in [Requests -> States]
      BY <1>6 DEF OwnGivesUp, To, Shape, States
    <2>5. \A s \in Requests : pc'[s] \in Using => at[s] # NoConn
      BY <1>6, <2>1 DEF OwnGivesUp, To, Shape, NoConn
    <2> QED
      BY <1>6, <2>2, <2>3, <2>4, <2>5 DEF OwnGivesUp, poolVars, Shape
  <1>7. ASSUME NEW r \in Requests, WaitTake(r) PROVE Shape'
    BY <1>7 DEF WaitTake, Free, Ready, To, poolVars, reqVars, Shape, States,
       Using, NoConn, Closers
  <1>8. ASSUME NEW r \in Requests, WaitClosed(r) PROVE Shape'
    BY <1>8, RetryEffect DEF WaitClosed, Ready, To, poolVars, reqVars,
       Shape, States, Using, NoConn, Closers
  <1>9. ASSUME NEW r \in Requests, WaitCanceled(r) PROVE Shape'
    BY <1>9, ForgetEffect DEF WaitCanceled, Fail, Ready, To, poolVars,
       reqVars, Shape, States, Using, NoConn, Closers
  <1>10. ASSUME NEW r \in Requests, PingOK(r) PROVE Shape'
    BY <1>10 DEF PingOK, Ready, To, poolVars, reqVars, Shape, States, Using,
       NoConn, Closers
  <1>11. ASSUME NEW r \in Requests, PingFails(r) PROVE Shape'
    <2>1. at[r] \in 1..dialled
      BY <1>11 DEF PingFails, Ready, Shape, Using, NoConn
    <2> QED
      BY <1>11, <2>1 DEF PingFails, Ready, To,
         poolVars, reqVars, Shape, States, Using, NoConn
  <1>12. ASSUME NEW r \in Requests, CloseOwn(r) PROVE Shape'
    <2>1. at[r] \in 1..dialled
      BY <1>12 DEF CloseOwn, Ready, Shape, Using, NoConn
    <2> QED
      BY <1>12, <2>1 DEF CloseOwn, Ready, To,
         poolVars, reqVars, Shape, States, Using, NoConn
  <1>13. ASSUME NEW r \in Requests, EvictOwn(r) PROVE Shape'
    BY <1>13, RetryEffect DEF EvictOwn, Ready, To, poolVars, reqVars, Shape,
       States, Using, NoConn, Closers
  <1>14. ASSUME NEW r \in Requests, Ensure(r) PROVE Shape'
    BY <1>14, ForgetEffect DEF Ensure, Ready, To, poolVars, reqVars, Shape,
       States, Using, NoConn, Closers
  <1>15. ASSUME NEW r \in Requests, PinConn(r) PROVE Shape'
    BY <1>15 DEF PinConn, Ready, To, poolVars, reqVars, Shape, States,
       Using, NoConn, Closers
  <1>16. ASSUME NEW r \in Requests, UnpinConn(r) PROVE Shape'
    BY <1>16 DEF UnpinConn, Ready, To, poolVars, reqVars, Shape, States,
       Using, NoConn, Closers
  <1>17. ASSUME NEW r \in Requests, MarkBroken(r) PROVE Shape'
    BY <1>17 DEF MarkBroken, Ready, To, poolVars, reqVars, Shape, States,
       Using, NoConn, Closers
  <1>18. ASSUME NEW r \in Requests, Release(r) PROVE Shape'
    <2>1. at[r] \in 1..dialled
      BY <1>18 DEF Release, Shape, Using, NoConn
    <2>2. token' \subseteq 1..dialled
      BY <1>18, <2>1 DEF Release, Shape
    <2>3. NoConn \in 0..dialled /\ Forget(r, NoConn) /\ pc' = [pc EXCEPT ![r] = "idle"]
      BY <1>18 DEF Release, Fail, To, Shape, NoConn
    <2>4. pc' \in [Requests -> States] /\ pc'[r] = "idle"
          /\ \A s \in Requests : s # r => pc'[s] = pc[s]
      BY <2>3 DEF Shape, States
    <2> QED
      BY <1>18, <2>2, <2>3, <2>4, ForgetEffect DEF Release, Shape, Using
  <1>19. ASSUME NEW p \in Closers, CloseEvicted(p) PROVE Shape'
    BY <1>19 DEF CloseEvicted, Ready, To, poolVars, reqVars, Shape, States,
       Using, NoConn, Closers
  <1>20. ASSUME PrewarmOK PROVE Shape'
    <2>1. dialled' = dialled + 1 /\ dialled' \in 0..MaxDials
      BY <1>20 DEF PrewarmOK, Shape
    <2>2. \A S \in SUBSET (1..dialled) : S \in SUBSET (1..dialled')
      BY <2>1 DEF Shape
    <2>3. /\ conns' \subseteq 1..dialled' /\ closed' \subseteq 1..dialled'
          /\ token' \subseteq 1..dialled' /\ excused' \subseteq 1..dialled'
      <3>1. dialled + 1 \in 1..dialled'
        BY <2>1 DEF Shape
      <3>2. /\ conns' \subseteq conns \cup {dialled + 1}
            /\ closed' \subseteq closed \cup {dialled + 1}
            /\ token' = token \cup {dialled + 1} /\ excused' = excused
        BY <1>20 DEF PrewarmOK
      <3> QED
        BY <2>2, <3>1, <3>2 DEF Shape
    <2>4. evicting' \in [Closers -> SUBSET (1..dialled')]
      BY <1>20, <2>2 DEF PrewarmOK, Shape
    <2>5. at' \in [Requests -> 0..dialled'] /\ pinged' \in 0..dialled'
      BY <1>20, <2>1 DEF PrewarmOK, reqVars, Shape
    <2> QED
      BY <1>20, <2>1, <2>3, <2>4, <2>5 DEF PrewarmOK, reqVars, Shape
  <1>21. ASSUME PrewarmFails PROVE Shape'
    BY <1>21 DEF PrewarmFails, Ready, To, poolVars, reqVars, Shape, States,
       Using, NoConn, Closers
  <1>22. ASSUME Sweep PROVE Shape'
    <2>1. PICK gone \in Cleanups :
            /\ conns' = conns \ gone
            /\ evicting' = [evicting EXCEPT ![Sweeper] = gone \ closed]
            /\ excused' = excused \cup Exposed(gone)
      BY <1>22 DEF Sweep
    <2>2. gone \subseteq 1..dialled
      BY CleanupsAreIdle DEF Shape
    <2>3. Exposed(gone) \subseteq gone
      BY DEF Exposed
    <2> QED
      BY <1>22, <2>1, <2>2, <2>3 DEF Sweep, reqVars, Shape
  <1>23. ASSUME PingIdle PROVE Shape'
    BY <1>23 DEF PingIdle, Ready, To, poolVars, reqVars, Shape, States,
       Using, NoConn, Closers
  <1>24. ASSUME PingAnswered PROVE Shape'
    <2>1. pinged \in 1..dialled
      BY <1>24 DEF PingAnswered, Shape, NoConn
    <2>2. conns' \subseteq 1..dialled /\ excused' \subseteq 1..dialled
      BY <1>24, <2>1 DEF PingAnswered, Shape
    <2>3. evicting' \in [Closers -> SUBSET (1..dialled)]
      BY <1>24 DEF PingAnswered, Shape
    <2>4. pinged' \in 0..dialled
      BY <1>24 DEF PingAnswered, Shape, NoConn
    <2> QED
      BY <1>24, <2>2, <2>3, <2>4 DEF PingAnswered, reqVars, Shape
  <1>25. ASSUME Close PROVE Shape'
    <2>1. /\ conns' = conns /\ closed' \subseteq 1..dialled
          /\ excused' \subseteq 1..dialled /\ stopped' = TRUE
      BY <1>25 DEF Close, Exposed, Shape
    <2> QED
      BY <1>25, <2>1 DEF Close, reqVars, Shape
  <1>26. CASE UNCHANGED vars
    BY <1>26 DEF vars, poolVars, reqVars, Shape, States, Using, NoConn,
       Closers
  <1> QED
    BY <1>1, <1>2, <1>3, <1>4, <1>5, <1>6, <1>7, <1>8, <1>9, <1>10, <1>11,
       <1>12, <1>13, <1>14, <1>15, <1>16, <1>17, <1>18, <1>19, <1>20, <1>21,
       <1>22, <1>23, <1>24, <1>25, <1>26, AcquirePasses
       DEF Next, RequestStep

(* Every step keeps MapInv.                                                *)
LEMMA MapStep == Shape /\ MapInv /\ [Next]_vars => MapInv'
  <1> SUFFICES ASSUME Shape, MapInv, [Next]_vars
               PROVE  MapInv'
    OBVIOUS
  <1> USE PoolAssumption
  <1>1. ASSUME NEW r \in Requests, NEW a \in AnyAsk,
              NEW gone \in SUBSET conns, Pass(r, a, gone) PROVE MapInv'
    <2>1. /\ conns' = conns \ gone /\ evicting[r] = {} /\ r \in Closers
          /\ evicting' = [evicting EXCEPT ![r] = gone \ closed]
          /\ UNCHANGED <<dialled, closed, pinged>> /\ Outcome(r, a, conns \ gone)
      BY <1>1 DEF Pass, Closers
    <2>2. Evicted' = Evicted \cup (gone \ closed)
      BY <2>1 DEF Evicted, Shape
    <2>3. evicting'[Pinger] = evicting[Pinger]
      BY <2>1 DEF Shape, Closers
    <2>4. \A s \in Requests : pc'[s] = "evict" => pc[s] = "evict" /\ at'[s] = at[s]
      BY <2>1, OutcomeEffect
    <2> QED
      BY <2>1, <2>2, <2>3, <2>4 DEF MapInv, NoConnLeak, Evicted
  <1>2. ASSUME NEW r \in Requests, DialOK(r) PROVE MapInv'
    BY <1>2 DEF DialOK, Ready, To, poolVars, reqVars, Shape, MapInv,
       NoConnLeak, Evicted, States, NoConn, Closers
  <1>3. ASSUME NEW r \in Requests, DialFails(r) PROVE MapInv'
    BY <1>3, ForgetEffect DEF DialFails, Fail, Ready, To, poolVars, reqVars,
       Shape, MapInv, NoConnLeak, Evicted, States, NoConn, Closers
  <1>4. ASSUME NEW r \in Requests, Own(r) PROVE MapInv'
    BY <1>4 DEF Own, Free, Ready, To, poolVars, reqVars, Shape, MapInv,
       NoConnLeak, Evicted, States, NoConn, Closers
  <1>5. ASSUME NEW r \in Requests, OwnTake(r) PROVE MapInv'
    BY <1>5 DEF OwnTake, Free, Ready, To, poolVars, reqVars, Shape, MapInv,
       NoConnLeak, Evicted, States, NoConn, Closers
  <1>6. ASSUME NEW r \in Requests, OwnGivesUp(r) PROVE MapInv'
    BY <1>6 DEF OwnGivesUp, Ready, To, poolVars, reqVars, Shape, MapInv,
       NoConnLeak, Evicted, States, NoConn, Closers
  <1>7. ASSUME NEW r \in Requests, WaitTake(r) PROVE MapInv'
    BY <1>7 DEF WaitTake, Free, Ready, To, poolVars, reqVars, Shape, MapInv,
       NoConnLeak, Evicted, States, NoConn, Closers
  <1>8. ASSUME NEW r \in Requests, WaitClosed(r) PROVE MapInv'
    BY <1>8, RetryEffect DEF WaitClosed, Ready, To, poolVars, reqVars,
       Shape, MapInv, NoConnLeak, Evicted, States, NoConn, Closers
  <1>9. ASSUME NEW r \in Requests, WaitCanceled(r) PROVE MapInv'
    BY <1>9, ForgetEffect DEF WaitCanceled, Fail, Ready, To, poolVars,
       reqVars, Shape, MapInv, NoConnLeak, Evicted, States, NoConn, Closers
  <1>10. ASSUME NEW r \in Requests, PingOK(r) PROVE MapInv'
    BY <1>10 DEF PingOK, Ready, To, poolVars, reqVars, Shape, MapInv,
       NoConnLeak, Evicted, States, NoConn, Closers
  <1>11. ASSUME NEW r \in Requests, PingFails(r) PROVE MapInv'
    BY <1>11 DEF PingFails, Ready, To, poolVars, reqVars, Shape, MapInv,
       NoConnLeak, Evicted, States, NoConn, Closers
  <1>12. ASSUME NEW r \in Requests, CloseOwn(r) PROVE MapInv'
    BY <1>12 DEF CloseOwn, Ready, To, poolVars, reqVars, Shape, MapInv,
       NoConnLeak, Evicted, States, NoConn, Closers
  <1>13. ASSUME NEW r \in Requests, EvictOwn(r) PROVE MapInv'
    BY <1>13, RetryEffect DEF EvictOwn, Ready, To, poolVars, reqVars, Shape,
       MapInv, NoConnLeak, Evicted, States, NoConn, Closers
  <1>14. ASSUME NEW r \in Requests, Ensure(r) PROVE MapInv'
    BY <1>14, ForgetEffect DEF Ensure, Ready, To, poolVars, reqVars, Shape,
       MapInv, NoConnLeak, Evicted, States, NoConn, Closers
  <1>15. ASSUME NEW r \in Requests, PinConn(r) PROVE MapInv'
    BY <1>15 DEF PinConn, Ready, To, poolVars, reqVars, Shape, MapInv,
       NoConnLeak, Evicted, States, NoConn, Closers
  <1>16. ASSUME NEW r \in Requests, UnpinConn(r) PROVE MapInv'
    BY <1>16 DEF UnpinConn, Ready, To, poolVars, reqVars, Shape, MapInv,
       NoConnLeak, Evicted, States, NoConn, Closers
  <1>17. ASSUME NEW r \in Requests, MarkBroken(r) PROVE MapInv'
    BY <1>17 DEF MarkBroken, Ready, To, poolVars, reqVars, Shape, MapInv,
       NoConnLeak, Evicted, States, NoConn, Closers
  <1>18. ASSUME NEW r \in Requests, Release(r) PROVE MapInv'
    BY <1>18, ForgetEffect DEF Release, Fail, Ready, To, poolVars, reqVars,
       Shape, MapInv, NoConnLeak, Evicted, States, NoConn, Closers
  <1>19. ASSUME NEW p \in Closers, CloseEvicted(p) PROVE MapInv'
    BY <1>19 DEF CloseEvicted, Ready, To, poolVars, reqVars, Shape, MapInv,
       NoConnLeak, Evicted, States, NoConn, Closers
  <1>20. ASSUME PrewarmOK PROVE MapInv'
    BY <1>20 DEF PrewarmOK, Ready, To, poolVars, reqVars, Shape, MapInv,
       NoConnLeak, Evicted, States, NoConn, Closers
  <1>21. ASSUME PrewarmFails PROVE MapInv'
    BY <1>21 DEF PrewarmFails, Ready, To, poolVars, reqVars, Shape, MapInv,
       NoConnLeak, Evicted, States, NoConn, Closers
  <1>22. ASSUME Sweep PROVE MapInv'
    <2>1. PICK gone \in Cleanups :
            /\ conns' = conns \ gone
            /\ evicting' = [evicting EXCEPT ![Sweeper] = gone \ closed]
      BY <1>22 DEF Sweep
    <2>2. evicting[Sweeper] = {} /\ Sweeper \in Closers /\ Pinger \in Closers
          /\ UNCHANGED <<dialled, closed, pinged, pc, at>>
      BY <1>22 DEF Sweep, reqVars, Closers
    <2>3. Evicted' = Evicted \cup (gone \ closed)
      BY <2>1, <2>2 DEF Evicted, Shape
    <2>4. evicting'[Pinger] = evicting[Pinger]
      BY <2>1, <2>2 DEF Shape, Sweeper, Pinger
    <2> QED
      BY <2>1, <2>2, <2>3, <2>4 DEF MapInv, NoConnLeak, Evicted
  <1>23. ASSUME PingIdle PROVE MapInv'
    BY <1>23 DEF PingIdle, Ready, To, poolVars, reqVars, Shape, MapInv,
       NoConnLeak, Evicted, States, NoConn, Closers
  <1>24. ASSUME PingAnswered PROVE MapInv'
    BY <1>24 DEF PingAnswered, Ready, To, poolVars, reqVars, Shape, MapInv,
       NoConnLeak, Evicted, States, NoConn, Closers
  <1>25. ASSUME Close PROVE MapInv'
    BY <1>25 DEF Close, Ready, To, poolVars, reqVars, Shape, MapInv,
       NoConnLeak, Evicted, States, NoConn, Closers
  <1>26. CASE UNCHANGED vars
    BY <1>26 DEF vars, poolVars, reqVars, Shape, MapInv, NoConnLeak,
       Evicted, States, NoConn, Closers
  <1> QED
    BY <1>1, <1>2, <1>3, <1>4, <1>5, <1>6, <1>7, <1>8, <1>9, <1>10, <1>11,
       <1>12, <1>13, <1>14, <1>15, <1>16, <1>17, <1>18, <1>19, <1>20, <1>21,
       <1>22, <1>23, <1>24, <1>25, <1>26, AcquirePasses
       DEF Next, RequestStep

(* Every step keeps LeaseInv.                                              *)
LEMMA LeaseStep == Shape /\ LeaseInv /\ [Next]_vars => LeaseInv'
  <1> SUFFICES ASSUME Shape, LeaseInv, [Next]_vars
               PROVE  LeaseInv'
    OBVIOUS
  <1> USE PoolAssumption
  <1>1. ASSUME NEW r \in Requests, NEW a \in AnyAsk,
              NEW gone \in SUBSET conns, Pass(r, a, gone) PROVE LeaseInv'
    <2>1. Outcome(r, a, conns \ gone) /\ closed' = closed
      BY <1>1 DEF Pass
    <2>2. pc'[r] = "ping" => at'[r] \in token /\ at'[r] \notin closed
      BY <2>1, OutcomeEffect DEF Free
    <2> QED
      BY <2>1, <2>2, OutcomeEffect DEF LeaseInv, ExclusiveLease, Holds
  <1>2. ASSUME NEW r \in Requests, DialOK(r) PROVE LeaseInv'
    BY <1>2 DEF DialOK, Ready, To, poolVars, reqVars, Shape, LeaseInv,
       ExclusiveLease, Holds, Using, States, NoConn
  <1>3. ASSUME NEW r \in Requests, DialFails(r) PROVE LeaseInv'
    BY <1>3, ForgetEffect DEF DialFails, Fail, Ready, To, poolVars, reqVars,
       Shape, LeaseInv, ExclusiveLease, Holds, Using, States, NoConn
  <1>4. ASSUME NEW r \in Requests, Own(r) PROVE LeaseInv'
    BY <1>4 DEF Own, Free, Ready, To, poolVars, reqVars, Shape, LeaseInv,
       ExclusiveLease, Holds, Using, States, NoConn
  <1>5. ASSUME NEW r \in Requests, OwnTake(r) PROVE LeaseInv'
    BY <1>5 DEF OwnTake, Free, Ready, To, poolVars, reqVars, Shape,
       LeaseInv, ExclusiveLease, Holds, Using, States, NoConn
  <1>6. ASSUME NEW r \in Requests, OwnGivesUp(r) PROVE LeaseInv'
    BY <1>6 DEF OwnGivesUp, Ready, To, poolVars, reqVars, Shape, LeaseInv,
       ExclusiveLease, Holds, Using, States, NoConn
  <1>7. ASSUME NEW r \in Requests, WaitTake(r) PROVE LeaseInv'
    BY <1>7 DEF WaitTake, Free, Ready, To, poolVars, reqVars, Shape,
       LeaseInv, ExclusiveLease, Holds, Using, States, NoConn
  <1>8. ASSUME NEW r \in Requests, WaitClosed(r) PROVE LeaseInv'
    BY <1>8, RetryEffect DEF WaitClosed, Ready, To, poolVars, reqVars,
       Shape, LeaseInv, ExclusiveLease, Holds, Using, States, NoConn
  <1>9. ASSUME NEW r \in Requests, WaitCanceled(r) PROVE LeaseInv'
    BY <1>9, ForgetEffect DEF WaitCanceled, Fail, Ready, To, poolVars,
       reqVars, Shape, LeaseInv, ExclusiveLease, Holds, Using, States,
       NoConn
  <1>10. ASSUME NEW r \in Requests, PingOK(r) PROVE LeaseInv'
    BY <1>10 DEF PingOK, Ready, To, poolVars, reqVars, Shape, LeaseInv,
       ExclusiveLease, Holds, Using, States, NoConn
  <1>11. ASSUME NEW r \in Requests, PingFails(r) PROVE LeaseInv'
    BY <1>11 DEF PingFails, Ready, To, poolVars, reqVars, Shape, LeaseInv,
       ExclusiveLease, Holds, Using, States, NoConn
  <1>12. ASSUME NEW r \in Requests, CloseOwn(r) PROVE LeaseInv'
    BY <1>12 DEF CloseOwn, Ready, To, poolVars, reqVars, Shape, LeaseInv,
       ExclusiveLease, Holds, Using, States, NoConn
  <1>13. ASSUME NEW r \in Requests, EvictOwn(r) PROVE LeaseInv'
    BY <1>13, RetryEffect DEF EvictOwn, Ready, To, poolVars, reqVars, Shape,
       LeaseInv, ExclusiveLease, Holds, Using, States, NoConn
  <1>14. ASSUME NEW r \in Requests, Ensure(r) PROVE LeaseInv'
    BY <1>14, ForgetEffect DEF Ensure, Ready, To, poolVars, reqVars, Shape,
       LeaseInv, ExclusiveLease, Holds, Using, States, NoConn
  <1>15. ASSUME NEW r \in Requests, PinConn(r) PROVE LeaseInv'
    BY <1>15 DEF PinConn, Ready, To, poolVars, reqVars, Shape, LeaseInv,
       ExclusiveLease, Holds, Using, States, NoConn
  <1>16. ASSUME NEW r \in Requests, UnpinConn(r) PROVE LeaseInv'
    BY <1>16 DEF UnpinConn, Ready, To, poolVars, reqVars, Shape, LeaseInv,
       ExclusiveLease, Holds, Using, States, NoConn
  <1>17. ASSUME NEW r \in Requests, MarkBroken(r) PROVE LeaseInv'
    BY <1>17 DEF MarkBroken, Ready, To, poolVars, reqVars, Shape, LeaseInv,
       ExclusiveLease, Holds, Using, States, NoConn
  <1>18. ASSUME NEW r \in Requests, Release(r) PROVE LeaseInv'
    BY <1>18, ForgetEffect DEF Release, Fail, Ready, To, poolVars, reqVars,
       Shape, LeaseInv, ExclusiveLease, Holds, Using, States, NoConn
  <1>19. ASSUME NEW p \in Closers, CloseEvicted(p) PROVE LeaseInv'
    BY <1>19 DEF CloseEvicted, Ready, To, poolVars, reqVars, Shape,
       LeaseInv, ExclusiveLease, Holds, Using, States, NoConn
  <1>20. ASSUME PrewarmOK PROVE LeaseInv'
    BY <1>20 DEF PrewarmOK, Ready, To, poolVars, reqVars, Shape, LeaseInv,
       ExclusiveLease, Holds, Using, States, NoConn
  <1>21. ASSUME PrewarmFails PROVE LeaseInv'
    BY <1>21 DEF PrewarmFails, Ready, To, poolVars, reqVars, Shape,
       LeaseInv, ExclusiveLease, Holds, Using, States, NoConn
  <1>22. ASSUME Sweep PROVE LeaseInv'
    BY <1>22 DEF Sweep, Ready, To, poolVars, reqVars, Shape, LeaseInv,
       ExclusiveLease, Holds, Using, States, NoConn
  <1>23. ASSUME PingIdle PROVE LeaseInv'
    BY <1>23 DEF PingIdle, Ready, To, poolVars, reqVars, Shape, LeaseInv,
       ExclusiveLease, Holds, Using, States, NoConn
  <1>24. ASSUME PingAnswered PROVE LeaseInv'
    BY <1>24 DEF PingAnswered, Ready, To, poolVars, reqVars, Shape,
       LeaseInv, ExclusiveLease, Holds, Using, States, NoConn
  <1>25. ASSUME Close PROVE LeaseInv'
    BY <1>25 DEF Close, Ready, To, poolVars, reqVars, Shape, LeaseInv,
       ExclusiveLease, Holds, Using, States, NoConn
  <1>26. CASE UNCHANGED vars
    BY <1>26 DEF vars, poolVars, reqVars, Shape, LeaseInv, ExclusiveLease,
       Holds, Using, States, NoConn
  <1> QED
    BY <1>1, <1>2, <1>3, <1>4, <1>5, <1>6, <1>7, <1>8, <1>9, <1>10, <1>11,
       <1>12, <1>13, <1>14, <1>15, <1>16, <1>17, <1>18, <1>19, <1>20, <1>21,
       <1>22, <1>23, <1>24, <1>25, <1>26, AcquirePasses
       DEF Next, RequestStep

(* Every step keeps KeptInv.                                               *)
LEMMA KeptStep ==
  Shape /\ MapInv /\ LeaseInv /\ KeptInv /\ [Next]_vars => KeptInv'
  <1> SUFFICES ASSUME Shape, MapInv, LeaseInv, KeptInv, [Next]_vars
               PROVE  KeptInv'
    OBVIOUS
  <1> USE PoolAssumption
  <1>1. ASSUME NEW r \in Requests, NEW a \in AnyAsk,
              NEW gone \in SUBSET conns, Pass(r, a, gone) PROVE KeptInv'
    <2>1. /\ closed' = closed /\ excused' = excused \cup Exposed(gone)
          /\ Outcome(r, a, conns \ gone) /\ pc[r] \in {"idle", "again"}
          /\ \A c \in gone : c \in closed \/ c \in token
      BY <1>1 DEF Pass
    <2>2. Evicted' = Evicted \cup (gone \ closed)
      <3>1. /\ evicting[r] = {} /\ r \in Closers
            /\ evicting' = [evicting EXCEPT ![r] = gone \ closed]
        BY <1>1 DEF Pass, Closers
      <3> QED
        BY <3>1 DEF Evicted, Shape
    <2>3. ASSUME NEW s \in Requests, s # r,
                 Holds(s) \/ pc[s] \in {"wait", "own", "ownWait"}, at[s] \in gone
          PROVE  at[s] \in excused'
      BY <2>1, <2>3, ClaimsAreExposed
    <2>4. pc'[r] \in {"ping", "wait"} => at'[r] \in conns \ gone
      BY <2>1, OutcomeEffect DEF Free
    <2>5. pc'[r] = "ping" => at'[r] \notin closed
      BY <2>1, OutcomeEffect DEF Free
    <2>6. conns \cap Evicted = {}
      BY DEF MapInv
    <2>7. /\ pc'[r] \in {"ping", "dial", "wait", "idle"}
          /\ pc'[r] = "wait" => queued'[r][retry'[r]] = at'[r]
          /\ \A s \in Requests : s # r =>
               /\ pc'[s] = pc[s] /\ at'[s] = at[s]
               /\ retry'[s] = retry[s] /\ queued'[s] = queued[s]
      BY <2>1, OutcomeEffect
    <2>8. ASSUME NEW s \in Requests
          PROVE  /\ Holds(s)' /\ (at[s] \in closed)' => (at[s] \in excused)'
                 /\ (pc[s] = "wait" => queued[s][retry[s]] = at[s])'
                 /\ (pc[s] = "close" => at[s] \in excused)'
                 /\ (Holds(s) \/ pc[s] \in {"wait", "own", "ownWait"}
                       => at[s] \notin Evicted \/ at[s] \in excused)'
      <3>1. CASE s = r
        BY <2>1, <2>2, <2>4, <2>5, <2>6, <2>7, <3>1 DEF Holds
      <3>2. CASE s # r
        BY <2>1, <2>2, <2>3, <2>7, <3>2 DEF Holds, KeptInv, LeaseKept
      <3> QED
        BY <3>1, <3>2
    <2> QED
      BY <2>8 DEF KeptInv, LeaseKept
  <1>2. ASSUME NEW r \in Requests, DialOK(r) PROVE KeptInv'
    BY <1>2 DEF DialOK, Ready, To, poolVars, reqVars, Shape, LeaseInv,
       ExclusiveLease, Holds, KeptInv, LeaseKept, Evicted, MapInv, Using,
       States, NoConn
  <1>3. ASSUME NEW r \in Requests, DialFails(r) PROVE KeptInv'
    BY <1>3, ForgetEffect DEF DialFails, Fail, Ready, To, poolVars, reqVars,
       Shape, LeaseInv, ExclusiveLease, Holds, KeptInv, LeaseKept, Evicted,
       MapInv, Using, States, NoConn
  <1>4. ASSUME NEW r \in Requests, Own(r) PROVE KeptInv'
    BY <1>4 DEF Own, Free, Ready, To, poolVars, reqVars, Shape, LeaseInv,
       ExclusiveLease, Holds, KeptInv, LeaseKept, Evicted, MapInv, Using,
       States, NoConn
  <1>5. ASSUME NEW r \in Requests, OwnTake(r) PROVE KeptInv'
    BY <1>5 DEF OwnTake, Free, Ready, To, poolVars, reqVars, Shape,
       LeaseInv, ExclusiveLease, Holds, KeptInv, LeaseKept, Evicted, MapInv,
       Using, States, NoConn
  <1>6. ASSUME NEW r \in Requests, OwnGivesUp(r) PROVE KeptInv'
    BY <1>6 DEF OwnGivesUp, Ready, To, poolVars, reqVars, Shape, LeaseInv,
       ExclusiveLease, Holds, KeptInv, LeaseKept, Evicted, MapInv, Using,
       States, NoConn
  <1>7. ASSUME NEW r \in Requests, WaitTake(r) PROVE KeptInv'
    BY <1>7 DEF WaitTake, Free, Ready, To, poolVars, reqVars, Shape,
       LeaseInv, ExclusiveLease, Holds, KeptInv, LeaseKept, Evicted, MapInv,
       Using, States, NoConn
  <1>8. ASSUME NEW r \in Requests, WaitClosed(r) PROVE KeptInv'
    BY <1>8, RetryEffect DEF WaitClosed, Ready, To, poolVars, reqVars,
       Shape, LeaseInv, ExclusiveLease, Holds, KeptInv, LeaseKept, Evicted,
       MapInv, Using, States, NoConn
  <1>9. ASSUME NEW r \in Requests, WaitCanceled(r) PROVE KeptInv'
    BY <1>9, ForgetEffect DEF WaitCanceled, Fail, Ready, To, poolVars,
       reqVars, Shape, LeaseInv, ExclusiveLease, Holds, KeptInv, LeaseKept,
       Evicted, MapInv, Using, States, NoConn
  <1>10. ASSUME NEW r \in Requests, PingOK(r) PROVE KeptInv'
    BY <1>10 DEF PingOK, Ready, To, poolVars, reqVars, Shape, LeaseInv,
       ExclusiveLease, Holds, KeptInv, LeaseKept, Evicted, MapInv, Using,
       States, NoConn
  <1>11. ASSUME NEW r \in Requests, PingFails(r) PROVE KeptInv'
    BY <1>11 DEF PingFails, Ready, To, poolVars, reqVars, Shape, LeaseInv,
       ExclusiveLease, Holds, KeptInv, LeaseKept, Evicted, MapInv, Using,
       States, NoConn
  <1>12. ASSUME NEW r \in Requests, CloseOwn(r) PROVE KeptInv'
    BY <1>12 DEF CloseOwn, Ready, To, poolVars, reqVars, Shape, LeaseInv,
       ExclusiveLease, Holds, KeptInv, LeaseKept, Evicted, MapInv, Using,
       States, NoConn
  <1>13. ASSUME NEW r \in Requests, EvictOwn(r) PROVE KeptInv'
    BY <1>13, RetryEffect DEF EvictOwn, Ready, To, poolVars, reqVars, Shape,
       LeaseInv, ExclusiveLease, Holds, KeptInv, LeaseKept, Evicted, MapInv,
       Using, States, NoConn
  <1>14. ASSUME NEW r \in Requests, Ensure(r) PROVE KeptInv'
    BY <1>14, ForgetEffect DEF Ensure, Ready, To, poolVars, reqVars, Shape,
       LeaseInv, ExclusiveLease, Holds, KeptInv, LeaseKept, Evicted, MapInv,
       Using, States, NoConn
  <1>15. ASSUME NEW r \in Requests, PinConn(r) PROVE KeptInv'
    BY <1>15 DEF PinConn, Ready, To, poolVars, reqVars, Shape, LeaseInv,
       ExclusiveLease, Holds, KeptInv, LeaseKept, Evicted, MapInv, Using,
       States, NoConn
  <1>16. ASSUME NEW r \in Requests, UnpinConn(r) PROVE KeptInv'
    BY <1>16 DEF UnpinConn, Ready, To, poolVars, reqVars, Shape, LeaseInv,
       ExclusiveLease, Holds, KeptInv, LeaseKept, Evicted, MapInv, Using,
       States, NoConn
  <1>17. ASSUME NEW r \in Requests, MarkBroken(r) PROVE KeptInv'
    BY <1>17 DEF MarkBroken, Ready, To, poolVars, reqVars, Shape, LeaseInv,
       ExclusiveLease, Holds, KeptInv, LeaseKept, Evicted, MapInv, Using,
       States, NoConn
  <1>18. ASSUME NEW r \in Requests, Release(r) PROVE KeptInv'
    BY <1>18, ForgetEffect DEF Release, Fail, Ready, To, poolVars, reqVars,
       Shape, LeaseInv, ExclusiveLease, Holds, KeptInv, LeaseKept, Evicted,
       MapInv, Using, States, NoConn
  <1>19. ASSUME NEW p \in Closers, CloseEvicted(p) PROVE KeptInv'
    BY <1>19 DEF CloseEvicted, Ready, To, poolVars, reqVars, Shape,
       LeaseInv, ExclusiveLease, Holds, KeptInv, LeaseKept, Evicted, MapInv,
       Using, States, NoConn
  <1>20. ASSUME PrewarmOK PROVE KeptInv'
    BY <1>20 DEF PrewarmOK, Ready, To, poolVars, reqVars, Shape, LeaseInv,
       ExclusiveLease, Holds, KeptInv, LeaseKept, Evicted, MapInv, Using,
       States, NoConn
  <1>21. ASSUME PrewarmFails PROVE KeptInv'
    BY <1>21 DEF PrewarmFails, Ready, To, poolVars, reqVars, Shape,
       LeaseInv, ExclusiveLease, Holds, KeptInv, LeaseKept, Evicted, MapInv,
       Using, States, NoConn
  <1>22. ASSUME Sweep PROVE KeptInv'
    <2>1. PICK gone \in Cleanups :
            /\ conns' = conns \ gone
            /\ evicting' = [evicting EXCEPT ![Sweeper] = gone \ closed]
            /\ excused' = excused \cup Exposed(gone)
      BY <1>22 DEF Sweep
    <2>2. \A c \in gone : c \in closed \/ c \in token
      BY CleanupsAreIdle
    <2>3. evicting[Sweeper] = {} /\ UNCHANGED <<closed, pc, at, retry, queued>>
      BY <1>22 DEF Sweep, reqVars
    <2>4. Evicted' = Evicted \cup (gone \ closed)
      BY <2>1, <2>3 DEF Evicted, Shape, Closers
    <2>5. ASSUME NEW s \in Requests,
                 Holds(s) \/ pc[s] \in {"wait", "own", "ownWait"}, at[s] \in gone
          PROVE  at[s] \in excused'
      BY <2>1, <2>2, <2>5, ClaimsAreExposed
    <2> QED
      BY <2>1, <2>3, <2>4, <2>5 DEF KeptInv, LeaseKept, Holds
  <1>23. ASSUME PingIdle PROVE KeptInv'
    BY <1>23 DEF PingIdle, Ready, To, poolVars, reqVars, Shape, LeaseInv,
       ExclusiveLease, Holds, KeptInv, LeaseKept, Evicted, MapInv, Using,
       States, NoConn
  <1>24. ASSUME PingAnswered PROVE KeptInv'
    BY <1>24 DEF PingAnswered, Ready, To, poolVars, reqVars, Shape,
       LeaseInv, ExclusiveLease, Holds, KeptInv, LeaseKept, Evicted, MapInv,
       Using, States, NoConn
  <1>25. ASSUME Close PROVE KeptInv'
    <2> DEFINE idle == {c \in conns : ~Leased(c)}
    <2>1. /\ closed' = closed \cup idle /\ excused' = excused \cup Exposed(idle)
          /\ UNCHANGED <<pc, at, retry, queued, evicting>>
      BY <1>25 DEF Close, reqVars
    <2>2. \A c \in idle : c \in closed \/ c \in token
      BY DEF Leased
    <2>3. ASSUME NEW s \in Requests, Holds(s), at[s] \in idle
          PROVE  at[s] \in excused'
      BY <2>1, <2>2, <2>3, ClaimsAreExposed
    <2>4. Evicted' = Evicted
      BY <2>1 DEF Evicted
    <2> QED
      BY <2>1, <2>3, <2>4 DEF KeptInv, LeaseKept, Holds
  <1>26. CASE UNCHANGED vars
    BY <1>26 DEF vars, poolVars, reqVars, Shape, LeaseInv, ExclusiveLease,
       Holds, KeptInv, LeaseKept, Evicted, MapInv, Using, States, NoConn
  <1> QED
    BY <1>1, <1>2, <1>3, <1>4, <1>5, <1>6, <1>7, <1>8, <1>9, <1>10, <1>11,
       <1>12, <1>13, <1>14, <1>15, <1>16, <1>17, <1>18, <1>19, <1>20, <1>21,
       <1>22, <1>23, <1>24, <1>25, <1>26, AcquirePasses
       DEF Next, RequestStep

(* Every step keeps CapacityInv.                                           *)
LEMMA CapacityStep == Shape /\ CapacityInv /\ [Next]_vars => CapacityInv'
  <1> SUFFICES ASSUME Shape, CapacityInv, [Next]_vars
               PROVE  CapacityInv'
    OBVIOUS
  <1> USE PoolAssumption
  <1>1. ASSUME NEW r \in Requests, NEW a \in AnyAsk,
              NEW gone \in SUBSET conns, Pass(r, a, gone) PROVE CapacityInv'
    <2>1. /\ conns' = conns \ gone /\ pc[r] \in {"idle", "again"}
          /\ Outcome(r, a, conns \ gone) /\ prewarm' = prewarm
      BY <1>1 DEF Pass
    <2>2. CASE pc'[r] # "dial"
      <3>1. Dialling' = Dialling /\ creating' = creating
        BY <2>1, <2>2, OutcomeEffect DEF Dialling
      <3> QED
        BY <2>1, <3>1, NothingAdded
    <2>3. CASE pc'[r] = "dial"
      <3>1. /\ Room(conns \ gone) /\ creating' = creating + 1
            /\ Dialling' = Dialling \cup {r} /\ r \notin Dialling
        BY <2>1, <2>3, OutcomeEffect DEF Dialling
      <3>2. Cardinality(Dialling') = Cardinality(Dialling) + 1
        BY <3>1, Counts, FS_AddElement
      <3>3. Cardinality(conns \ gone) \in Nat
        BY Counts
      <3> QED
        BY <2>1, <3>1, <3>2, <3>3, Counts
           DEF Room, CapacityInv
    <2> QED
      BY <2>2, <2>3
  <1>2. ASSUME NEW r \in Requests, DialOK(r) PROVE CapacityInv'
    <2>1. Cardinality(Dialling \ {r}) = Cardinality(Dialling) - 1
           /\ Cardinality(Dialling \ {r}) \in Nat /\ Dialling' = Dialling \ {r}
      <3>1. Dialling' = Dialling \ {r} /\ r \in Dialling
        BY <1>2 DEF DialOK, Ready, To, Dialling, Shape
      <3> QED
        BY <3>1, Counts, FS_RemoveElement, FS_CardinalityType
    <2>2. Cardinality(conns \cup {dialled + 1}) = Cardinality(conns) + 1
      <3>1. dialled + 1 \notin conns
        BY DEF Shape
      <3> QED
        BY <3>1, Counts, FS_AddElement
    <2>3. /\ conns' = conns \cup {dialled + 1} /\ creating' = creating - 1
          /\ prewarm' = prewarm
      BY <1>2 DEF DialOK
    <2> QED
      BY <2>1, <2>2, <2>3, Counts DEF CapacityInv
  <1>3. ASSUME NEW r \in Requests, DialFails(r) PROVE CapacityInv'
    <2>1. Cardinality(Dialling \ {r}) = Cardinality(Dialling) - 1
           /\ Cardinality(Dialling \ {r}) \in Nat /\ Dialling' = Dialling \ {r}
      <3>1. Dialling' = Dialling \ {r} /\ r \in Dialling
        BY <1>3 DEF DialFails, Fail, Ready, To, Dialling, Shape
      <3> QED
        BY <3>1, Counts, FS_RemoveElement, FS_CardinalityType
    <2>2. conns' = conns /\ creating' = creating - 1 /\ prewarm' = prewarm
      BY <1>3 DEF DialFails
    <2> QED
      BY <2>1, <2>2, Counts DEF CapacityInv
  <1>4. ASSUME NEW r \in Requests, Own(r) PROVE CapacityInv'
    BY <1>4 DEF Own, Free, Ready, To, poolVars, reqVars, Shape, CapacityInv,
       Dialling
  <1>5. ASSUME NEW r \in Requests, OwnTake(r) PROVE CapacityInv'
    BY <1>5 DEF OwnTake, Free, Ready, To, poolVars, reqVars, Shape,
       CapacityInv, Dialling
  <1>6. ASSUME NEW r \in Requests, OwnGivesUp(r) PROVE CapacityInv'
    BY <1>6 DEF OwnGivesUp, Ready, To, poolVars, reqVars, Shape,
       CapacityInv, Dialling
  <1>7. ASSUME NEW r \in Requests, WaitTake(r) PROVE CapacityInv'
    BY <1>7 DEF WaitTake, Free, Ready, To, poolVars, reqVars, Shape,
       CapacityInv, Dialling
  <1>8. ASSUME NEW r \in Requests, WaitClosed(r) PROVE CapacityInv'
    <2>1. conns' \subseteq conns /\ UNCHANGED <<creating, prewarm>>
      BY <1>8 DEF WaitClosed, poolVars
    <2>2. Dialling' = Dialling
      BY <1>8, RetryEffect DEF WaitClosed, Dialling, Shape, Ready, To, reqVars
    <2> QED
      BY <2>1, <2>2, NothingAdded
  <1>9. ASSUME NEW r \in Requests, WaitCanceled(r) PROVE CapacityInv'
    <2>1. conns' \subseteq conns /\ UNCHANGED <<creating, prewarm>>
      BY <1>9 DEF WaitCanceled, poolVars
    <2>2. Dialling' = Dialling
      BY <1>9 DEF WaitCanceled, Dialling, Shape, Ready, To, reqVars, Fail
    <2> QED
      BY <2>1, <2>2, NothingAdded
  <1>10. ASSUME NEW r \in Requests, PingOK(r) PROVE CapacityInv'
    BY <1>10 DEF PingOK, Ready, To, poolVars, reqVars, Shape, CapacityInv,
       Dialling
  <1>11. ASSUME NEW r \in Requests, PingFails(r) PROVE CapacityInv'
    BY <1>11 DEF PingFails, Ready, To, poolVars, reqVars, Shape,
       CapacityInv, Dialling
  <1>12. ASSUME NEW r \in Requests, CloseOwn(r) PROVE CapacityInv'
    BY <1>12 DEF CloseOwn, Ready, To, poolVars, reqVars, Shape, CapacityInv,
       Dialling
  <1>13. ASSUME NEW r \in Requests, EvictOwn(r) PROVE CapacityInv'
    <2>1. conns' \subseteq conns /\ UNCHANGED <<creating, prewarm>>
      BY <1>13 DEF EvictOwn, poolVars
    <2>2. Dialling' = Dialling
      BY <1>13, RetryEffect DEF EvictOwn, Dialling, Shape, Ready, To, reqVars
    <2> QED
      BY <2>1, <2>2, NothingAdded
  <1>14. ASSUME NEW r \in Requests, Ensure(r) PROVE CapacityInv'
    <2>1. conns' = conns /\ Dialling' = Dialling
      BY <1>14 DEF Ensure, Ready, To, Dialling, Shape
    <2>2. TargetConnCount \in Int /\ TargetConnCount <= MaxConns
      BY TargetWithinLimit
    <2> DEFINE need == TargetConnCount - (Cardinality(conns) + creating)
    <2>3. CASE UNCHANGED <<creating, prewarm>>
      BY <2>1, <2>3, NothingAdded
    <2>4. CASE /\ prewarm = 0 /\ need > 0
               /\ creating' = creating + need /\ prewarm' = need
      BY <2>1, <2>2, <2>4, Counts DEF CapacityInv
    <2> QED
      BY <1>14, <2>3, <2>4 DEF Ensure
  <1>15. ASSUME NEW r \in Requests, PinConn(r) PROVE CapacityInv'
    BY <1>15 DEF PinConn, Ready, To, poolVars, reqVars, Shape, CapacityInv,
       Dialling
  <1>16. ASSUME NEW r \in Requests, UnpinConn(r) PROVE CapacityInv'
    BY <1>16 DEF UnpinConn, Ready, To, poolVars, reqVars, Shape,
       CapacityInv, Dialling
  <1>17. ASSUME NEW r \in Requests, MarkBroken(r) PROVE CapacityInv'
    <2>1. conns' \subseteq conns /\ UNCHANGED <<creating, prewarm>>
      BY <1>17 DEF MarkBroken, poolVars
    <2>2. Dialling' = Dialling
      BY <1>17 DEF MarkBroken, Dialling, Shape, Ready, To, reqVars
    <2> QED
      BY <2>1, <2>2, NothingAdded
  <1>18. ASSUME NEW r \in Requests, Release(r) PROVE CapacityInv'
    <2>1. conns' \subseteq conns /\ UNCHANGED <<creating, prewarm>>
      BY <1>18 DEF Release, poolVars
    <2>2. Dialling' = Dialling
      BY <1>18 DEF Release, Dialling, Shape, Ready, To, reqVars, Fail
    <2> QED
      BY <2>1, <2>2, NothingAdded
  <1>19. ASSUME NEW p \in Closers, CloseEvicted(p) PROVE CapacityInv'
    BY <1>19 DEF CloseEvicted, Ready, To, poolVars, reqVars, Shape,
       CapacityInv, Dialling
  <1>20. ASSUME PrewarmOK PROVE CapacityInv'
    <2>1. Dialling' = Dialling
      BY <1>20 DEF PrewarmOK, Dialling
    <2>2. Cardinality(conns \cup {dialled + 1}) = Cardinality(conns) + 1
      <3>1. dialled + 1 \notin conns
        BY DEF Shape
      <3> QED
        BY <3>1, Counts, FS_AddElement
    <2>3. /\ prewarm > 0 /\ prewarm' = prewarm - 1 /\ creating' = creating - 1
          /\ conns' \in {conns, conns \cup {dialled + 1}}
      BY <1>20 DEF PrewarmOK
    <2>4. /\ Cardinality(conns') \in Nat
          /\ Cardinality(conns') <= Cardinality(conns) + 1
      BY <2>2, <2>3, Counts
    <2>5. /\ creating \in Nat /\ prewarm \in Nat /\ Cardinality(Dialling) \in Nat
          /\ Cardinality(conns) \in Nat /\ Cardinality(conns) + creating <= MaxConns
          /\ creating = prewarm + Cardinality(Dialling)
      BY Counts DEF CapacityInv
    <2>6. creating' \in Nat /\ prewarm' \in Nat
          /\ creating' = prewarm' + Cardinality(Dialling)
      BY <2>3, <2>5
    <2>7. Cardinality(conns') + creating' <= MaxConns
      BY <2>3, <2>4, <2>5, PoolAssumption
    <2> QED
      BY <2>1, <2>6, <2>7 DEF CapacityInv
  <1>21. ASSUME PrewarmFails PROVE CapacityInv'
    <2>1. Dialling' = Dialling /\ conns' = conns
      BY <1>21 DEF PrewarmFails, Dialling
    <2> QED
      BY <1>21, <2>1, Counts DEF PrewarmFails, CapacityInv
  <1>22. ASSUME Sweep PROVE CapacityInv'
    <2>1. conns' \subseteq conns /\ UNCHANGED <<creating, prewarm>>
      BY <1>22 DEF Sweep, poolVars
    <2>2. Dialling' = Dialling
      BY <1>22 DEF Sweep, Dialling, Shape, Ready, To, reqVars
    <2> QED
      BY <2>1, <2>2, NothingAdded
  <1>23. ASSUME PingIdle PROVE CapacityInv'
    BY <1>23 DEF PingIdle, Ready, To, poolVars, reqVars, Shape, CapacityInv,
       Dialling
  <1>24. ASSUME PingAnswered PROVE CapacityInv'
    <2>1. conns' \subseteq conns /\ UNCHANGED <<creating, prewarm>>
      BY <1>24 DEF PingAnswered, poolVars
    <2>2. Dialling' = Dialling
      BY <1>24 DEF PingAnswered, Dialling, Shape, Ready, To, reqVars
    <2> QED
      BY <2>1, <2>2, NothingAdded
  <1>25. ASSUME Close PROVE CapacityInv'
    BY <1>25 DEF Close, Ready, To, poolVars, reqVars, Shape, CapacityInv,
       Dialling
  <1>26. CASE UNCHANGED vars
    BY <1>26 DEF vars, poolVars, reqVars, Shape, CapacityInv, Dialling
  <1> QED
    BY <1>1, <1>2, <1>3, <1>4, <1>5, <1>6, <1>7, <1>8, <1>9, <1>10, <1>11,
       <1>12, <1>13, <1>14, <1>15, <1>16, <1>17, <1>18, <1>19, <1>20, <1>21,
       <1>22, <1>23, <1>24, <1>25, <1>26, AcquirePasses
       DEF Next, RequestStep

-----------------------------------------------------------------------------
(* The empty pool satisfies every invariant.                               *)
LEMMA InitialInv ==
  Init => Shape /\ MapInv /\ LeaseInv /\ KeptInv /\ CapacityInv
  <1> SUFFICES ASSUME Init
               PROVE  Shape /\ MapInv /\ LeaseInv /\ KeptInv /\ CapacityInv
    OBVIOUS
  <1>1. \A r \in Requests : pc[r] = "idle"
    BY DEF Init
  <1>2. Shape
    <2>1. NoAsk \in AnyAsk
      BY PoolAssumption DEF NoAsk, AnyAsk, NoConn
    <2>2. [k \in 0..1 |-> NoConn] \in AnyQueue
      BY PoolAssumption DEF AnyQueue, NoConn
    <2>3. ask \in [Requests -> AnyAsk] /\ queued \in [Requests -> AnyQueue]
      BY <2>1, <2>2 DEF Init
    <2>4. pc \in [Requests -> States] /\ retry \in [Requests -> 0..1]
      BY DEF Init, States
    <2>5. at \in [Requests -> 0..dialled] /\ pinged \in 0..dialled
          /\ dialled \in 0..MaxDials
      BY PoolAssumption DEF Init, NoConn
    <2>6. evicting \in [Closers -> SUBSET (1..dialled)]
      BY DEF Init
    <2>7. stopped \in BOOLEAN /\ conns = {} /\ closed = {} /\ token = {} /\ excused = {}
      BY DEF Init
    <2> QED
      BY <1>1, <2>3, <2>4, <2>5, <2>6, <2>7 DEF Shape, Using
  <1>3. MapInv
    BY <1>1 DEF Init, MapInv, NoConnLeak, Evicted
  <1>4. LeaseInv
    BY <1>1 DEF LeaseInv, ExclusiveLease, Holds
  <1>5. KeptInv
    BY <1>1 DEF KeptInv, LeaseKept, Holds
  <1>6. CapacityInv
    <2>1. conns = {} /\ Dialling = {} /\ creating = 0 /\ prewarm = 0
      BY <1>1 DEF Init, Dialling
    <2> QED
      BY <2>1, FS_EmptySet, PoolAssumption DEF CapacityInv
  <1> QED
    BY <1>2, <1>3, <1>4, <1>5, <1>6

(* All of them hold throughout every behaviour.                            *)
LEMMA Invariants ==
  Spec => [](Shape /\ MapInv /\ LeaseInv /\ KeptInv /\ CapacityInv)
  BY InitialInv, ShapeStep, MapStep, LeaseStep, KeptStep, CapacityStep, PTL
     DEF Spec

(* The pool is well typed (TypeOK): no id is ever used that was not        *)
(* dialled, and the counters never become negative.                        *)
THEOREM TypeCorrect == Spec => []TypeOK
  <1>1. Shape /\ CapacityInv => TypeOK
    BY DEF Shape, CapacityInv, TypeOK, AnyAsk, AnyQueue
  <1> QED
    BY <1>1, Invariants, PTL

(* Two requests never lease the same connection (ExclusiveLease).          *)
THEOREM LeasesAreExclusive == Spec => []ExclusiveLease
  <1>1. LeaseInv => ExclusiveLease
    BY DEF LeaseInv
  <1> QED
    BY <1>1, Invariants, PTL

(* The map and the dials under way stay within the account's limit         *)
(* (CapacityKept).                                                         *)
THEOREM CapacityIsKept == Spec => []CapacityKept
  <1>1. CapacityInv => CapacityKept
    BY DEF CapacityInv, CapacityKept, Dialling
  <1> QED
    BY <1>1, Invariants, PTL

(* Every connection that left the map is closed or about to be             *)
(* (NoConnLeak).                                                           *)
THEOREM NoConnectionLeaks == Spec => []NoConnLeak
  <1>1. MapInv => NoConnLeak
    BY DEF MapInv
  <1> QED
    BY <1>1, Invariants, PTL

(* A leased connection is closed only for the reasons LeaseKept lists.     *)
THEOREM LeasesAreKept == Spec => []LeaseKept
  <1>1. KeptInv => LeaseKept
    BY DEF KeptInv
  <1> QED
    BY <1>1, Invariants, PTL
=============================================================================
