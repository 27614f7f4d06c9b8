---------------------------- MODULE BillingBreaker --------------------------
(***************************************************************************)
(* billingCircuitBreaker (service/billing_cache_service.go): it stands in  *)
(* front of the balance and subscription checks of every request. A check  *)
(* that was let through reports its result once, at any later time, and    *)
(* the breaker may have changed state any number of times by then.         *)
(***************************************************************************)
EXTENDS Naturals, FiniteSets

CONSTANTS
    Handlers,            \* request handlers; each serves one request after another
    FailureThreshold,
    HalfOpenRequests

ASSUME BreakerAssumption ==
    /\ IsFiniteSet(Handlers)
    /\ FailureThreshold \in Nat \ {0}
    /\ HalfOpenRequests \in Nat \ {0}

VARIABLES
    state,               \* "closed", "open", "half-open"
    failures,
    halfOpenRemaining,
    elapsed,             \* resetTimeout has passed since openedAt
    running,             \* handlers between Allow and their report
    probes               \* history: those let through in this half-open period

breaker == <<state, failures, halfOpenRemaining, elapsed>>
breakerVars == <<breaker, running, probes>>

BreakerInit ==
    /\ state = "closed" /\ failures = 0 /\ halfOpenRemaining = 0
    /\ elapsed = FALSE
    /\ running = {} /\ probes = {}

(***************************************************************************)
(* Allow                                                                   *)
(***************************************************************************)
AllowClosed(r) ==
    /\ state = "closed"
    /\ r \notin running
    /\ running' = running \cup {r}
    /\ UNCHANGED <<breaker, probes>>

(* Mutant: an open breaker goes on refusing after the timeout.             *)
AllowOpenRefuses(r) ==
    /\ state = "open" /\ elapsed
    /\ r \notin running
    /\ UNCHANGED breakerVars

(* The first one after the timeout enters half-open and takes a token.     *)
AllowOpen(r) ==
    /\ state = "open" /\ elapsed
    /\ r \notin running
    /\ state' = "half-open"
    /\ halfOpenRemaining' = HalfOpenRequests - 1
    /\ running' = running \cup {r}
    /\ probes' = {r}
    /\ UNCHANGED <<failures, elapsed>>

(* Mutant: the token is not taken.                                         *)
AllowHalfOpenFree(r) ==
    /\ state = "half-open" /\ halfOpenRemaining > 0
    /\ r \notin running
    /\ running' = running \cup {r}
    /\ probes' = probes \cup {r}
    /\ UNCHANGED breaker

AllowHalfOpen(r) ==
    /\ state = "half-open" /\ halfOpenRemaining > 0
    /\ r \notin running
    /\ halfOpenRemaining' = halfOpenRemaining - 1
    /\ running' = running \cup {r}
    /\ probes' = probes \cup {r}
    /\ UNCHANGED <<state, failures, elapsed>>

(* ErrBillingServiceUnavailable: the request ends there.                   *)
Refuse(r) ==
    /\ r \notin running
    /\ \/ state = "open" /\ ~elapsed
       \/ state = "half-open" /\ halfOpenRemaining = 0
    /\ UNCHANGED breakerVars

(***************************************************************************)
(* OnFailure                                                               *)
(***************************************************************************)
Open ==
    /\ state' = "open" /\ elapsed' = FALSE
    /\ halfOpenRemaining' = 0
    /\ probes' = {}

OnFailureClosed ==
    /\ state = "closed"
    /\ failures' = failures + 1
    /\ IF failures' >= FailureThreshold
       THEN Open
       ELSE UNCHANGED <<state, halfOpenRemaining, elapsed, probes>>

OnFailureHalfOpen == state = "half-open" /\ Open /\ UNCHANGED failures

OnFailureOpen == state = "open" /\ UNCHANGED <<breaker, probes>>

(* Any error counts: of Redis and Postgres, but also an unknown user or    *)
(* subscription, or the end of the request's own context.                  *)
OnFailure(r) ==
    /\ r \in running
    /\ running' = running \ {r}
    /\ OnFailureClosed \/ OnFailureHalfOpen \/ OnFailureOpen

(* Mutant: failures is not reset.                                          *)
CloseKeepsFailures ==
    /\ state' = "closed" /\ halfOpenRemaining' = 0
    /\ probes' = {}
    /\ UNCHANGED <<elapsed, failures>>

Close ==
    /\ state' = "closed" /\ failures' = 0 /\ halfOpenRemaining' = 0
    /\ probes' = {}
    /\ UNCHANGED elapsed

(* OnSuccess closes the breaker whatever its state: a check that began     *)
(* before it opened and ends well also counts.                             *)
OnSuccess(r) ==
    /\ r \in running
    /\ running' = running \ {r}
    /\ Close

(* resetTimeout passes.                                                    *)
Elapse ==
    /\ state = "open" /\ ~elapsed
    /\ elapsed' = TRUE
    /\ UNCHANGED <<state, failures, halfOpenRemaining, running, probes>>

Allow(r) == AllowClosed(r) \/ AllowOpen(r) \/ AllowHalfOpen(r)
Report(r) == OnFailure(r) \/ OnSuccess(r)

BreakerNext ==
    \/ \E r \in Handlers : Allow(r) \/ Refuse(r) \/ Report(r)
    \/ Elapse

(* Requests keep arriving, every check ends (each has a timeout), and time *)
(* passes.                                                                 *)
BreakerSpec ==
    /\ BreakerInit /\ [][BreakerNext]_breakerVars
    /\ \A r \in Handlers : WF_breakerVars(Allow(r)) /\ WF_breakerVars(Report(r))
    /\ WF_breakerVars(Elapse)

-----------------------------------------------------------------------------
BreakerTypeOK ==
    /\ state \in {"closed", "open", "half-open"}
    /\ failures \in 0..FailureThreshold
    /\ halfOpenRemaining \in 0..(HalfOpenRequests - 1)
    /\ elapsed \in BOOLEAN
    /\ running \subseteq Handlers /\ probes \subseteq Handlers

(* A half-open period lets through HalfOpenRequests checks and no more,    *)
(* and while it lasts none of them has reported: the first report, even a  *)
(* late one of an earlier period, ends it. So a breaker without tokens has *)
(* a check running that will move it on: it cannot refuse for ever.        *)
ProbesPending ==
    state = "half-open" =>
        /\ probes \subseteq running /\ probes # {}
        /\ Cardinality(probes) + halfOpenRemaining = HalfOpenRequests

(* A closed breaker is never at its threshold, however it was closed: the  *)
(* failures of an earlier outage do not count in the next one.             *)
ClosedBelowThreshold == state = "closed" => failures < FailureThreshold

(* When checks stop failing, for whatever reason they did, the breaker     *)
(* ends up closed for good: no order of late reports, used-up tokens and   *)
(* timeouts keeps it open or half-open. (Nothing more holds: failures with *)
(* a healthy store open it again.)                                         *)
Recovers ==
    <>[][\A r \in Handlers : ~OnFailure(r)]_breakerVars => <>[](state = "closed")
=============================================================================
