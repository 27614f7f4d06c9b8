------------------------------ MODULE Failover ------------------------------
(***************************************************************************)
(* One gateway request inside the account loop of GatewayHandler.Messages  *)
(* (handler/gateway_handler.go) and the FailoverState it drives            *)
(* (handler/failover_loop.go): pick an account, get its slot (at once or   *)
(* after waiting), forward, and on an upstream failover error retry on the *)
(* same account, switch account, back off, or give up.                     *)
(*                                                                         *)
(* The account selection, the upstream and the client are the environment: *)
(* selection may return any account that is not excluded, or none; a       *)
(* forward may end in any way; the client may disconnect at any moment.    *)
(* SelectAccountWithLoadAwareness returns an account the loop has already  *)
(* put in FailedAccountIDs in no case: the set is its exclusion argument.  *)
(***************************************************************************)
EXTENDS Integers, FiniteSets

CONSTANTS
    Accounts,              \* upstream accounts of the groups of this request
    Antigravity,           \* those on the Antigravity platform
    MaxSwitches,           \* FailoverState.MaxSwitches
    MaxSameAccountRetries, \* maxSameAccountRetries (3 in the code)
    NoAccount

ASSUME FailoverAssumption ==
    /\ IsFiniteSet(Accounts)
    /\ Antigravity \subseteq Accounts
    /\ MaxSwitches \in Nat
    /\ MaxSameAccountRetries \in Nat
    /\ NoAccount \notin Accounts

(* Status codes the loop tells apart; 0 is "no failover error yet".        *)
Statuses == {400, 429, 502, 503}
UpstreamErrors == [StatusCode : Statuses, RetryableOnSameAccount : BOOLEAN,
                   ForceCacheBilling : BOOLEAN]

VARIABLES
    pc,                    \* where the handler is
    hasBoundSession,       \* fixed when the handler looked the session up
    hasFallbackGroup,      \* the group names a fallback group
    fallbackUsed,
    SwitchCount, FailedAccountIDs, SameAccountRetryCount, LastFailoverErr,
    ForceCacheBilling,     \* the fields of FailoverState
    account,               \* the selected account
    slots,                 \* accounts whose slot this request holds
    unscheduled,           \* accounts temporarily unscheduled on its behalf
    canceled,              \* the request context is done
    response,              \* how the client was answered
    usageRecords,          \* usage record tasks submitted
    billedAsCache,         \* ForceCacheBilling of the last one
    tries,                 \* history: forwards per account, this FailoverState
    failures,              \* history: classes of the errors it handled
    content                \* history: forwards whose content reached the client

fsVars == <<SwitchCount, FailedAccountIDs, SameAccountRetryCount,
            LastFailoverErr, ForceCacheBilling>>
reqVars == <<hasBoundSession, hasFallbackGroup>>
usage == <<usageRecords, billedAsCache>>
history == <<tries, failures, content>>
vars == <<pc, reqVars, fallbackUsed, fsVars, account, slots, unscheduled,
          canceled, response, usage, history>>

(***************************************************************************)
(* NewFailoverState                                                        *)
(***************************************************************************)
FreshState ==
    /\ SwitchCount' = 0
    /\ FailedAccountIDs' = {}
    /\ SameAccountRetryCount' = [a \in Accounts |-> 0]
    /\ LastFailoverErr' = 0
    /\ ForceCacheBilling' = FALSE
    /\ tries' = [a \in Accounts |-> 0]
    /\ failures' = {}

Init ==
    /\ pc = "select"
    /\ hasBoundSession \in BOOLEAN
    /\ hasFallbackGroup \in BOOLEAN
    /\ fallbackUsed = FALSE
    /\ SwitchCount = 0
    /\ FailedAccountIDs = {}
    /\ SameAccountRetryCount = [a \in Accounts |-> 0]
    /\ LastFailoverErr = 0
    /\ ForceCacheBilling = FALSE
    /\ account = NoAccount
    /\ slots = {}
    /\ unscheduled = {}
    /\ canceled = FALSE
    /\ response = "none"
    /\ usageRecords = 0
    /\ billedAsCache = FALSE
    /\ tries = [a \in Accounts |-> 0]
    /\ failures = {}
    /\ content = 0

(* The handler returns; "none" is a return that writes nothing.            *)
Return(r) ==
    /\ pc' = "done"
    /\ response' = r

(***************************************************************************)
(* Selection                                                               *)
(***************************************************************************)
(* A slot came with the account.                                           *)
SelectAcquired(a) ==
    /\ pc = "select"
    /\ a \notin FailedAccountIDs
    /\ account' = a
    /\ slots' = slots \union {a}
    /\ pc' = "forward"
    /\ UNCHANGED <<reqVars, fallbackUsed, fsVars, unscheduled, canceled,
                   response, usage, history>>

(* No slot free, but a wait plan: the request joins the account's queue.   *)
SelectWait(a) ==
    /\ pc = "select"
    /\ a \notin FailedAccountIDs
    /\ account' = a
    /\ pc' = "wait"
    /\ UNCHANGED <<reqVars, fallbackUsed, fsVars, slots, unscheduled, canceled,
                   response, usage, history>>

(* A warm-up request is answered with a mock, its slot given back; or no   *)
(* slot and no wait plan.                                                  *)
SelectAnswered(a) ==
    /\ pc = "select"
    /\ a \notin FailedAccountIDs
    /\ account' = a
    /\ \E r \in {"mock", "error"} : Return(r)
    /\ UNCHANGED <<reqVars, fallbackUsed, fsVars, slots, unscheduled, canceled,
                   usage, history>>

WaitAcquired ==
    /\ pc = "wait"
    /\ slots' = slots \union {account}
    /\ pc' = "forward"
    /\ UNCHANGED <<reqVars, fallbackUsed, fsVars, account, unscheduled,
                   canceled, response, usage, history>>

(* Queue full, wait timeout, or context done while waiting.                *)
WaitFailed ==
    /\ pc = "wait"
    /\ Return("error")
    /\ UNCHANGED <<reqVars, fallbackUsed, fsVars, account, slots, unscheduled,
                   canceled, usage, history>>

SelectNoneFirst ==
    /\ pc = "select"
    /\ FailedAccountIDs = {}
    /\ Return("error")
    /\ UNCHANGED <<reqVars, fallbackUsed, fsVars, account, slots, unscheduled,
                   canceled, usage, history>>

(* HandleSelectionExhausted: only a 503 is worth a back-off.               *)
BackoffAllowed == LastFailoverErr = 503 /\ SwitchCount <= MaxSwitches

HandleSelectionExhausted ==
    /\ pc = "select"
    /\ FailedAccountIDs # {}
    /\ IF BackoffAllowed
       THEN pc' = "backoff" /\ UNCHANGED response
       ELSE Return("error")
    /\ UNCHANGED <<reqVars, fallbackUsed, fsVars, account, slots, unscheduled,
                   canceled, usage, history>>

(* Mutant: forgets to empty the exclusion list.                            *)
BackoffElapsedKeepsList ==
    /\ pc = "backoff"
    /\ ~canceled
    /\ pc' = "select"
    /\ UNCHANGED <<reqVars, fallbackUsed, fsVars, account, slots,
                   unscheduled, canceled, response, usage, history>>

(* Mutant: starts the same-account retries over as well.                   *)
BackoffElapsedResetsRetries ==
    /\ pc = "backoff"
    /\ ~canceled
    /\ FailedAccountIDs' = {}
    /\ SameAccountRetryCount' = [a \in Accounts |-> 0]
    /\ pc' = "select"
    /\ UNCHANGED <<reqVars, fallbackUsed, SwitchCount, LastFailoverErr,
                   ForceCacheBilling, account, slots, unscheduled, canceled,
                   response, usage, history>>

BackoffElapsed ==
    /\ pc = "backoff"
    /\ ~canceled
    /\ FailedAccountIDs' = {}
    /\ pc' = "select"
    /\ UNCHANGED <<reqVars, fallbackUsed, SwitchCount, SameAccountRetryCount,
                   LastFailoverErr, ForceCacheBilling, account, slots,
                   unscheduled, canceled, response, usage, history>>

(* Mutant: leaves the slot to the end of the request.                      *)
EndForwardKeepsSlot == pc = "forward" /\ UNCHANGED slots

(***************************************************************************)
(* Forwarding. Whatever the result, the account slot is given back first.  *)
(***************************************************************************)
EndForward ==
    /\ pc = "forward"
    /\ slots' = slots \ {account}

CountTry == tries' = [tries EXCEPT ![account] = @ + 1]

ForwardSucceeded ==
    /\ EndForward
    /\ CountTry
    /\ content' = content + 1
    /\ usageRecords' = usageRecords + 1
    /\ billedAsCache' = ForceCacheBilling
    /\ Return("ok")
    /\ UNCHANGED <<reqVars, fallbackUsed, fsVars, account, unscheduled,
                   canceled, failures>>

(* Blocked by beta policy, or an error that is no failover error.          *)
ForwardRejected ==
    /\ EndForward
    /\ CountTry
    /\ content' \in {content, content + 1}
    /\ Return("error")
    /\ UNCHANGED <<reqVars, fallbackUsed, fsVars, account, unscheduled,
                   canceled, usage, failures>>

(* PromptTooLongError: once, and only with a usable fallback group, start  *)
(* over in that group with a fresh FailoverState.                          *)
FallBack ==
    /\ EndForward
    /\ ~fallbackUsed
    /\ hasFallbackGroup
    /\ fallbackUsed' = TRUE
    /\ FreshState
    /\ pc' = "select"
    /\ UNCHANGED <<reqVars, account, unscheduled, canceled, response, usage,
                   content>>

(* PromptTooLongError without one: none named or already used, unknown or  *)
(* unsuitable, or the user may not be billed for it.                       *)
PromptTooLong ==
    /\ EndForward
    /\ CountTry
    /\ Return("error")
    /\ UNCHANGED <<reqVars, fallbackUsed, fsVars, account, unscheduled,
                   canceled, usage, failures, content>>

(* Mutant: fails over although content was sent.                           *)
ForwardBrokenContinues ==
    /\ EndForward
    /\ CountTry
    /\ content' = content + 1
    /\ pc' = "select"
    /\ UNCHANGED <<reqVars, fallbackUsed, fsVars, account, unscheduled,
                   canceled, response, usage, failures>>

(* Content already sent cannot be taken back: no failover.                 *)
ForwardBroken ==
    /\ EndForward
    /\ CountTry
    /\ content' = content + 1
    /\ Return("error")
    /\ UNCHANGED <<reqVars, fallbackUsed, fsVars, account, unscheduled,
                   canceled, usage, failures>>

(***************************************************************************)
(* HandleFailoverError                                                     *)
(***************************************************************************)
ErrorClass(err) == IF err.ForceCacheBilling THEN "forcing" ELSE "plain"

needForceCacheBilling(err) == hasBoundSession \/ err.ForceCacheBilling

(* Mutant: the flag follows the last error only.                           *)
NoteErrorNotSticky(err) ==
    /\ LastFailoverErr' = err.StatusCode
    /\ ForceCacheBilling' = needForceCacheBilling(err)
    /\ failures' = failures \union {ErrorClass(err)}

NoteError(err) ==
    /\ LastFailoverErr' = err.StatusCode
    /\ ForceCacheBilling' = (ForceCacheBilling \/ needForceCacheBilling(err))
    /\ failures' = failures \union {ErrorClass(err)}

(* Mutant: the first attempt counts as a retry.                            *)
CanRetrySameOnceLess(err) ==
    /\ err.RetryableOnSameAccount
    /\ SameAccountRetryCount[account] + 1 < MaxSameAccountRetries

CanRetrySame(err) ==
    /\ err.RetryableOnSameAccount
    /\ SameAccountRetryCount[account] < MaxSameAccountRetries

RetrySameAccount(err) ==
    /\ EndForward
    /\ CountTry
    /\ NoteError(err)
    /\ CanRetrySame(err)
    /\ SameAccountRetryCount' = [SameAccountRetryCount EXCEPT ![account] = @ + 1]
    /\ pc' = "sleep"
    /\ UNCHANGED <<reqVars, fallbackUsed, SwitchCount, FailedAccountIDs, account,
                   unscheduled, canceled, response, usage, content>>

(* TempUnscheduleRetryableError acts on two status codes only.             *)
TempUnschedule(err) ==
    unscheduled' = IF err.RetryableOnSameAccount /\ err.StatusCode \in {400, 502}
                   THEN unscheduled \union {account}
                   ELSE unscheduled

SwitchAccount(err) ==
    /\ EndForward
    /\ CountTry
    /\ NoteError(err)
    /\ ~CanRetrySame(err)
    /\ TempUnschedule(err)
    /\ FailedAccountIDs' = FailedAccountIDs \union {account}
    /\ \/ /\ SwitchCount >= MaxSwitches
          /\ Return("error")
          /\ UNCHANGED SwitchCount
       \/ /\ SwitchCount < MaxSwitches
          /\ SwitchCount' = SwitchCount + 1
          /\ pc' = IF account \in Antigravity /\ SwitchCount > 0
                   THEN "sleep" ELSE "select"
          /\ UNCHANGED response
    /\ UNCHANGED <<reqVars, fallbackUsed, SameAccountRetryCount, account,
                   canceled, usage, content>>

SleepElapsed ==
    /\ pc = "sleep"
    /\ ~canceled
    /\ pc' = "select"
    /\ UNCHANGED <<reqVars, fallbackUsed, fsVars, account, slots, unscheduled,
                   canceled, response, usage, history>>

(***************************************************************************)
(* Disconnects: sleepWithContext returns at once, and wrapReleaseOnDone    *)
(* gives the slot back while the forward may still be running.             *)
(***************************************************************************)
ClientCancel ==
    /\ pc # "done"
    /\ ~canceled
    /\ canceled' = TRUE
    /\ UNCHANGED <<pc, reqVars, fallbackUsed, fsVars, account, slots,
                   unscheduled, response, usage, history>>

ReleaseOnDone ==
    /\ canceled
    /\ slots # {}
    /\ slots' = {}
    /\ UNCHANGED <<pc, reqVars, fallbackUsed, fsVars, account, unscheduled,
                   canceled, response, usage, history>>

SleepCanceled ==
    /\ pc \in {"sleep", "backoff"}
    /\ canceled
    /\ Return("none")
    /\ UNCHANGED <<reqVars, fallbackUsed, fsVars, account, slots, unscheduled,
                   canceled, usage, history>>

HandlerStep ==
    \/ \E a \in Accounts :
          SelectAcquired(a) \/ SelectWait(a) \/ SelectAnswered(a)
    \/ WaitAcquired \/ WaitFailed
    \/ SelectNoneFirst \/ HandleSelectionExhausted \/ BackoffElapsed
    \/ ForwardSucceeded \/ ForwardRejected \/ ForwardBroken
    \/ FallBack \/ PromptTooLong
    \/ \E err \in UpstreamErrors : RetrySameAccount(err) \/ SwitchAccount(err)
    \/ SleepElapsed \/ SleepCanceled

Next == HandlerStep \/ ClientCancel \/ ReleaseOnDone

(* Every call the handler makes returns (each has a deadline or follows    *)
(* the request context), so the handler keeps taking steps.                *)
Spec == Init /\ [][Next]_vars /\ WF_vars(HandlerStep)

-----------------------------------------------------------------------------
FlagsOK ==
    /\ hasBoundSession \in BOOLEAN
    /\ hasFallbackGroup \in BOOLEAN
    /\ fallbackUsed \in BOOLEAN
    /\ ForceCacheBilling \in BOOLEAN
    /\ canceled \in BOOLEAN
    /\ billedAsCache \in BOOLEAN

StateOK ==
    /\ pc \in {"select", "wait", "forward", "sleep", "backoff", "done"}
    /\ SwitchCount \in 0..MaxSwitches
    /\ FailedAccountIDs \in SUBSET Accounts
    /\ SameAccountRetryCount \in [Accounts -> 0..MaxSameAccountRetries]
    /\ LastFailoverErr \in Statuses \union {0}
    /\ account \in Accounts \union {NoAccount}
    /\ (pc \in {"wait", "forward"} => account \in Accounts)
    /\ slots \in SUBSET Accounts
    /\ unscheduled \in SUBSET Accounts
    /\ response \in {"none", "ok", "mock", "error"}
    /\ usageRecords \in Nat
    /\ tries \in [Accounts -> Nat]
    /\ failures \in SUBSET {"plain", "forcing"}
    /\ content \in Nat

TypeOK == FlagsOK /\ StateOK

(* However selection and the upstream behave, one FailoverState sends a    *)
(* request to one account at most MaxSameAccountRetries + MaxSwitches + 1  *)
(* times, although the 503 back-off of HandleSelectionExhausted empties    *)
(* the exclusion list without counting a switch.                           *)
AttemptsBounded ==
    \A a \in Accounts : tries[a] <= MaxSameAccountRetries + MaxSwitches + 1

(* The client never receives content of two forwards: a failover happens   *)
(* only while the failed forward has written nothing (writerSizeBefore-    *)
(* Forward), and no path continues after a forward that wrote.             *)
NoStreamSplicing ==
    /\ content <= 1
    /\ content = 1 => pc = "done"

(* The only slot a request can hold is that of the account it is           *)
(* forwarding to: every failover, fallback, back-off and return finds the  *)
(* slot already given back.                                                *)
SlotOnlyWhileForwarding ==
    slots # {} => pc = "forward" /\ slots = {account}

(* A usage record exists exactly for a request answered "ok". It bills     *)
(* input as cache reads exactly when the request has a bound session and   *)
(* any error was handled, one followed by a retry in place included, or    *)
(* some error, not only the last one, asked for it; errors of before the   *)
(* fallback group do not count.                                            *)
UsageMatchesOutcome ==
    /\ usageRecords = (IF response = "ok" THEN 1 ELSE 0)
    /\ response = "ok" =>
         (billedAsCache <=> \/ hasBoundSession /\ failures # {}
                            \/ "forcing" \in failures)

(* An account is taken out of scheduling, for all requests, only after it  *)
(* has failed one FailoverState more than MaxSameAccountRetries times,     *)
(* however the attempts on it were mixed with other accounts, back-offs    *)
(* and the fallback group.                                                 *)
UnscheduledAfterRetries ==
    [][\A a \in unscheduled' \ unscheduled : tries'[a] > MaxSameAccountRetries]_vars

(* The loop ends: neither same-account retries, account switches, 503      *)
(* back-offs nor the fallback group can keep a request in it forever.      *)
Terminates == <>(pc = "done")

(* What the comment of needForceCacheBilling says: cache billing is for a  *)
(* sticky session that switches accounts, or an upstream that asks for it. *)
(* Not an invariant: any error of a bound session turns it on, also one    *)
(* retried in place.                                                       *)
CacheBilledAfterSwitch ==
    billedAsCache =>
        (\E a \in Accounts \ {account} : tries[a] > 0) \/ "forcing" \in failures

(* What the comment of HandleFailoverError says: an error that may pass is *)
(* retried on the same account first. Not an invariant: the retry selects  *)
(* again and may get another account.                                      *)
RetriedOnSameAccount ==
    SwitchCount = 0 => \A a, b \in Accounts : tries[a] > 0 /\ tries[b] > 0 => a = b
=============================================================================
