--------------------------- MODULE FailoverProofs ---------------------------
(***************************************************************************)
(* What holds of the account loop for every set of accounts and every      *)
(* limit. The bound on attempts is not inductive: Ledger says what each    *)
(* attempt was charged to, a same-account retry of that account or a       *)
(* switch, and that the last, uncharged one ends the request.              *)
(***************************************************************************)
EXTENDS Failover, TLAPS

(* The Boolean fields stay Boolean.                                        *)
LEMMA FlagsStep == FlagsOK /\ [Next]_vars => FlagsOK'
<1> SUFFICES ASSUME FlagsOK, [Next]_vars PROVE FlagsOK'
  OBVIOUS
<1>1. QED
  <2>1. ASSUME NEW a \in Accounts, SelectAcquired(a) PROVE FlagsOK'
    BY <2>1 DEF SelectAcquired, FlagsOK, reqVars, fsVars, usage,
       UpstreamErrors, needForceCacheBilling
  <2>2. ASSUME NEW a \in Accounts, SelectWait(a) PROVE FlagsOK'
    BY <2>2 DEF SelectWait, FlagsOK, reqVars, fsVars, usage,
       UpstreamErrors, needForceCacheBilling
  <2>3. ASSUME NEW a \in Accounts, SelectAnswered(a) PROVE FlagsOK'
    BY <2>3 DEF SelectAnswered, Return, FlagsOK, reqVars, fsVars, usage,
       UpstreamErrors, needForceCacheBilling
  <2>4. CASE WaitAcquired
    BY <2>4 DEF WaitAcquired, FlagsOK, reqVars, fsVars, usage,
       UpstreamErrors, needForceCacheBilling
  <2>5. CASE WaitFailed
    BY <2>5 DEF WaitFailed, Return, FlagsOK, reqVars, fsVars, usage,
       UpstreamErrors, needForceCacheBilling
  <2>6. CASE SelectNoneFirst
    BY <2>6 DEF SelectNoneFirst, Return, FlagsOK, reqVars, fsVars, usage,
       UpstreamErrors, needForceCacheBilling
  <2>7. CASE HandleSelectionExhausted
    BY <2>7 DEF HandleSelectionExhausted, Return, FlagsOK, reqVars,
       fsVars, usage, UpstreamErrors, needForceCacheBilling
  <2>8. CASE BackoffElapsed
    BY <2>8 DEF BackoffElapsed, FlagsOK, reqVars, fsVars, usage,
       UpstreamErrors, needForceCacheBilling
  <2>9. CASE ForwardSucceeded
    BY <2>9 DEF ForwardSucceeded, Return, EndForward, CountTry, FlagsOK,
       reqVars, fsVars, usage, UpstreamErrors, needForceCacheBilling
  <2>10. CASE ForwardRejected
    BY <2>10 DEF ForwardRejected, Return, EndForward, CountTry, FlagsOK,
       reqVars, fsVars, usage, UpstreamErrors, needForceCacheBilling
  <2>11. CASE FallBack
    BY <2>11 DEF FallBack, EndForward, FreshState, FlagsOK, reqVars,
       fsVars, usage, UpstreamErrors, needForceCacheBilling
  <2>12. CASE PromptTooLong
    BY <2>12 DEF PromptTooLong, Return, EndForward, CountTry, FlagsOK,
       reqVars, fsVars, usage, UpstreamErrors, needForceCacheBilling
  <2>13. CASE ForwardBroken
    BY <2>13 DEF ForwardBroken, Return, EndForward, CountTry, FlagsOK,
       reqVars, fsVars, usage, UpstreamErrors, needForceCacheBilling
  <2>14. ASSUME NEW err \in UpstreamErrors, RetrySameAccount(err) PROVE FlagsOK'
    BY <2>14 DEF RetrySameAccount, EndForward, CountTry, NoteError,
       CanRetrySame, ErrorClass, FlagsOK, reqVars, fsVars, usage,
       UpstreamErrors, needForceCacheBilling
  <2>15. ASSUME NEW err \in UpstreamErrors, SwitchAccount(err) PROVE FlagsOK'
    BY <2>15 DEF SwitchAccount, Return, EndForward, CountTry, NoteError,
       TempUnschedule, ErrorClass, FlagsOK, reqVars, fsVars, usage,
       UpstreamErrors, needForceCacheBilling
  <2>16. CASE SleepElapsed
    BY <2>16 DEF SleepElapsed, FlagsOK, reqVars, fsVars, usage,
       UpstreamErrors, needForceCacheBilling
  <2>17. CASE SleepCanceled
    BY <2>17 DEF SleepCanceled, Return, FlagsOK, reqVars, fsVars, usage,
       UpstreamErrors, needForceCacheBilling
  <2>18. CASE ClientCancel
    BY <2>18 DEF ClientCancel, FlagsOK, reqVars, fsVars, usage,
       UpstreamErrors, needForceCacheBilling
  <2>19. CASE ReleaseOnDone
    BY <2>19 DEF ReleaseOnDone, FlagsOK, reqVars, fsVars, usage,
       UpstreamErrors, needForceCacheBilling
  <2>20. CASE UNCHANGED vars
    BY <2>20 DEF vars, FlagsOK, reqVars, fsVars, usage, UpstreamErrors,
       needForceCacheBilling
  <2>21. QED
    BY <2>1, <2>2, <2>3, <2>4, <2>5, <2>6, <2>7, <2>8, <2>9, <2>10, <2>11,
       <2>12, <2>13, <2>14, <2>15, <2>16, <2>17, <2>18, <2>19, <2>20 DEF
       Next, HandlerStep

(* Counters, sets and program counter stay in range.                       *)
LEMMA StateStep == StateOK /\ [Next]_vars => StateOK'
<1> SUFFICES ASSUME StateOK, [Next]_vars PROVE StateOK'
  OBVIOUS
<1> USE FailoverAssumption
<1>1. QED
  <2>1. ASSUME NEW a \in Accounts, SelectAcquired(a) PROVE StateOK'
    BY <2>1 DEF SelectAcquired, StateOK, fsVars, history, usage,
       UpstreamErrors, Statuses
  <2>2. ASSUME NEW a \in Accounts, SelectWait(a) PROVE StateOK'
    BY <2>2 DEF SelectWait, StateOK, fsVars, history, usage,
       UpstreamErrors, Statuses
  <2>3. ASSUME NEW a \in Accounts, SelectAnswered(a) PROVE StateOK'
    BY <2>3 DEF SelectAnswered, Return, StateOK, fsVars, history, usage,
       UpstreamErrors, Statuses
  <2>4. CASE WaitAcquired
    BY <2>4 DEF WaitAcquired, StateOK, fsVars, history, usage,
       UpstreamErrors, Statuses
  <2>5. CASE WaitFailed
    BY <2>5 DEF WaitFailed, Return, StateOK, fsVars, history, usage,
       UpstreamErrors, Statuses
  <2>6. CASE SelectNoneFirst
    BY <2>6 DEF SelectNoneFirst, Return, StateOK, fsVars, history, usage,
       UpstreamErrors, Statuses
  <2>7. CASE HandleSelectionExhausted
    BY <2>7 DEF HandleSelectionExhausted, Return, StateOK, fsVars,
       history, usage, UpstreamErrors, Statuses
  <2>8. CASE BackoffElapsed
    BY <2>8 DEF BackoffElapsed, StateOK, fsVars, history, usage,
       UpstreamErrors, Statuses
  <2>9. CASE ForwardSucceeded
    BY <2>9 DEF ForwardSucceeded, Return, EndForward, CountTry, StateOK,
       fsVars, history, usage, UpstreamErrors, Statuses
  <2>10. CASE ForwardRejected
    BY <2>10 DEF ForwardRejected, Return, EndForward, CountTry, StateOK,
       fsVars, history, usage, UpstreamErrors, Statuses
  <2>11. CASE FallBack
    BY <2>11 DEF FallBack, EndForward, FreshState, StateOK, fsVars,
       history, usage, UpstreamErrors, Statuses
  <2>12. CASE PromptTooLong
    BY <2>12 DEF PromptTooLong, Return, EndForward, CountTry, StateOK,
       fsVars, history, usage, UpstreamErrors, Statuses
  <2>13. CASE ForwardBroken
    BY <2>13 DEF ForwardBroken, Return, EndForward, CountTry, StateOK,
       fsVars, history, usage, UpstreamErrors, Statuses
  <2>14. ASSUME NEW err \in UpstreamErrors, RetrySameAccount(err) PROVE StateOK'
    BY <2>14 DEF RetrySameAccount, EndForward, CountTry, NoteError,
       CanRetrySame, ErrorClass, StateOK, fsVars, history, usage,
       UpstreamErrors, Statuses
  <2>15. ASSUME NEW err \in UpstreamErrors, SwitchAccount(err) PROVE StateOK'
    BY <2>15 DEF SwitchAccount, Return, EndForward, CountTry, NoteError,
       TempUnschedule, ErrorClass, StateOK, fsVars, history, usage,
       UpstreamErrors, Statuses
  <2>16. CASE SleepElapsed
    BY <2>16 DEF SleepElapsed, StateOK, fsVars, history, usage,
       UpstreamErrors, Statuses
  <2>17. CASE SleepCanceled
    BY <2>17 DEF SleepCanceled, Return, StateOK, fsVars, history, usage,
       UpstreamErrors, Statuses
  <2>18. CASE ClientCancel
    BY <2>18 DEF ClientCancel, StateOK, fsVars, history, usage,
       UpstreamErrors, Statuses
  <2>19. CASE ReleaseOnDone
    BY <2>19 DEF ReleaseOnDone, StateOK, fsVars, history, usage,
       UpstreamErrors, Statuses
  <2>20. CASE UNCHANGED vars
    BY <2>20 DEF vars, StateOK, fsVars, history, usage, UpstreamErrors,
       Statuses
  <2>21. QED
    BY <2>1, <2>2, <2>3, <2>4, <2>5, <2>6, <2>7, <2>8, <2>9, <2>10, <2>11,
       <2>12, <2>13, <2>14, <2>15, <2>16, <2>17, <2>18, <2>19, <2>20 DEF
       Next, HandlerStep

(* TypeOK is inductive: in particular SwitchCount never passes MaxSwitches *)
(* and no account is retried in place more often than the limit.           *)
THEOREM TypeCorrect == Spec => []TypeOK
<1>1. Init => FlagsOK
  BY DEF Init, FlagsOK
<1>2. Init => StateOK
  BY FailoverAssumption DEF Init, StateOK
<1>3. TypeOK /\ [Next]_vars => TypeOK'
  BY FlagsStep, StateStep DEF TypeOK
<1>4. QED
  BY <1>1, <1>2, <1>3, PTL DEF Spec, TypeOK

-----------------------------------------------------------------------------
(* What an attempt on a was charged to; every retry was an attempt.        *)
Ledger ==
    \A a \in Accounts :
        /\ SameAccountRetryCount[a] <= tries[a]
        /\ tries[a] <= SameAccountRetryCount[a] + SwitchCount
                       + (IF pc = "done" THEN 1 ELSE 0)

(* Every step keeps the ledger balanced.                                   *)
LEMMA LedgerStep == StateOK /\ Ledger /\ [Next]_vars => Ledger'
<1> SUFFICES ASSUME StateOK, Ledger, [Next]_vars PROVE Ledger'
  OBVIOUS
<1> USE FailoverAssumption
<1>1. QED
  <2>1. ASSUME NEW a \in Accounts, SelectAcquired(a) PROVE Ledger'
    BY <2>1 DEF SelectAcquired, StateOK, Ledger, fsVars, history
  <2>2. ASSUME NEW a \in Accounts, SelectWait(a) PROVE Ledger'
    BY <2>2 DEF SelectWait, StateOK, Ledger, fsVars, history
  <2>3. ASSUME NEW a \in Accounts, SelectAnswered(a) PROVE Ledger'
    BY <2>3 DEF SelectAnswered, Return, StateOK, Ledger, fsVars, history
  <2>4. CASE WaitAcquired
    BY <2>4 DEF WaitAcquired, StateOK, Ledger, fsVars, history
  <2>5. CASE WaitFailed
    BY <2>5 DEF WaitFailed, Return, StateOK, Ledger, fsVars, history
  <2>6. CASE SelectNoneFirst
    BY <2>6 DEF SelectNoneFirst, Return, StateOK, Ledger, fsVars, history
  <2>7. CASE HandleSelectionExhausted
    BY <2>7 DEF HandleSelectionExhausted, Return, StateOK, Ledger, fsVars,
       history
  <2>8. CASE BackoffElapsed
    BY <2>8 DEF BackoffElapsed, StateOK, Ledger, fsVars, history
  <2>9. CASE ForwardSucceeded
    BY <2>9 DEF ForwardSucceeded, Return, EndForward, CountTry, StateOK,
       Ledger, fsVars, history
  <2>10. CASE ForwardRejected
    BY <2>10 DEF ForwardRejected, Return, EndForward, CountTry, StateOK,
       Ledger, fsVars, history
  <2>11. CASE FallBack
    BY <2>11 DEF FallBack, EndForward, FreshState, StateOK, Ledger,
       fsVars, history
  <2>12. CASE PromptTooLong
    BY <2>12 DEF PromptTooLong, Return, EndForward, CountTry, StateOK,
       Ledger, fsVars, history
  <2>13. CASE ForwardBroken
    BY <2>13 DEF ForwardBroken, Return, EndForward, CountTry, StateOK,
       Ledger, fsVars, history
  <2>14. ASSUME NEW err \in UpstreamErrors, RetrySameAccount(err) PROVE Ledger'
    BY <2>14 DEF RetrySameAccount, EndForward, CountTry, NoteError,
       CanRetrySame, ErrorClass, StateOK, Ledger, fsVars, history
  <2>15. ASSUME NEW err \in UpstreamErrors, SwitchAccount(err) PROVE Ledger'
    BY <2>15 DEF SwitchAccount, Return, EndForward, CountTry, NoteError,
       TempUnschedule, ErrorClass, StateOK, Ledger, fsVars, history
  <2>16. CASE SleepElapsed
    BY <2>16 DEF SleepElapsed, StateOK, Ledger, fsVars, history
  <2>17. CASE SleepCanceled
    BY <2>17 DEF SleepCanceled, Return, StateOK, Ledger, fsVars, history
  <2>18. CASE ClientCancel
    BY <2>18 DEF ClientCancel, StateOK, Ledger, fsVars, history
  <2>19. CASE ReleaseOnDone
    BY <2>19 DEF ReleaseOnDone, StateOK, Ledger, fsVars, history
  <2>20. CASE UNCHANGED vars
    BY <2>20 DEF vars, StateOK, Ledger, fsVars, history
  <2>21. QED
    BY <2>1, <2>2, <2>3, <2>4, <2>5, <2>6, <2>7, <2>8, <2>9, <2>10, <2>11,
       <2>12, <2>13, <2>14, <2>15, <2>16, <2>17, <2>18, <2>19, <2>20 DEF
       Next, HandlerStep

(* One FailoverState sends a request to an account a bounded number of     *)
(* times, whatever selection and the upstream do and however often the     *)
(* 503 back-off of HandleSelectionExhausted empties the exclusion list.    *)
THEOREM AttemptsAreBounded == Spec => []AttemptsBounded
<1>1. Init => Ledger
  BY DEF Init, Ledger
<1>2. StateOK /\ Ledger => AttemptsBounded
  BY FailoverAssumption DEF StateOK, Ledger, AttemptsBounded
<1>3. QED
  BY <1>1, <1>2, TypeCorrect, LedgerStep, PTL DEF Spec, TypeOK

(* An account is taken out of scheduling only after one attempt more than  *)
(* MaxSameAccountRetries (UnscheduledAfterRetries): the retries that the   *)
(* limit counts were attempts, and the one that failed now comes on top.   *)
THEOREM UnscheduledOnlyAfterRetries == Spec => UnscheduledAfterRetries
<1> DEFINE Due == \A a \in unscheduled' \ unscheduled : tries'[a] > MaxSameAccountRetries
<1>1. Init => Ledger
  BY DEF Init, Ledger
<1>2. StateOK /\ Ledger /\ [Next]_vars => [Due]_vars
  <2> SUFFICES ASSUME StateOK, Ledger, [Next]_vars, unscheduled' # unscheduled
               PROVE  Due
    BY DEF vars
  <2>1. PICK err \in UpstreamErrors : SwitchAccount(err)
    BY DEF Next, HandlerStep, SelectAcquired, SelectWait, SelectAnswered,
       WaitAcquired, WaitFailed, SelectNoneFirst, HandleSelectionExhausted,
       BackoffElapsed, ForwardSucceeded, ForwardRejected, ForwardBroken,
       FallBack, PromptTooLong, RetrySameAccount, SleepElapsed, SleepCanceled,
       ClientCancel, ReleaseOnDone, vars
  <2>2. /\ unscheduled' = unscheduled \union {account}
        /\ account \in Accounts
        /\ SameAccountRetryCount[account] >= MaxSameAccountRetries
    BY <2>1, FailoverAssumption
       DEF SwitchAccount, EndForward, TempUnschedule, CanRetrySame, StateOK
  <2>3. tries'[account] = tries[account] + 1
    BY <2>1, <2>2 DEF SwitchAccount, CountTry, StateOK
  <2> QED
    BY <2>2, <2>3, FailoverAssumption DEF Ledger, StateOK
<1>3. QED
  BY <1>1, <1>2, TypeCorrect, LedgerStep, PTL DEF Spec, TypeOK, UnscheduledAfterRetries

-----------------------------------------------------------------------------
(* Content and slot together: both are tied to the forward in progress.    *)
OneForwardAtATime == NoStreamSplicing /\ SlotOnlyWhileForwarding

(* No step leaves a slot behind or continues after content was sent.       *)
LEMMA ForwardStep ==
    StateOK /\ OneForwardAtATime /\ [Next]_vars => OneForwardAtATime'
<1> SUFFICES ASSUME StateOK, OneForwardAtATime, [Next]_vars
             PROVE  OneForwardAtATime'
  OBVIOUS
<1>1. QED
  <2>1. ASSUME NEW a \in Accounts, SelectAcquired(a) PROVE OneForwardAtATime'
    BY <2>1 DEF SelectAcquired, StateOK, OneForwardAtATime,
       NoStreamSplicing, SlotOnlyWhileForwarding, history
  <2>2. ASSUME NEW a \in Accounts, SelectWait(a) PROVE OneForwardAtATime'
    BY <2>2 DEF SelectWait, StateOK, OneForwardAtATime, NoStreamSplicing,
       SlotOnlyWhileForwarding, history
  <2>3. ASSUME NEW a \in Accounts, SelectAnswered(a) PROVE OneForwardAtATime'
    BY <2>3 DEF SelectAnswered, Return, StateOK, OneForwardAtATime,
       NoStreamSplicing, SlotOnlyWhileForwarding, history
  <2>4. CASE WaitAcquired
    BY <2>4 DEF WaitAcquired, StateOK, OneForwardAtATime,
       NoStreamSplicing, SlotOnlyWhileForwarding, history
  <2>5. CASE WaitFailed
    BY <2>5 DEF WaitFailed, Return, StateOK, OneForwardAtATime,
       NoStreamSplicing, SlotOnlyWhileForwarding, history
  <2>6. CASE SelectNoneFirst
    BY <2>6 DEF SelectNoneFirst, Return, StateOK, OneForwardAtATime,
       NoStreamSplicing, SlotOnlyWhileForwarding, history
  <2>7. CASE HandleSelectionExhausted
    BY <2>7 DEF HandleSelectionExhausted, Return, StateOK,
       OneForwardAtATime, NoStreamSplicing, SlotOnlyWhileForwarding,
       history
  <2>8. CASE BackoffElapsed
    BY <2>8 DEF BackoffElapsed, StateOK, OneForwardAtATime,
       NoStreamSplicing, SlotOnlyWhileForwarding, history
  <2>9. CASE ForwardSucceeded
    BY <2>9 DEF ForwardSucceeded, Return, EndForward, CountTry, StateOK,
       OneForwardAtATime, NoStreamSplicing, SlotOnlyWhileForwarding,
       history
  <2>10. CASE ForwardRejected
    BY <2>10 DEF ForwardRejected, Return, EndForward, CountTry, StateOK,
       OneForwardAtATime, NoStreamSplicing, SlotOnlyWhileForwarding,
       history
  <2>11. CASE FallBack
    BY <2>11 DEF FallBack, EndForward, FreshState, StateOK,
       OneForwardAtATime, NoStreamSplicing, SlotOnlyWhileForwarding,
       history
  <2>12. CASE PromptTooLong
    BY <2>12 DEF PromptTooLong, Return, EndForward, CountTry, StateOK,
       OneForwardAtATime, NoStreamSplicing, SlotOnlyWhileForwarding,
       history
  <2>13. CASE ForwardBroken
    BY <2>13 DEF ForwardBroken, Return, EndForward, CountTry, StateOK,
       OneForwardAtATime, NoStreamSplicing, SlotOnlyWhileForwarding,
       history
  <2>14. ASSUME NEW err \in UpstreamErrors, RetrySameAccount(err) PROVE OneForwardAtATime'
    BY <2>14 DEF RetrySameAccount, EndForward, CountTry, NoteError,
       CanRetrySame, ErrorClass, StateOK, OneForwardAtATime,
       NoStreamSplicing, SlotOnlyWhileForwarding, history
  <2>15. ASSUME NEW err \in UpstreamErrors, SwitchAccount(err) PROVE OneForwardAtATime'
    BY <2>15 DEF SwitchAccount, Return, EndForward, CountTry, NoteError,
       TempUnschedule, ErrorClass, StateOK, OneForwardAtATime,
       NoStreamSplicing, SlotOnlyWhileForwarding, history
  <2>16. CASE SleepElapsed
    BY <2>16 DEF SleepElapsed, StateOK, OneForwardAtATime,
       NoStreamSplicing, SlotOnlyWhileForwarding, history
  <2>17. CASE SleepCanceled
    BY <2>17 DEF SleepCanceled, Return, StateOK, OneForwardAtATime,
       NoStreamSplicing, SlotOnlyWhileForwarding, history
  <2>18. CASE ClientCancel
    BY <2>18 DEF ClientCancel, StateOK, OneForwardAtATime,
       NoStreamSplicing, SlotOnlyWhileForwarding, history
  <2>19. CASE ReleaseOnDone
    BY <2>19 DEF ReleaseOnDone, StateOK, OneForwardAtATime,
       NoStreamSplicing, SlotOnlyWhileForwarding, history
  <2>20. CASE UNCHANGED vars
    BY <2>20 DEF vars, StateOK, OneForwardAtATime, NoStreamSplicing,
       SlotOnlyWhileForwarding, history
  <2>21. QED
    BY <2>1, <2>2, <2>3, <2>4, <2>5, <2>6, <2>7, <2>8, <2>9, <2>10, <2>11,
       <2>12, <2>13, <2>14, <2>15, <2>16, <2>17, <2>18, <2>19, <2>20 DEF
       Next, HandlerStep

(* The client never gets content of two forwards.                          *)
THEOREM StreamsAreNeverSpliced == Spec => []NoStreamSplicing
<1>1. Init => OneForwardAtATime
  BY DEF Init, OneForwardAtATime, NoStreamSplicing, SlotOnlyWhileForwarding
<1>2. OneForwardAtATime => NoStreamSplicing
  BY DEF OneForwardAtATime
<1>3. QED
  BY <1>1, <1>2, TypeCorrect, ForwardStep, PTL DEF Spec, TypeOK

(* A slot is held only for the forward in progress.                        *)
THEOREM SlotsFollowForwards == Spec => []SlotOnlyWhileForwarding
<1>1. Init => OneForwardAtATime
  BY DEF Init, OneForwardAtATime, NoStreamSplicing, SlotOnlyWhileForwarding
<1>2. OneForwardAtATime => SlotOnlyWhileForwarding
  BY DEF OneForwardAtATime
<1>3. QED
  BY <1>1, <1>2, TypeCorrect, ForwardStep, PTL DEF Spec, TypeOK
-----------------------------------------------------------------------------
(* While the handler runs nothing has been answered or recorded, and what  *)
(* it recorded in the end belongs to its answer.                           *)
AnswerInv ==
    /\ pc # "done" => response = "none" /\ usageRecords = 0
    /\ usageRecords = (IF response = "ok" THEN 1 ELSE 0)

(* Every step keeps the answer and the record together.                    *)
LEMMA AnswerStep == StateOK /\ AnswerInv /\ [Next]_vars => AnswerInv'
<1> SUFFICES ASSUME StateOK, AnswerInv, [Next]_vars PROVE AnswerInv'
  OBVIOUS
<1>1. QED
  <2>1. ASSUME NEW a \in Accounts, SelectAcquired(a) PROVE AnswerInv'
    BY <2>1 DEF SelectAcquired, AnswerInv, StateOK,
       usage
  <2>2. ASSUME NEW a \in Accounts, SelectWait(a) PROVE AnswerInv'
    BY <2>2 DEF SelectWait, AnswerInv, StateOK, usage
  <2>3. ASSUME NEW a \in Accounts, SelectAnswered(a) PROVE AnswerInv'
    BY <2>3 DEF SelectAnswered, Return, AnswerInv,
       StateOK, usage
  <2>4. CASE WaitAcquired
    BY <2>4 DEF WaitAcquired, AnswerInv, StateOK,
       usage
  <2>5. CASE WaitFailed
    BY <2>5 DEF WaitFailed, Return, AnswerInv,
       StateOK, usage
  <2>6. CASE SelectNoneFirst
    BY <2>6 DEF SelectNoneFirst, Return, AnswerInv,
       StateOK, usage
  <2>7. CASE HandleSelectionExhausted
    BY <2>7 DEF HandleSelectionExhausted, Return, AnswerInv, StateOK, usage
  <2>8. CASE BackoffElapsed
    BY <2>8 DEF BackoffElapsed, AnswerInv, StateOK,
       usage
  <2>9. CASE ForwardSucceeded
    BY <2>9 DEF ForwardSucceeded, Return, EndForward, AnswerInv, StateOK, usage
  <2>10. CASE ForwardRejected
    BY <2>10 DEF ForwardRejected, Return, EndForward, AnswerInv, StateOK, usage
  <2>11. CASE FallBack
    BY <2>11 DEF FallBack, EndForward, FreshState, AnswerInv, StateOK, usage
  <2>12. CASE PromptTooLong
    BY <2>12 DEF PromptTooLong, Return, EndForward, AnswerInv, StateOK, usage
  <2>13. CASE ForwardBroken
    BY <2>13 DEF ForwardBroken, Return, EndForward, AnswerInv, StateOK, usage
  <2>14. ASSUME NEW err \in UpstreamErrors, RetrySameAccount(err)
        PROVE  AnswerInv'
    BY <2>14 DEF RetrySameAccount, EndForward, NoteError, AnswerInv, StateOK, usage
  <2>15. ASSUME NEW err \in UpstreamErrors, SwitchAccount(err)
        PROVE  AnswerInv'
    BY <2>15 DEF SwitchAccount, Return, EndForward, NoteError, AnswerInv, StateOK, usage
  <2>16. CASE SleepElapsed
    BY <2>16 DEF SleepElapsed, AnswerInv, StateOK,
       usage
  <2>17. CASE SleepCanceled
    BY <2>17 DEF SleepCanceled, Return, AnswerInv,
       StateOK, usage
  <2>18. CASE ClientCancel
    BY <2>18 DEF ClientCancel, AnswerInv, StateOK,
       usage
  <2>19. CASE ReleaseOnDone
    BY <2>19 DEF ReleaseOnDone, AnswerInv, StateOK,
       usage
  <2>20. CASE UNCHANGED vars
    BY <2>20 DEF vars, AnswerInv, StateOK, usage
  <2>21. QED
    BY <2>1, <2>2, <2>3, <2>4, <2>5, <2>6, <2>7, <2>8, <2>9, <2>10, <2>11,
       <2>12, <2>13, <2>14, <2>15, <2>16, <2>17, <2>18, <2>19, <2>20 DEF
       Next, HandlerStep

-----------------------------------------------------------------------------
(* The errors handled so far ask for cache billing.                        *)
CacheBillingAsked ==
    \/ hasBoundSession /\ failures # {}
    \/ "forcing" \in failures

(* The sticky flag of FailoverState says just that, and the record carries *)
(* its value at the answer.                                                *)
BillingInv ==
    /\ ForceCacheBilling <=> CacheBillingAsked
    /\ response = "ok" => (billedAsCache <=> CacheBillingAsked)

(* An error adds to the flag what it adds to the errors handled.           *)
LEMMA NoteErrorKeepsFlag ==
  ASSUME FlagsOK, ForceCacheBilling <=> CacheBillingAsked,
         hasBoundSession' = hasBoundSession,
         NEW err \in UpstreamErrors, NoteError(err)
  PROVE  ForceCacheBilling' <=> CacheBillingAsked'
<1>1. /\ failures' = failures \union {ErrorClass(err)}
      /\ ForceCacheBilling' <=> (ForceCacheBilling \/ hasBoundSession
                                 \/ err.ForceCacheBilling)
  BY DEF NoteError, needForceCacheBilling
<1>2. CASE err.ForceCacheBilling
  <2>1. "forcing" \in failures'
    BY <1>1, <1>2 DEF ErrorClass
  <2>2. QED
    BY <1>1, <1>2, <2>1 DEF CacheBillingAsked
<1>3. CASE ~err.ForceCacheBilling
  <2>1. ErrorClass(err) = "plain"
    BY <1>3 DEF ErrorClass
  <2>2. /\ failures' # {}
        /\ "forcing" \in failures' <=> "forcing" \in failures
    BY <1>1, <2>1
  <2>3. QED
    BY <1>1, <1>3, <2>2 DEF CacheBillingAsked
<1>4. QED
  BY <1>2, <1>3

(* Every step keeps the flag, the errors and the record in agreement.      *)
LEMMA BillingStep ==
    TypeOK /\ AnswerInv /\ BillingInv /\ [Next]_vars => BillingInv'
<1> SUFFICES ASSUME TypeOK, AnswerInv, BillingInv, [Next]_vars
             PROVE  BillingInv'
  OBVIOUS
<1>1. QED
  <2>1. ASSUME NEW a \in Accounts, SelectAcquired(a) PROVE BillingInv'
    BY <2>1 DEF SelectAcquired, AnswerInv, BillingInv, CacheBillingAsked,
       reqVars, fsVars, usage, history
  <2>2. ASSUME NEW a \in Accounts, SelectWait(a) PROVE BillingInv'
    BY <2>2 DEF SelectWait, AnswerInv, BillingInv, CacheBillingAsked,
       reqVars, fsVars, usage, history
  <2>3. ASSUME NEW a \in Accounts, SelectAnswered(a) PROVE BillingInv'
    BY <2>3 DEF SelectAnswered, Return, AnswerInv, BillingInv,
       CacheBillingAsked, reqVars, fsVars, usage, history
  <2>4. CASE WaitAcquired
    BY <2>4 DEF WaitAcquired, AnswerInv, BillingInv, CacheBillingAsked,
       reqVars, fsVars, usage, history
  <2>5. CASE WaitFailed
    BY <2>5 DEF WaitFailed, Return, AnswerInv, BillingInv,
       CacheBillingAsked, reqVars, fsVars, usage, history
  <2>6. CASE SelectNoneFirst
    BY <2>6 DEF SelectNoneFirst, Return, AnswerInv, BillingInv,
       CacheBillingAsked, reqVars, fsVars, usage, history
  <2>7. CASE HandleSelectionExhausted
    BY <2>7 DEF HandleSelectionExhausted, Return, AnswerInv, BillingInv,
       CacheBillingAsked, reqVars, fsVars, usage, history
  <2>8. CASE BackoffElapsed
    BY <2>8 DEF BackoffElapsed, AnswerInv, BillingInv, CacheBillingAsked,
       reqVars, fsVars, usage, history
  <2>9. CASE ForwardSucceeded
    BY <2>9 DEF ForwardSucceeded, Return, EndForward, AnswerInv,
       BillingInv, CacheBillingAsked, reqVars, fsVars, usage, history
  <2>10. CASE ForwardRejected
    BY <2>10 DEF ForwardRejected, Return, EndForward, AnswerInv,
       BillingInv, CacheBillingAsked, reqVars, fsVars, usage, history
  <2>11. CASE FallBack
    BY <2>11 DEF FallBack, EndForward, FreshState, AnswerInv, BillingInv,
       CacheBillingAsked, reqVars, fsVars, usage, history
  <2>12. CASE PromptTooLong
    BY <2>12 DEF PromptTooLong, Return, EndForward, AnswerInv, BillingInv,
       CacheBillingAsked, reqVars, fsVars, usage, history
  <2>13. CASE ForwardBroken
    BY <2>13 DEF ForwardBroken, Return, EndForward, AnswerInv, BillingInv,
       CacheBillingAsked, reqVars, fsVars, usage, history
  <2>14. ASSUME NEW err \in UpstreamErrors, RetrySameAccount(err)
        PROVE  BillingInv'
    <3>1. /\ hasBoundSession' = hasBoundSession
          /\ NoteError(err)
          /\ response' # "ok"
      BY <2>14 DEF RetrySameAccount, EndForward, AnswerInv, reqVars
    <3>2. QED
      BY <3>1, NoteErrorKeepsFlag DEF TypeOK, BillingInv
  <2>15. ASSUME NEW err \in UpstreamErrors, SwitchAccount(err)
        PROVE  BillingInv'
    <3>1. /\ hasBoundSession' = hasBoundSession
          /\ NoteError(err)
          /\ response' # "ok"
      BY <2>15 DEF SwitchAccount, Return, EndForward, AnswerInv, reqVars
    <3>2. QED
      BY <3>1, NoteErrorKeepsFlag DEF TypeOK, BillingInv
  <2>16. CASE SleepElapsed
    BY <2>16 DEF SleepElapsed, AnswerInv, BillingInv, CacheBillingAsked,
       reqVars, fsVars, usage, history
  <2>17. CASE SleepCanceled
    BY <2>17 DEF SleepCanceled, Return, AnswerInv, BillingInv,
       CacheBillingAsked, reqVars, fsVars, usage, history
  <2>18. CASE ClientCancel
    BY <2>18 DEF ClientCancel, AnswerInv, BillingInv, CacheBillingAsked,
       reqVars, fsVars, usage, history
  <2>19. CASE ReleaseOnDone
    BY <2>19 DEF ReleaseOnDone, AnswerInv, BillingInv, CacheBillingAsked,
       reqVars, fsVars, usage, history
  <2>20. CASE UNCHANGED vars
    BY <2>20 DEF vars, AnswerInv, BillingInv, CacheBillingAsked, reqVars,
       fsVars, usage, history
  <2>21. QED
    BY <2>1, <2>2, <2>3, <2>4, <2>5, <2>6, <2>7, <2>8, <2>9, <2>10, <2>11,
       <2>12, <2>13, <2>14, <2>15, <2>16, <2>17, <2>18, <2>19, <2>20 DEF
       Next, HandlerStep

(* A usage record exists exactly for a request answered "ok", and bills    *)
(* cache reads exactly when an error was handled for a bound session, or   *)
(* one asked for it, in the current FailoverState (UsageMatchesOutcome).   *)
THEOREM UsageFollowsOutcome == Spec => []UsageMatchesOutcome
<1>1. Init => AnswerInv /\ BillingInv
  BY DEF Init, AnswerInv, BillingInv, CacheBillingAsked
<1>2. AnswerInv /\ BillingInv => UsageMatchesOutcome
  BY DEF AnswerInv, BillingInv, CacheBillingAsked, UsageMatchesOutcome
<1>3. QED
  BY <1>1, <1>2, TypeCorrect, AnswerStep, BillingStep, PTL DEF Spec, TypeOK
=============================================================================
