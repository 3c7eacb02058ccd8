---------------------------- MODULE HedgePolicy ----------------------------
(***************************************************************************)
(* A hedged execution (hedgepolicy/hedgeexecutor.go) whose policy shares   *)
(* its budget with other executions.  Its function does not call           *)
(* DeferCancel, which module Execution models.                             *)
(*                                                                         *)
(* The goroutine of the execution starts attempts, each in a goroutine of  *)
(* its own and with a child context of its own, and collects their results *)
(* from a buffered channel until one is final, all are in, or the parent   *)
(* execution is canceled.  Attempts that are left behind go on until their *)
(* functions notice that they are canceled.                                *)
(***************************************************************************)
EXTENDS Budget, Sequences

CONSTANTS
    maxHedges,
    Conditions    \* for each CancelOn and CancelIf call of the builder, what its condition matches

FnValues == {"ok", "fail"}
Values   == FnValues \cup {"ctx.Err", "timeout.ErrExceeded"}

\* Values that are errors come with the zero result.
ResultOf(v) == IF v = "ok" THEN v ELSE "zero"
ErrorOf(v)  == IF v = "ok" THEN "nil" ELSE v

CancelOnResult(res)  == {v \in Values : ResultOf(v) = res}
CancelOnErrors(errs) == {v \in Values : ErrorOf(v) \in errs}
CancelIf(predicate)  == {v \in Values : predicate[v]}

\* Build: without conditions any result ends hedging.
Final == UNION (IF Conditions = {} THEN {CancelIf([v \in Values |-> TRUE])} ELSE Conditions)

ASSUME HedgeAssumption == maxHedges \in Nat /\ Conditions \subseteq SUBSET Values

Attempts == 0..maxHedges
None     == -1            \* no attempt: a nil *execResult

VARIABLES
    pc,               \* the execution's goroutine
    timed,            \* it waits with a timer
    attempt,          \* where each attempt is
    value,            \* what its function returned
    ctxDone,          \* attempts whose own context was canceled
    resultChan,       \* the attempts whose results are in the channel, oldest first
    lastResult,       \* the attempt whose result was received last
    result,           \* the attempt whose result awaitResult returned, or None
    cancelIdx,        \* the next attempt to cancel
    parentDone,       \* the parent's context is done
    canceledResult,   \* *e.canceledResult
    answer            \* the value that the executor returns

hedgeVars == <<pc, timed, attempt, value, ctxDone, resultChan, lastResult, result, cancelIdx,
               parentDone, canceledResult, answer>>

vars == <<budgetVars, hedgeVars>>

\* An attempt's goroutine: "released" is between the two steps of ReleasePermit, "sent" in the
\* channel, "received" taken out of it.
AttemptStates == {"none", "running", "released", "sent", "received"}

PCs == {"idle", "await", "checkCanceled", "acquire", "cancel", "return", "done"}

Started  == {i \in Attempts : attempt[i] # "none"}

AttemptDone(i) == parentDone \/ i \in ctxDone

Init ==
    /\ BudgetInit
    /\ pc = "idle"
    /\ timed = FALSE
    /\ attempt = [i \in Attempts |-> "none"]
    /\ value = [i \in Attempts |-> "nil"]
    /\ ctxDone = {}
    /\ resultChan = <<>>
    /\ lastResult = None
    /\ result = None
    /\ cancelIdx = 0
    /\ parentDone = FALSE
    /\ canceledResult = "nil"
    /\ answer = "nil"

-----------------------------------------------------------------------------
(***************************************************************************)
(* Starting attempts.  The delay function decides whether the goroutine    *)
(* waits with a timer, except after the last attempt.                      *)
(***************************************************************************)
StartAttempt(i) ==
    /\ attempt' = [attempt EXCEPT ![i] = "running"]
    /\ timed' \in (IF i < maxHedges THEN BOOLEAN ELSE {FALSE})
    /\ pc' = "await"

Start ==
    /\ pc = "idle"
    /\ RecordExecution
    /\ StartAttempt(0)
    /\ UNCHANGED <<inflight, acquire, seen, retry, value, ctxDone, resultChan, lastResult, result,
                   cancelIdx, parentDone, canceledResult, answer>>

\* CopyForHedge
StartHedge ==
    /\ pc = "acquire"
    /\ acquire[Hedger] = "granted"
    /\ acquire' = [acquire EXCEPT ![Hedger] = "idle"]
    /\ StartAttempt(Cardinality(Started))
    /\ UNCHANGED <<executions, inflight, seen, retry, value, ctxDone, resultChan, lastResult, result,
                   cancelIdx, parentDone, canceledResult, answer>>

\* "Stop hedging when the hedge budget is exceeded"
HedgeRejected ==
    /\ pc = "acquire"
    /\ acquire[Hedger] = "rejected"
    /\ acquire' = [acquire EXCEPT ![Hedger] = "idle"]
    /\ timed' = FALSE
    /\ pc' = "await"
    /\ UNCHANGED <<executions, inflight, seen, retry, attempt, value, ctxDone, resultChan, lastResult,
                   result, cancelIdx, parentDone, canceledResult, answer>>

HedgeAcquires ==
    /\ pc = "acquire"
    /\ TryAcquirePermit(Hedger)
    /\ UNCHANGED hedgeVars

(***************************************************************************)
(* An attempt's goroutine: the function returns, a hedge gives its permit  *)
(* back, and the result is sent to a channel that has room for all.        *)
(***************************************************************************)
FnReturns(i, v) ==
    /\ attempt[i] = "running"
    /\ v = "ctx.Err" => AttemptDone(i)
    /\ value' = [value EXCEPT ![i] = v]
    /\ IF i = 0
       THEN /\ attempt' = [attempt EXCEPT ![i] = "sent"]
            /\ resultChan' = Append(resultChan, i)
            /\ UNCHANGED inflight
       ELSE /\ attempt' = [attempt EXCEPT ![i] = "released"]
            /\ inflight' = inflight - 1
            /\ UNCHANGED resultChan
    /\ UNCHANGED <<executions, acquire, seen, retry, pc, timed, ctxDone, lastResult, result, cancelIdx,
                   parentDone, canceledResult, answer>>

SendResult_PermitKept(i) ==
    /\ attempt[i] = "released"
    /\ attempt' = [attempt EXCEPT ![i] = "sent"]
    /\ resultChan' = Append(resultChan, i)
    /\ UNCHANGED <<executions, inflight, acquire, seen, retry, pc, timed, value, ctxDone, lastResult,
                   result, cancelIdx, parentDone, canceledResult, answer>>

SendResult(i) ==
    /\ attempt[i] = "released"
    /\ ReleaseExecution
    /\ attempt' = [attempt EXCEPT ![i] = "sent"]
    /\ resultChan' = Append(resultChan, i)
    /\ UNCHANGED <<inflight, acquire, seen, retry, pc, timed, value, ctxDone, lastResult, result,
                   cancelIdx, parentDone, canceledResult, answer>>

-----------------------------------------------------------------------------
(***************************************************************************)
(* awaitResult.                                                            *)
(***************************************************************************)
TimerFires ==
    /\ pc = "await"
    /\ timed
    /\ result' = None
    /\ pc' = "checkCanceled"
    /\ UNCHANGED <<budgetVars, timed, attempt, value, ctxDone, resultChan, lastResult, cancelIdx,
                   parentDone, canceledResult, answer>>

\* result.final
EndsHedging_OnlyWhenTimed(i) == timed /\ value[i] \in Final

EndsHedging(i) == value[i] \in Final

Receive ==
    /\ pc = "await"
    /\ resultChan # <<>>
    /\ LET i == Head(resultChan)
       IN  /\ attempt' = [attempt EXCEPT ![i] = "received"]
           /\ lastResult' = i
           /\ IF EndsHedging(i)
              THEN result' = i /\ pc' = "checkCanceled"
              ELSE UNCHANGED <<result, pc>>
    /\ resultChan' = Tail(resultChan)
    /\ UNCHANGED <<budgetVars, timed, value, ctxDone, cancelIdx, parentDone, canceledResult, answer>>

\* completed < started
Outstanding_IgnoresLast == Cardinality({i \in Started : attempt[i] # "received"}) > 1

Outstanding == \E i \in Started : attempt[i] # "received"

AllReceived ==
    /\ pc = "await"
    /\ ~timed
    /\ ~Outstanding
    /\ result' = lastResult
    /\ pc' = "checkCanceled"
    /\ UNCHANGED <<budgetVars, timed, attempt, value, ctxDone, resultChan, lastResult, cancelIdx,
                   parentDone, canceledResult, answer>>

(***************************************************************************)
(* The parent is canceled, or the result ends the execution, or the next   *)
(* hedge is due.                                                           *)
(***************************************************************************)
CheckCanceled ==
    /\ pc = "checkCanceled"
    /\ \/ /\ parentDone
          /\ answer' = IF canceledResult = "nil" THEN "ctx.Err" ELSE canceledResult
          /\ pc' = "return"
          /\ UNCHANGED acquire
       \/ ~parentDone /\ result # None /\ pc' = "cancel" /\ UNCHANGED <<answer, acquire>>
       \/ ~parentDone /\ result = None /\ pc' = "acquire" /\ LoadInflight(Hedger) /\ UNCHANGED answer
    /\ UNCHANGED <<executions, inflight, seen, retry, timed, attempt, value, ctxDone, resultChan,
                   lastResult, result, cancelIdx, parentDone, canceledResult>>

\* Cancel for each attempt, the winner's without a result.
LastToCancel_OffByOne == maxHedges - 1

LastToCancel == maxHedges

CancelAttempt ==
    /\ pc = "cancel"
    /\ cancelIdx <= LastToCancel
    /\ IF cancelIdx \in Started /\ ~AttemptDone(cancelIdx)
       THEN /\ ctxDone' = ctxDone \cup {cancelIdx}
            /\ canceledResult' = IF cancelIdx = result THEN canceledResult ELSE value[result]
       ELSE UNCHANGED <<ctxDone, canceledResult>>
    /\ cancelIdx' = cancelIdx + 1
    /\ UNCHANGED <<budgetVars, pc, timed, attempt, value, resultChan, lastResult, result, parentDone,
                   answer>>

AllCanceled ==
    /\ pc = "cancel"
    /\ cancelIdx > LastToCancel
    /\ answer' = value[result]
    /\ pc' = "return"
    /\ UNCHANGED <<budgetVars, timed, attempt, value, ctxDone, resultChan, lastResult, result,
                   cancelIdx, parentDone, canceledResult>>

\* The deferred ReleaseExecution.
Return ==
    /\ pc = "return"
    /\ ReleaseExecution
    /\ pc' = "done"
    /\ UNCHANGED <<inflight, acquire, seen, retry, timed, attempt, value, ctxDone, resultChan,
                   lastResult, result, cancelIdx, parentDone, canceledResult, answer>>

\* The parent is canceled: by the owner of its context, or by a timeout around the hedge policy.
CancelParent(r) ==
    /\ ~parentDone
    /\ parentDone' = TRUE
    /\ canceledResult' = IF r = "nil" THEN canceledResult ELSE r
    /\ UNCHANGED <<budgetVars, pc, timed, attempt, value, ctxDone, resultChan, lastResult, result,
                   cancelIdx, answer>>

-----------------------------------------------------------------------------
HedgeStep ==
    \/ Start \/ HedgeAcquires \/ StartHedge \/ HedgeRejected
    \/ TimerFires \/ Receive \/ AllReceived
    \/ CheckCanceled \/ CancelAttempt \/ AllCanceled \/ Return

FnStep(i) == \E v \in FnValues \cup {"ctx.Err"} : FnReturns(i, v)

OtherStep(u) == RetryStep(u) /\ UNCHANGED hedgeVars

OtherStarts(u) == RetryStarts(u) /\ UNCHANGED hedgeVars

Next ==
    \/ HedgeStep
    \/ \E i \in Attempts : FnStep(i) \/ SendResult(i)
    \/ \E r \in {"nil", "timeout.ErrExceeded"} : CancelParent(r)
    \/ \E u \in RetryUsers : OtherStarts(u) \/ OtherStep(u)

Spec == Init /\ [][Next]_vars

(***************************************************************************)
(* Goroutines are scheduled and timers fire.  A function only returns for  *)
(* sure when its context is done; other executions need not start.         *)
(***************************************************************************)
Fairness ==
    /\ WF_vars(HedgeStep)
    /\ \A i \in Attempts : WF_vars(FnStep(i) /\ AttemptDone(i)) /\ WF_vars(SendResult(i))

LiveSpec == Spec /\ Fairness

-----------------------------------------------------------------------------
(***************************************************************************)
(* Properties.                                                             *)
(***************************************************************************)
\* Types.  The counters are never negative: nothing is given back that was not counted.
TypeOK ==
    /\ executions \in Nat /\ inflight \in Nat
    /\ acquire \in [Users -> Acquires]
    /\ seen \in [Users -> Nat]
    /\ retry \in [RetryUsers -> Retries]
    /\ pc \in PCs
    /\ timed \in BOOLEAN
    /\ attempt \in [Attempts -> AttemptStates]
    /\ value \in [Attempts -> Values \cup {"nil"}]
    /\ ctxDone \subseteq Attempts
    /\ resultChan \in Seq(Attempts)
    /\ lastResult \in Attempts \cup {None}
    /\ result \in Attempts \cup {None}
    /\ cancelIdx \in 0..maxHedges + 1
    /\ parentDone \in BOOLEAN
    /\ canceledResult \in Values \cup {"nil"}
    /\ answer \in Values \cup {"nil"}

Hedges == 1..maxHedges

(***************************************************************************)
(* No interleaving of the unlocked counter updates of executions, retries  *)
(* and hedges loses or leaks a count: not an early return, a hedge that    *)
(* outlives its execution, or a canceled parent.                           *)
(***************************************************************************)
BudgetBalanced ==
    LET retrying == {u \in RetryUsers : retry[u] = "retrying"}
        releasing == {u \in RetryUsers : retry[u] = "releasing"}
        calls    == {u \in RetryUsers : retry[u] # "idle"}
        hedging  == {i \in Hedges : attempt[i] = "running"}
        released == {i \in Hedges : attempt[i] = "released"}
        adding   == {u \in Users : acquire[u] = "addExecutions"}
        granted  == {u \in Users : acquire[u] = "granted"}
        permits  == Cardinality(retrying) + Cardinality(hedging) + Cardinality(granted)
    IN  /\ inflight = permits + Cardinality(adding)
        /\ executions = permits + Cardinality(calls) + (IF pc \in {"idle", "done"} THEN 0 ELSE 1)
                        + Cardinality(releasing) + Cardinality(released)

(***************************************************************************)
(* The check in TryAcquirePermit and the increment after it are not        *)
(* atomic, so the budget may be exceeded, but by no more than one permit   *)
(* for each other user that checks at the same time.                       *)
(***************************************************************************)
BudgetOvershootBounded ==
    LET mostExecutions == Cardinality(Users) + Cardinality(RetryUsers) + maxHedges
        byRate         == (maxRate * mostExecutions) \div 100 + 1
        budgeted       == IF minConcurrency > byRate THEN minConcurrency ELSE byRate
    IN  inflight <= budgeted + Cardinality(Users) - 1

(***************************************************************************)
(* A result that does not end hedging is the answer only when no attempt   *)
(* is left that could still give a better one: none is running, and none   *)
(* waits in the channel.                                                   *)
(***************************************************************************)
NonFinalAnswerOnlyWhenAllIn ==
    pc = "cancel" /\ value[result] \notin Final =>
        \A i \in Attempts : attempt[i] \in {"none", "received"}

(***************************************************************************)
(* "Return result and cancel all attempts to cleanup their context         *)
(* references": no attempt goes on with a live context after the hedge     *)
(* policy returned, whichever attempt won and whenever the parent was      *)
(* canceled.                                                               *)
(***************************************************************************)
NoAttemptOutlivesTheCall ==
    pc \in {"return", "done"} => \A i \in Started : AttemptDone(i)

(***************************************************************************)
(* A hedged execution ends once its parent is canceled or one attempt has  *)
(* a final result, even when the functions of the others never return,     *)
(* the budget rejects its hedges, or results arrive while it does not      *)
(* wait for them.                                                          *)
(***************************************************************************)
HedgingEnds ==
    (pc = "await" /\ (parentDone \/ \E i \in Attempts : attempt[i] = "sent" /\ value[i] \in Final))
        ~> pc = "done"

=============================================================================
