----------------------------- MODULE Execution -----------------------------
(***************************************************************************)
(* One execution through a stack of composed policies: the executor        *)
(* (executor.go), the shared state of an execution and its copies          *)
(* (execution.go), its asynchronous result (result.go), and the executors  *)
(* of the policies that retry, cancel or replace what they surround        *)
(* (retrypolicy, timeout, fallback) or keep it from running at all         *)
(* (circuit breakers, throttlers, bulkheads, caches).                      *)
(*                                                                         *)
(* The goroutine that runs the execution goes down the stack to the user's *)
(* function and back up with a PolicyResult; timers, ExecutionResult.Cancel*)
(* and the configured context cancel it at any point on the way.  Copies   *)
(* of an execution have contexts of their own but share canceledResult,    *)
(* deferCancel and the counters.                                           *)
(***************************************************************************)
EXTENDS Integers, Sequences, FiniteSets

CONSTANT Configs   \* the executors to run: policies, outermost first, and the mode of execution

(***************************************************************************)
(* A policy.  maxRetries: the retries of a retry policy; without a limit   *)
(* (-1) executions need not end.  abortOn: its abort conditions.           *)
(* hasMaxDuration, hasBudget: whether it has a maxDuration, a budget.      *)
(* returnLastFailure: see OnFailure.  Other policies leave these fields    *)
(* unused.  A "breaker" is a circuit breaker or an adaptive throttler.     *)
(***************************************************************************)
FnValues == {"ok", "fail"}

Values == FnValues \cup {"ctx.Err", "timeout.ErrExceeded", "ErrExecutionCanceled",
                         "retrypolicy.ExceededError", "budget.ErrExceeded", "blocked", "cached",
                         "fallbackOk", "fallbackFail"}

Kinds == {"retry", "timeout", "fallback", "breaker", "bulkhead", "cache"}

Policies == [kind : Kinds, maxRetries : Nat, abortOn : SUBSET Values,
             hasMaxDuration : BOOLEAN, hasBudget : BOOLEAN, returnLastFailure : BOOLEAN]

\* async: RunAsync and GetAsync rather than Run and Get.  mayDefer: the user's function may call
\* DeferCancel, as failsafehttp's does.
Modes == [async : BOOLEAN, mayDefer : BOOLEAN]

ASSUME ConfigAssumption == Configs \subseteq [policies : Seq(Policies), mode : Modes]

VARIABLES
    policies,         \* the stack of this execution
    mode,             \* how it is executed
    ctxs,             \* the contexts created so far
    levelCtx,         \* for each level, the context of the execution copy it was called with
    at,               \* the level the goroutine is at; the user's function is below the last one
    step,             \* what it does there
    result,           \* the PolicyResult on its way out
    canceledResult,   \* *e.canceledResult: the value of a cancellation, or "nil"
    failedAttempts,   \* per retry policy
    retriesExceeded,  \* per retry policy
    attempts, retries, executions,
    blocked,          \* history: attempts that a policy kept from reaching the user's function
    deferCancel,
    deferred,         \* contexts whose DeferCancel function has not been called
    cancelling,       \* contexts whose DeferCancel function is about to Cancel(nil)
    cancelPc          \* the caller of ExecutionResult.Cancel

vars == <<policies, mode, ctxs, levelCtx, at, step, result, canceledResult, failedAttempts,
          retriesExceeded, attempts, retries, executions, blocked, deferCancel, deferred, cancelling, cancelPc>>

counters  == <<attempts, retries, executions, blocked>>
retryVars == <<failedAttempts, retriesExceeded>>
deferVars == <<deferCancel, deferred, cancelling>>

Depth == Len(policies)

-----------------------------------------------------------------------------
(***************************************************************************)
(* Contexts.  Each one knows its ancestors; 1 is the configured context    *)
(* and, for an asynchronous execution, 2 the child made for it.  A context *)
(* made by a timeout policy has a timer: "armed", "won" (its callback set  *)
(* the timeout's result and has yet to call Cancel), "fired" (it has) or   *)
(* "stopped" (the inner function returned first).                          *)
(***************************************************************************)
Timers   == {"none", "armed", "won", "fired", "stopped"}
Contexts == [ancestors : SUBSET Nat, done : BOOLEAN, timer : Timers]

RootCtx == IF mode.async THEN 2 ELSE 1

Done(id) == ctxs[id].done

CancelCtx(cs, id) ==
    [i \in DOMAIN cs |-> IF id \in cs[i].ancestors THEN [cs[i] EXCEPT !.done = TRUE] ELSE cs[i]]

ChildCtx(parent) ==
    [ancestors |-> ctxs[parent].ancestors \cup {Len(ctxs) + 1},
     done      |-> ctxs[parent].done,
     timer     |-> "armed"]

(***************************************************************************)
(* PolicyResults.                                                          *)
(***************************************************************************)
Results == [val : Values, done : BOOLEAN, success : BOOLEAN, successAll : BOOLEAN]

FnResult(v)      == [val |-> v, done |-> TRUE, success |-> TRUE, successAll |-> TRUE]
FailureResult(v) == [val |-> v, done |-> TRUE, success |-> FALSE, successAll |-> FALSE]

WithDone(r, done, success) ==
    [r EXCEPT !.done = done, !.success = success, !.successAll = success /\ r.successAll]

WithFailure(r) == [r EXCEPT !.success = FALSE, !.successAll = FALSE]

\* The default failure condition: any error.
IsFailure(r) == r.val \notin {"ok", "cached", "fallbackOk"}

\* isCanceledWithResult, for a context that is done
CancelResult == FailureResult(IF canceledResult = "nil" THEN "ctx.Err" ELSE canceledResult)

-----------------------------------------------------------------------------
Init ==
    /\ \E c \in Configs : policies = c.policies /\ mode = c.mode
    /\ ctxs = IF mode.async
              THEN <<[ancestors |-> {1}, done |-> FALSE, timer |-> "none"],
                     [ancestors |-> {1, 2}, done |-> FALSE, timer |-> "none"]>>
              ELSE <<[ancestors |-> {1}, done |-> FALSE, timer |-> "none"]>>
    /\ levelCtx = [l \in 1..Len(policies) + 1 |-> RootCtx]
    /\ at = 1
    /\ step = "enter"
    /\ result = FailureResult("ctx.Err")
    /\ canceledResult = "nil"
    /\ failedAttempts = [l \in 1..Len(policies) |-> 0]
    /\ retriesExceeded = [l \in 1..Len(policies) |-> FALSE]
    /\ attempts = 1
    /\ retries = 0
    /\ executions = 0
    /\ blocked = 0
    /\ deferCancel = FALSE
    /\ deferred = {}
    /\ cancelling = {}
    /\ cancelPc = "idle"

\* The goroutine is at a level whose policy is of this kind.
AtPolicy(kind, s) ==
    /\ step = s
    /\ at \in 1..Depth
    /\ policies[at].kind = kind

\* The policy at the current level is done with result r.
Exit(r) ==
    /\ result' = r
    /\ at' = at - 1
    /\ step' = "exit"

(***************************************************************************)
(* On the way in.  All policies but a timeout pass their execution on.     *)
(***************************************************************************)
EnterPolicy ==
    /\ step = "enter"
    /\ at \in 1..Depth
    /\ policies[at].kind # "timeout"
    /\ at' = at + 1
    /\ levelCtx' = [levelCtx EXCEPT ![at + 1] = levelCtx[at]]
    /\ UNCHANGED <<policies, mode, ctxs, step, result, canceledResult, retryVars, counters, deferVars, cancelPc>>

\* CopyForCancellable, and the start of the timer.
EnterTimeout ==
    /\ AtPolicy("timeout", "enter")
    /\ at' = at + 1
    /\ ctxs' = Append(ctxs, ChildCtx(levelCtx[at]))
    /\ levelCtx' = [levelCtx EXCEPT ![at + 1] = Len(ctxs) + 1]
    /\ UNCHANGED <<policies, mode, step, result, canceledResult, retryVars, counters, deferVars, cancelPc>>

\* A bulkhead that is full, or was canceled while it waited for a permit.
BulkheadPreExecute == IF Done(levelCtx[at]) THEN CancelResult ELSE FailureResult("blocked")

\* A cache that has a result for the execution's key.
CachePreExecute == FnResult("cached")

\* What PreExecute of a policy returns instead of letting the execution through.
PreExecute ==
    CASE policies[at].kind = "breaker"  -> FailureResult("blocked")
      [] policies[at].kind = "bulkhead" -> BulkheadPreExecute
      [] policies[at].kind = "cache"    -> CachePreExecute

Blocked ==
    /\ step = "enter"
    /\ at \in 1..Depth
    /\ policies[at].kind \in {"breaker", "bulkhead", "cache"}
    /\ Exit(PreExecute)
    /\ blocked' = blocked + 1
    /\ UNCHANGED <<policies, mode, ctxs, levelCtx, canceledResult, retryVars, attempts, retries, executions,
                   deferVars, cancelPc>>

(***************************************************************************)
(* The user's function: it returns when it likes, and may report its       *)
(* context's error when that is done.                                      *)
(***************************************************************************)
FnCtx == levelCtx[Depth + 1]

FnReturns(v, defers) ==
    /\ step = "enter"
    /\ at = Depth + 1
    /\ v = "ctx.Err" => Done(FnCtx)
    /\ defers => mode.mayDefer /\ v # "ctx.Err"
    /\ executions' = executions + 1
    /\ deferCancel' = (deferCancel \/ defers)
    /\ deferred' = IF defers THEN deferred \cup {FnCtx} ELSE deferred
    /\ Exit(FnResult(v))
    /\ UNCHANGED <<policies, mode, ctxs, levelCtx, canceledResult, retryVars, attempts, retries, blocked,
                   cancelling, cancelPc>>

-----------------------------------------------------------------------------
(***************************************************************************)
(* The timeout executor: the timer's callback and the returning inner      *)
(* function race for the result.                                           *)
(***************************************************************************)
TimerWins(id) ==
    /\ ctxs[id].timer = "armed"
    /\ ctxs' = [ctxs EXCEPT ![id].timer = "won"]
    /\ UNCHANGED <<policies, mode, levelCtx, at, step, result, canceledResult, retryVars, counters, deferVars, cancelPc>>

\* execInternal.Cancel(timeoutResult)
TimerCancels_OnlyResult(id) ==
    /\ ctxs[id].timer = "won"
    /\ ctxs' = [ctxs EXCEPT ![id].timer = "fired"]
    /\ canceledResult' = "timeout.ErrExceeded"
    /\ UNCHANGED <<policies, mode, levelCtx, at, step, result, retryVars, counters, deferVars, cancelPc>>

TimerCancels(id) ==
    /\ ctxs[id].timer = "won"
    /\ LET cs == [ctxs EXCEPT ![id].timer = "fired"]
       IN  IF Done(id)
           THEN ctxs' = cs /\ UNCHANGED canceledResult
           ELSE ctxs' = CancelCtx(cs, id) /\ canceledResult' = "timeout.ErrExceeded"
    /\ UNCHANGED <<policies, mode, levelCtx, at, step, result, retryVars, counters, deferVars, cancelPc>>

TimeoutPostExecute(r) ==
    IF r.val = "timeout.ErrExceeded" THEN WithFailure(r) ELSE WithDone(r, TRUE, TRUE)

\* Cancel(nil) for the copy that has context id
CancelWithoutResult_Never(cs, id) == cs

CancelWithoutResult(cs, id) ==
    IF cs[id].done \/ deferCancel THEN cs ELSE CancelCtx(cs, id)

TimeoutAnswer_InnerAlways(id) == result

TimeoutAnswer(id) ==
    IF ctxs[id].timer = "armed" THEN result ELSE FailureResult("timeout.ErrExceeded")

ExitTimeout ==
    /\ AtPolicy("timeout", "exit")
    /\ LET id == levelCtx[at + 1]
       IN  /\ ctxs' = IF ctxs[id].timer = "armed"
                      THEN CancelWithoutResult([ctxs EXCEPT ![id].timer = "stopped"], id)
                      ELSE ctxs
           /\ Exit(TimeoutPostExecute(TimeoutAnswer(id)))
    /\ UNCHANGED <<policies, mode, levelCtx, canceledResult, retryVars, counters, deferVars, cancelPc>>

-----------------------------------------------------------------------------
(***************************************************************************)
(* The retry executor.  Its loop looks for a cancellation in three         *)
(* critical sections: after the inner function, in RecordResult and, after *)
(* the delay, in InitializeRetry.                                          *)
(***************************************************************************)
RetriesUsedUp_OneMore(failed, p) == failed > p.maxRetries + 1

RetriesUsedUp(failed, p) == failed > p.maxRetries

\* OnFailure; tooLong: the elapsed time is past maxDuration
RetryOnFailure(tooLong) ==
    LET p         == policies[at]
        failed    == failedAttempts[at] + 1
        exceeded  == RetriesUsedUp(failed, p) \/ tooLong
        abortable == result.val \in p.abortOn
        done      == abortable \/ exceeded \/ p.maxRetries = 0
        answer    == IF exceeded /\ ~p.returnLastFailure
                     THEN FailureResult("retrypolicy.ExceededError")
                     ELSE WithDone(result, done, FALSE)
    IN  /\ failedAttempts' = [failedAttempts EXCEPT ![at] = failed]
        /\ retriesExceeded' = [retriesExceeded EXCEPT ![at] = exceeded]
        /\ IF answer.done THEN Exit(answer)
           ELSE result' = answer /\ step' = "retryRecord" /\ UNCHANGED at

\* Whether the last result is passed on as it is: the retries were exceeded before this call.
RetryPassesOn == retriesExceeded[at]

ExitRetry ==
    /\ AtPolicy("retry", "exit")
    /\ \/ Done(levelCtx[at]) /\ Exit(CancelResult) /\ UNCHANGED retryVars
       \/ ~Done(levelCtx[at]) /\ RetryPassesOn /\ Exit(result) /\ UNCHANGED retryVars
       \/ /\ ~Done(levelCtx[at]) /\ ~RetryPassesOn /\ ~IsFailure(result)
          /\ Exit(WithDone(result, TRUE, TRUE))
          /\ UNCHANGED retryVars
       \/ /\ ~Done(levelCtx[at]) /\ ~RetryPassesOn /\ IsFailure(result)
          /\ \E tooLong \in BOOLEAN :
                /\ tooLong => policies[at].hasMaxDuration
                /\ RetryOnFailure(tooLong)
    /\ UNCHANGED <<policies, mode, ctxs, levelCtx, canceledResult, counters, deferVars, cancelPc>>

\* RecordResult
RecordResult ==
    /\ AtPolicy("retry", "retryRecord")
    /\ \/ Done(levelCtx[at]) /\ Exit(CancelResult)
       \/ ~Done(levelCtx[at]) /\ step' = "retryDelay" /\ UNCHANGED <<at, result>>
    /\ UNCHANGED <<policies, mode, ctxs, levelCtx, canceledResult, retryVars, counters, deferVars, cancelPc>>

\* The rest of InitializeRetry.
CountRetry_OnlyRetries == retries' = retries + 1 /\ canceledResult' = "nil" /\ UNCHANGED attempts

CountRetry == retries' = retries + 1 /\ canceledResult' = "nil" /\ attempts' = attempts + 1

StartAttempt ==
    /\ at' = at + 1
    /\ step' = "enter"
    /\ UNCHANGED <<result, blocked>>

BudgetExceeded ==
    /\ policies[at].hasBudget
    /\ Exit(FailureResult("budget.ErrExceeded"))
    /\ blocked' = blocked + 1

RetryMayStart_Always == TRUE

RetryMayStart == ~Done(levelCtx[at])

\* The delay ends, by its timer or by exec.Canceled(), InitializeRetry runs and the budget is asked.
InitializeRetry ==
    /\ AtPolicy("retry", "retryDelay")
    /\ \/ ~RetryMayStart /\ Exit(CancelResult) /\ UNCHANGED <<canceledResult, attempts, retries, blocked>>
       \/ RetryMayStart /\ CountRetry /\ (StartAttempt \/ BudgetExceeded)
    /\ UNCHANGED <<policies, mode, ctxs, levelCtx, retryVars, executions, deferVars, cancelPc>>

-----------------------------------------------------------------------------
(***************************************************************************)
(* PostExecute of the base executor, for a breaker.  A bulkhead and a      *)
(* cache return the result as it is.                                       *)
(***************************************************************************)
ExitBreaker ==
    /\ AtPolicy("breaker", "exit")
    /\ Exit(IF IsFailure(result) THEN WithFailure(result) ELSE WithDone(result, TRUE, TRUE))
    /\ UNCHANGED <<policies, mode, ctxs, levelCtx, canceledResult, retryVars, counters, deferVars, cancelPc>>

ExitBulkheadOrCache ==
    /\ AtPolicy("bulkhead", "exit") \/ AtPolicy("cache", "exit")
    /\ Exit(result)
    /\ UNCHANGED <<policies, mode, ctxs, levelCtx, canceledResult, retryVars, counters, deferVars, cancelPc>>

(***************************************************************************)
(* The fallback executor.                                                  *)
(***************************************************************************)
ExitFallback ==
    /\ AtPolicy("fallback", "exit")
    /\ \/ ~IsFailure(result) /\ Exit(WithDone(result, TRUE, TRUE))
       \/ IsFailure(result) /\ Done(levelCtx[at]) /\ Exit(CancelResult)
       \/ /\ IsFailure(result) /\ ~Done(levelCtx[at])
          /\ result' = WithFailure(result)
          /\ step' = "fallback"
          /\ UNCHANGED at
    /\ UNCHANGED <<policies, mode, ctxs, levelCtx, canceledResult, retryVars, counters, deferVars, cancelPc>>

FallbackResult(v) ==
    [val |-> v, done |-> TRUE, success |-> v = "fallbackOk", successAll |-> v = "fallbackOk"]

FallbackReturns(v) ==
    /\ AtPolicy("fallback", "fallback")
    /\ Exit(IF Done(levelCtx[at]) THEN CancelResult ELSE FallbackResult(v))
    /\ UNCHANGED <<policies, mode, ctxs, levelCtx, canceledResult, retryVars, counters, deferVars, cancelPc>>

-----------------------------------------------------------------------------
(***************************************************************************)
(* The end of the execution: executionResult.record for an asynchronous    *)
(* one, which cancels the context made for it.                             *)
(***************************************************************************)
Finish ==
    /\ step = "exit"
    /\ at = 0
    /\ step' = "done"
    /\ ctxs' = IF mode.async THEN CancelCtx(ctxs, RootCtx) ELSE ctxs
    /\ UNCHANGED <<policies, mode, levelCtx, at, result, canceledResult, retryVars, counters, deferVars, cancelPc>>

(***************************************************************************)
(* ExecutionResult.Cancel: first the outermost execution, which has no     *)
(* cancelFunc of its own, is given the result; then the context made for   *)
(* it is canceled.                                                         *)
(***************************************************************************)
CancelSetsResult ==
    /\ mode.async
    /\ cancelPc = "idle"
    /\ cancelPc' = "resultSet"
    /\ canceledResult' = IF Done(RootCtx) THEN canceledResult ELSE "ErrExecutionCanceled"
    /\ UNCHANGED <<policies, mode, ctxs, levelCtx, at, step, result, retryVars, counters, deferVars>>

CancelCancelsContext ==
    /\ cancelPc = "resultSet"
    /\ cancelPc' = "returned"
    /\ ctxs' = CancelCtx(ctxs, RootCtx)
    /\ UNCHANGED <<policies, mode, levelCtx, at, step, result, canceledResult, retryVars, counters, deferVars>>

\* The configured context is canceled by its owner.
CancelConfiguredContext ==
    /\ ~Done(1)
    /\ ctxs' = CancelCtx(ctxs, 1)
    /\ UNCHANGED <<policies, mode, levelCtx, at, step, result, canceledResult, retryVars, counters, deferVars, cancelPc>>

(***************************************************************************)
(* The function that DeferCancel returned is called: its CompareAndSwap,   *)
(* then its Cancel(nil) for the copy that the user's function got.         *)
(***************************************************************************)
CallDeferred(id) ==
    /\ id \in deferred
    /\ deferred' = deferred \ {id}
    /\ cancelling' = IF deferCancel THEN cancelling \cup {id} ELSE cancelling
    /\ deferCancel' = FALSE
    /\ UNCHANGED <<policies, mode, ctxs, levelCtx, at, step, result, canceledResult, retryVars, counters, cancelPc>>

DeferredCancels(id) ==
    /\ id \in cancelling
    /\ cancelling' = cancelling \ {id}
    /\ ctxs' = IF ctxs[id].timer = "none" THEN ctxs ELSE CancelWithoutResult(ctxs, id)
    /\ UNCHANGED <<policies, mode, levelCtx, at, step, result, canceledResult, retryVars, counters,
                   deferCancel, deferred, cancelPc>>

-----------------------------------------------------------------------------
PolicyStep ==
    \/ EnterPolicy \/ EnterTimeout \/ Blocked
    \/ ExitTimeout \/ ExitBreaker \/ ExitBulkheadOrCache
    \/ ExitRetry \/ RecordResult \/ InitializeRetry
    \/ ExitFallback \/ \E v \in {"fallbackOk", "fallbackFail"} : FallbackReturns(v)
    \/ Finish

FnStep == \E v \in FnValues \cup {"ctx.Err"}, defers \in BOOLEAN : FnReturns(v, defers)

TimerStep == \E id \in 1..Len(ctxs) : TimerWins(id) \/ TimerCancels(id)

DeferStep == \E id \in 1..Len(ctxs) : CallDeferred(id) \/ DeferredCancels(id)

Terminated == step = "done" /\ UNCHANGED vars

Next ==
    \/ PolicyStep
    \/ FnStep
    \/ TimerStep
    \/ DeferStep
    \/ CancelSetsResult \/ CancelCancelsContext \/ CancelConfiguredContext
    \/ Terminated

Spec == Init /\ [][Next]_vars

(***************************************************************************)
(* The goroutine is scheduled, timers fire, a call of Cancel runs to its   *)
(* end and a fallback function returns.  The user's function need not      *)
(* return, unless its context is done.                                     *)
(***************************************************************************)
Fairness ==
    /\ WF_vars(PolicyStep)
    /\ WF_vars(TimerStep)
    /\ WF_vars(CancelCancelsContext)
    /\ WF_vars(FnStep /\ Done(FnCtx))

LiveSpec == Spec /\ Fairness

-----------------------------------------------------------------------------
(***************************************************************************)
(* Properties.                                                             *)
(***************************************************************************)
Steps == {"enter", "exit", "retryRecord", "retryDelay", "fallback", "done"}

\* Types, and the shape of the context tree: a context's ancestors are contexts, itself included,
\* and a canceled context's descendants are canceled.
TypeOK ==
    /\ policies \in Seq(Policies) /\ mode \in Modes
    /\ ctxs \in Seq(Contexts)
    /\ \A i \in 1..Len(ctxs) : i \in ctxs[i].ancestors /\ ctxs[i].ancestors \subseteq 1..i
    /\ \A i, j \in 1..Len(ctxs) : i \in ctxs[j].ancestors /\ ctxs[i].done => ctxs[j].done
    /\ levelCtx \in [1..Depth + 1 -> 1..Len(ctxs)]
    /\ at \in 0..Depth + 1
    /\ step \in Steps
    /\ result \in Results
    /\ canceledResult \in Values \cup {"nil"}
    /\ failedAttempts \in [1..Depth -> Nat]
    /\ retriesExceeded \in [1..Depth -> BOOLEAN]
    /\ attempts \in Nat /\ retries \in Nat /\ executions \in Nat /\ blocked \in Nat
    /\ deferCancel \in BOOLEAN
    /\ deferred \subseteq 1..Len(ctxs)
    /\ cancelling \subseteq 1..Len(ctxs)
    /\ cancelPc \in {"idle", "resultSet", "returned"}

\* Attempts() counts, as documented, the completed executions, the attempts that were blocked before
\* being executed and the one in progress, each once, for any nesting of policies that retry and
\* policies that block, whoever cancels.
AttemptsMatchExecutions ==
    /\ attempts = retries + 1
    /\ attempts = executions + blocked + (IF step = "enter" THEN 1 ELSE 0)

\* Retry policies do not multiply: the executor of an inner retry policy keeps its count for the
\* whole execution, so nested policies make at most the sum of their retries.
AttemptsBounded ==
    LET RetriesFrom[l \in 1..Depth + 1] ==
            IF l > Depth THEN 0
            ELSE RetriesFrom[l + 1] +
                 (IF policies[l].kind = "retry" THEN policies[l].maxRetries ELSE 0)
    IN  attempts <= 1 + RetriesFrom[1]

\* "Any policies composed inside the timeout, such as retries, will also be canceled": no retry
\* begins below a context that is already done, whichever level that belongs to.
NoRetryWhenCanceled ==
    [][attempts' > attempts =>
          \A l \in 1..at : ~ctxs[levelCtx[l]].done]_vars

\* Who is told of a timeout and who gets the result agree: the callback that won the race decides
\* the outermost timeout's answer, and ErrExceeded is never answered without a callback that won.
TimeoutAnswerAgrees ==
    step = "done" /\ Depth > 0 =>
        /\ policies[1].kind = "timeout" /\ ctxs[levelCtx[2]].timer \in {"won", "fired"} =>
              result.val = "timeout.ErrExceeded"
        /\ result.val = "timeout.ErrExceeded" =>
              \E i \in 1..Len(ctxs) : ctxs[i].timer \in {"won", "fired"}

\* No child context leaks: once a timeout has answered, its context is done, or about to be; when
\* the cancellation was deferred, once the function that DeferCancel returned has been called.
\* (Where the function runs once below a single timeout: DeferCancel's function cancels one context.)
ChildContextsReleased ==
    deferred = {} /\ cancelling = {} =>
        \A i \in 1..Len(ctxs) : ctxs[i].timer \in {"stopped", "fired"} => ctxs[i].done

\* An execution ends if one of its policies is a timeout, or if it is canceled, even though the
\* user's function only returns when its context is done.
HasTimeout == \E l \in 1..Depth : policies[l].kind = "timeout"

ExecutionEnds ==
    (HasTimeout \/ cancelPc # "idle" \/ ctxs[1].done) ~> step = "done"

=============================================================================
