------------------------------- MODULE Budget -------------------------------
(***************************************************************************)
(* budget.Budget (budget/budget.go): two atomic counters that limit the    *)
(* retries and hedges of all executions that share the budget.             *)
(*                                                                         *)
(* The counters are read and changed one at a time, without a lock, so     *)
(* TryAcquirePermit and ReleasePermit take a step for each of them and     *)
(* interleave with those of other users.  The users here are the retry     *)
(* executors of other executions (retrypolicy/retryexecutor.go); module    *)
(* HedgePolicy adds a hedged execution.                                    *)
(***************************************************************************)
EXTENDS Integers, FiniteSets

CONSTANTS
    RetryUsers,       \* executions with a retry policy
    Hedger,           \* an execution with a hedge policy
    minConcurrency,
    maxRate           \* in percent

Users == RetryUsers \cup {Hedger}

ASSUME UserAssumption == IsFiniteSet(RetryUsers) /\ Hedger \notin RetryUsers

ASSUME BudgetAssumption ==
    /\ minConcurrency \in Nat
    /\ maxRate \in Nat

VARIABLES
    executions,   \* b.executions: all executions that are counted
    inflight,     \* b.inflight: the retries and hedges among them
    acquire,      \* where each user is in TryAcquirePermit
    seen,         \* the number of executions that it has loaded there
    retry         \* where each retry executor is

budgetVars == <<executions, inflight, acquire, seen, retry>>

Acquires == {"idle", "loadExecutions", "loadRate", "addInflight", "addExecutions",
             "granted", "rejected"}

Retries == {"idle", "execution", "acquiring", "retrying", "releasing"}

BudgetInit ==
    /\ executions = 0
    /\ inflight = 0
    /\ acquire = [u \in Users |-> "idle"]
    /\ seen = [u \in Users |-> 0]
    /\ retry = [u \in RetryUsers |-> "idle"]

-----------------------------------------------------------------------------
RecordExecution == executions' = executions + 1

ReleaseExecution == executions' = executions - 1

(***************************************************************************)
(* TryAcquirePermit.                                                       *)
(***************************************************************************)
BelowMinConcurrency == inflight < minConcurrency

\* Rate() > maxRate, for the number n of executions that Rate loaded first
RateExceeded_IntegerDivision(n) == n # 0 /\ 100 * (inflight \div n) > maxRate

RateExceeded(n) == n # 0 /\ 100 * inflight > maxRate * n

LoadInflight(u) ==
    acquire' = [acquire EXCEPT ![u] = IF BelowMinConcurrency THEN "addInflight" ELSE "loadExecutions"]

LoadExecutions(u) ==
    /\ acquire[u] = "loadExecutions"
    /\ seen' = [seen EXCEPT ![u] = executions]
    /\ acquire' = [acquire EXCEPT ![u] = "loadRate"]
    /\ UNCHANGED <<executions, inflight, retry>>

LoadRate(u) ==
    /\ acquire[u] = "loadRate"
    /\ acquire' = [acquire EXCEPT ![u] = IF RateExceeded(seen[u]) THEN "rejected" ELSE "addInflight"]
    /\ seen' = [seen EXCEPT ![u] = 0]
    /\ UNCHANGED <<executions, inflight, retry>>

AddInflight(u) ==
    /\ acquire[u] = "addInflight"
    /\ inflight' = inflight + 1
    /\ acquire' = [acquire EXCEPT ![u] = "addExecutions"]
    /\ UNCHANGED <<executions, seen, retry>>

AddExecutions(u) ==
    /\ acquire[u] = "addExecutions"
    /\ RecordExecution
    /\ acquire' = [acquire EXCEPT ![u] = "granted"]
    /\ UNCHANGED <<inflight, seen, retry>>

TryAcquirePermit(u) == LoadExecutions(u) \/ LoadRate(u) \/ AddInflight(u) \/ AddExecutions(u)

-----------------------------------------------------------------------------
(***************************************************************************)
(* A retry executor: its execution is counted while it runs, and each of   *)
(* its retries needs a permit.                                             *)
(***************************************************************************)
RetryStarts(u) ==
    /\ retry[u] = "idle"
    /\ RecordExecution
    /\ retry' = [retry EXCEPT ![u] = "execution"]
    /\ UNCHANGED <<inflight, acquire, seen>>

RetryAcquires(u) ==
    /\ retry[u] = "execution"
    /\ LoadInflight(u)
    /\ retry' = [retry EXCEPT ![u] = "acquiring"]
    /\ UNCHANGED <<executions, inflight, seen>>

RetryGranted(u) ==
    /\ retry[u] = "acquiring"
    /\ acquire[u] = "granted"
    /\ acquire' = [acquire EXCEPT ![u] = "idle"]
    /\ retry' = [retry EXCEPT ![u] = "retrying"]
    /\ UNCHANGED <<executions, inflight, seen>>

\* The inner function returned: ReleasePermit, in its two steps.
RetryReleases(u) ==
    /\ retry[u] = "retrying"
    /\ inflight' = inflight - 1
    /\ retry' = [retry EXCEPT ![u] = "releasing"]
    /\ UNCHANGED <<executions, acquire, seen>>

RetryReleased(u) ==
    /\ retry[u] = "releasing"
    /\ ReleaseExecution
    /\ retry' = [retry EXCEPT ![u] = "execution"]
    /\ UNCHANGED <<inflight, acquire, seen>>

\* The executor returns, after a result that is final or a retry that was rejected.
RetryEnds(u) ==
    /\ \/ retry[u] = "execution" /\ UNCHANGED acquire
       \/ /\ retry[u] = "acquiring" /\ acquire[u] = "rejected"
          /\ acquire' = [acquire EXCEPT ![u] = "idle"]
    /\ ReleaseExecution
    /\ retry' = [retry EXCEPT ![u] = "idle"]
    /\ UNCHANGED <<inflight, seen>>

RetryStep(u) ==
    \/ TryAcquirePermit(u)
    \/ RetryAcquires(u) \/ RetryGranted(u)
    \/ RetryReleases(u) \/ RetryReleased(u)
    \/ RetryEnds(u)

=============================================================================
