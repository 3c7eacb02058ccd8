---------------------------- MODULE MCExecution ----------------------------
(***************************************************************************)
(* Instances of Execution for TLC.                                         *)
(***************************************************************************)
EXTENDS Execution, TLC

Policy(kind) ==
    [kind |-> kind, maxRetries |-> 0, abortOn |-> {}, hasMaxDuration |-> FALSE,
     hasBudget |-> FALSE, returnLastFailure |-> FALSE]

Retry(n) == [Policy("retry") EXCEPT !.maxRetries = n]
BudgetedRetry(n) == [Retry(n) EXCEPT !.hasBudget = TRUE]

Timeout  == Policy("timeout")
Fallback == Policy("fallback")
Breaker  == Policy("breaker")
Bulkhead == Policy("bulkhead")
Cache    == Policy("cache")

AbortingRetry(n) ==
    [Retry(n) EXCEPT !.abortOn = {"fail"}, !.returnLastFailure = TRUE, !.hasMaxDuration = TRUE]

Execute(stacks, async, mayDefer) ==
    {[policies |-> s, mode |-> [async |-> async, mayDefer |-> mayDefer]] : s \in stacks}

\* Every policy that cancels inside and outside of each one that reacts, and retries inside retries.
Stacks ==
    { <<>>,
      <<Retry(2), Timeout>>,
      <<Timeout, Retry(1), Timeout>>,
      <<Retry(1), Retry(2)>>,
      <<Retry(1), Timeout, Retry(1)>>,
      <<Fallback, AbortingRetry(1), Timeout>>,
      <<Timeout, Fallback, Retry(1)>>,
      <<Cache, BudgetedRetry(2), Breaker>>,
      <<Retry(1), Timeout, Bulkhead>>,
      <<Bulkhead, Fallback, Retry(1)>>,
      <<Timeout, Fallback, Timeout>> }

OneTimeoutStacks == { <<Timeout>>, <<Timeout, Fallback>>, <<Fallback, Timeout>> }

AllConfigs ==
    Execute(Stacks, TRUE, FALSE) \cup Execute(Stacks, FALSE, FALSE) \cup
    Execute(OneTimeoutStacks, FALSE, TRUE)
=============================================================================
