# A TLA+ model of failsafe-go

failsafe-go wraps functions with composable resilience policies: retries, timeouts, circuit breakers,
bulkheads, limiters, hedges, fallbacks and caches. The policies are small, but they are shared by
concurrent executions, they cancel one another's work and they call user code in the middle of their
own operations. This directory models the policies and what they share, checks them with TLC on small instances
and proves their safety properties with TLAPS for every size.

`PROJECT.json` lists the components, the runs, the source lines behind each definition, the mutants
that show each property can fail, the hazards and the theorems.

To check a run: `tlc -config Execution.cfg MCExecution`.
To check proofs: `tlapm DynamicSemaphoreProofs.tla`.

## 1. Inventory

| Component | State | Operations | What is hard about it |
|---|---|---|---|
| Executor and execution (`executor.go`, `execution.go`, `result.go`, `policy/policyexecutor.go`) | copies of an execution with contexts of their own; shared attempts, retries, executions, `canceledResult`, `deferCancel` | run, record a result, initialize a retry or a hedge, cancel, defer the cancellation | timers, `ExecutionResult.Cancel` and the configured context cancel at any point; copies share some fields and not others |
| Retry policy (`retrypolicy/`, `policy/policy.go`) | failed attempts, last delay, `retriesExceeded`, per execution | the builder, the retry loop, `OnFailure`, delays, the budget | cancellation between any two of its steps; nested retry policies; the delay's arithmetic; goroutines of a hedge that share one executor; the order of the builder's calls |
| Timeout (`timeout/`) | an atomic result and a timer | the callback, the return of the inner function | both race for the result |
| Fallback (`fallback/`) | none | replaces a failed result | cancellation before and after the fallback function |
| Circuit breaker (`circuitbreaker/`, `internal/util/stats.go`) | state, stats, permits of the half-open state, start of the open state | acquire, record, open, half-open, close, reset | listeners run without the mutex in the middle of operations; results arrive in a later state than the one that admitted them; thresholds at their limits |
| Dynamic semaphore (`internal/util/semaphore.go`) | size, used, queue of channels | acquire (blocking, with a maximal wait, without), release, resize | grant against timeout or cancellation; resizes while callers wait; lost wakeups |
| Adaptive limiter with its queueing and priority variants (`adaptivelimiter/`) | semaphore, limit, RTT windows, in-flight counts | acquire, record, drop, update the limit | the mutex is given up for a listener while the limit is updated; queue lengths are read before they are used |
| Adaptive throttler (`adaptivethrottler/`) | rejection rate, execution windows | admit by a coin flip, record | concurrent recalculation; the priority variant's calibration |
| Prioritizers and usage (`priority/`, `internal/prioritizer.go`) | thresholds, level histograms, per-user usage in an LRU | calibrate, register, record usage | a threshold that is computed under the mutex and stored after it |
| Rate limiter (`ratelimiter/`) | smooth: next free permit; bursty: period and permits | acquire, reserve, with a maximal wait | deficits over several periods; boundaries of periods |
| Bulkhead (`bulkhead/`) | a buffered channel | acquire, release | waiting with a context and a timer |
| Hedge policy, budget (`hedgepolicy/`, `budget/`) | running attempts, a result channel, two counters | start hedges, collect the first final result | concurrent attempts that share one execution and one budget |
| Cache policy (`cachepolicy/`) | a user supplied cache | look up, store | little |
| HTTP and gRPC (`failsafehttp/`, `failsafegrpc/`) | merged contexts, a response body | wrap transports, handlers and interceptors | contexts must outlive the execution until the body is closed |
| Windows, averages, quantiles (`internal/util/`) | ring buffers, sums | add, expire | expiry over idle time; floats |

The executor goes through the policies from the outside in. Each policy's executor has an `Apply` that
calls the next one; those that only block or observe use `BaseExecutor.Apply`, with a `PreExecute` and a
`PostExecute`. Policies are shared by all executions; their executors, except where noted, are made per
execution. Cancellation travels down through contexts and sideways through the shared
`canceledResult`. Policies call user code (functions, fallbacks, listeners, delay functions) on the
goroutine that happens to be in them.

What makes each component correct, in a sentence:

- *semaphore*: no permit is lost or granted twice, nobody waits while a permit is free, the order is FIFO;
- *breaker*: decisions are taken exactly when the thresholds say so, an open breaker keeps its delay, a
  half-open one never runs dry;
- *execution*: attempts are counted once, retries stop when anything above is canceled, a timeout's
  listener and its caller agree, no child context is leaked, executions with a timeout end;
- *limiters, throttlers, rate limiter, bulkhead*: what is admitted never exceeds what is configured;
  waiting callers are served or told why not;
- *hedge and budget*: one result, every other attempt canceled, the budget kept;
- *retry policy*: attempts, delays and handled outcomes are those that the builder's calls ask for;
- *prioritizers*: the threshold is the quantile of what was admitted, lighter users are preferred, and
  rejections end with the overload;
- *windows*: they hold exactly what a recomputation from the samples gives, whatever time passes;
- *HTTP and gRPC*: contexts live as long as a request or a body needs them and end afterwards.

## 2. Modules

```
PermitPool  <--implements--  DynamicSemaphore  <--  DynamicSemaphoreProofs
     ^-- instance of --  AdaptiveLimiter       <--  MCAdaptiveLimiter, AdaptiveLimiterProofs
CircuitBreaker, CircuitBreakerBuilder          <--  MCCircuitBreaker;  CircuitBreakerProofs
Execution                                      <--  MCExecution, ExecutionProofs
RetryPolicy                                    <--  MCRetryPolicy, RequestProofs
Budget  <--  HedgePolicy                       <--  MCHedgePolicy, HedgePolicyProofs
RateLimiter                                    <--  MCRateLimiter, RateLimiterProofs
UsageTracker  <--  Prioritizer                 <--  MCPrioritizer, StatisticsProofs
HttpClient                                     <--  MCHttpClient, RequestProofs
Windows                                        <--  StatisticsProofs
```

### PermitPool and DynamicSemaphore

`PermitPool` is what the users of a resizable semaphore rely on: a set of owners, a first-in first-out
queue and a size. A free permit and a waiting caller never coexist, not even for a step.

`DynamicSemaphore` implements it (`Pool == INSTANCE PermitPool WITH owners <- Owners, queue <- waiters`;
the property `ImplementsPermitPool`). One step is one critical section of `s.mu` or one choice of the
`select` of a blocked caller. State: `size`, `used`, `waiters` as in the code; `ready` (channels that were
closed and not yet received from), `pc`, `timed` and `done` (contexts) stand for the goroutines.
`Acquire`, `AcquireWithMaxWait`, `AcquireWithoutWait` (a maximal wait of zero), `TryAcquire`, `Release`
and `SetSize` are the methods; `ReceiveFromWaiter`, `ContextDone`, `TimerFired` and `DrainWaiter` what a
blocked call goes through. A `select` with several ready cases takes any of them. A caller whose grant
raced with its timeout owns its permit in the abstraction before it knows of it.

### CircuitBreaker and CircuitBreakerBuilder

One step is one critical section of `cb.mu`; because `transitionTo` gives the mutex up for its listeners,
an operation with a listened transition is two steps (`halfOpenListener`, `recordListener`,
`resetListener` are the points in between). `window` is the content of the current state's stats. With a
`capacity` it is the bit set of a count based breaker; a capacity of 0 stands for time based stats, from
which any number of the oldest results may have expired when a result is recorded (`Recorded` is a set;
`MaxResults` bounds its windows; the buckets themselves are in `Windows`). Thresholds are counts, or rates
in hundredths rounded as `util.Round` does. `1 - failureRateThreshold` is a float, which may come out just
below the hundredth it stands for: `ComplementBelow` says whether it does. `remaining` is what
`remainingDelay()` returns; `permitted` is `permittedExecutions`. `trials` is a history variable: which
executions hold a permit of the current half-open state.

`CircuitBreakerBuilder` has the builder's calls as operators on its configuration; the breakers of the
runs are built with it. Two assumptions in it, which TLC evaluates, say which calls lead to thresholds
that a breaker can decide by: any one way of setting the failure threshold with any one of setting the
success threshold (for all numbers by `BuilderDecides`), but not every mix of two failure thresholds.

### Execution

One execution through a stack of policies. The goroutine's position is `at` (its level) and `step`; its
result on the way out is `result`. Contexts form a tree (`ctxs`); `levelCtx[l]` is the context of the
copy that level `l` was called with. A context made by a timeout carries that timeout's timer, whose
callback takes two steps: it wins the race for the result (`TimerWins`), then cancels (`TimerCancels`).
`ExecutionResult.Cancel` takes two steps as well, because the lock is given up between setting the result
and canceling the context. The retry loop is split at its three critical sections (`ExitRetry`,
`RecordResult`, `InitializeRetry`). Circuit breakers and throttlers (`"breaker"`), bulkheads
(`BulkheadPreExecute`) and caches (`CachePreExecute`) appear as what they do to an execution: they may
keep it from running (`Blocked`) and they post-process its result. `blocked` is a history variable.

The user's function returns `ok`, `fail` or, when its context is done, its context's error, and may call
`DeferCancel` (as `failsafehttp` does). The budget of a retry policy may reject any retry. A delay may end
at any time, `maxDuration` may have elapsed at any failure, a timer may fire as soon as it is set.

### RetryPolicy

What `Execution` abstracts of retries: the builder (`With...`, `Handle...`, `AbortOn...`), including the
builders that `failsafehttp` and `failsafegrpc` start from; conditions as sets of outcomes; delays with
backoff, random delays, jitter, `DelayFunc` and `Retry-After`; `maxDuration`; and the loop. The fields of
the executor (`failedAttempts`, `retriesExceeded`, `lastDelay`) are shared by `Runners`, as they are when a
hedge policy runs the same retry executor in several goroutines; reading and writing a field are separate
steps. An attempt that has returned goes through the check of the context (`CheckCanceled`) and of the flag
(`CheckExceeded`), and a failure through the read and the write of `failedAttempts++` (`Fails`,
`Increment`), the read that compares it (`Compare`), the write of `retriesExceeded` (`SetExceeded`), and the
two reads of it that decide (`Decide`) and that choose what is returned (`ReturnResult`). Only `lastDelay`
is read and written in one step (`Schedule`): whatever another goroutine leaves there is in the same range.
`attempts` is a history variable.

An outcome is a result, an error, or an error with a result: conditions on results compare the result
whatever the error is (`Returning`), and errors come with the zero value unless they say otherwise.
The properties speak of the builder's calls, not of the configuration that they left. `Uses` are
the sequences of calls and the runners; `IsCall` says which arguments a call is made for: at least one
error for `HandleErrors`, counts of -1 or more, delays that are not negative and random delays whose ends
are in order.

### Budget and HedgePolicy

`Budget` has the two atomic counters `executions` and `inflight`. Nothing but each single load and add is
atomic, so `TryAcquirePermit` goes through `LoadInflight`, `LoadExecutions`, `LoadRate` (the load of
`Rate()` that divides), `AddInflight` and `AddExecutions`, and a release through two steps. Executions
with retries (`RetryStarts`, `RetryAcquires`, ...) are its users; a rate is in percent.

`HedgePolicy` extends `Budget` with one hedged execution: its goroutine (`pc`), the goroutines of its
attempts (`attempt`, `value`), the buffered result channel, the attempts' own contexts (`ctxDone`) below
the parent's (`parentDone`), and the loop that cancels the attempts one after the other (`CancelAttempt`).
`Conditions` are those of the builder's `CancelOn` calls; without any, `Build` makes every result final.
The delay function may ask for a timer or for none at every attempt, which covers delay quantiles with too
few executions; the timer may fire at any time. The attempts call one function without `DeferCancel`.

### RateLimiter

Smooth and bursty statistics with the code's integer arithmetic, the builders, and callers. Reserving is
one step under the mutex; the caller then sleeps outside of it (`"waiting"`) until its timer or its
context ends the wait, and reserved permits are not given back. `now` is the clock, `start` the
stopwatch's last `Reset`. `granted`, `lastUse` and `burst` are history variables: what was granted, and
for when.

### AdaptiveLimiter

Acquiring (with the queueing variant's check of the queue in a step of its own), noting the inflight
count, recording or dropping, and `updateLimit`, which gives `mu` up for `onLimitChanged` and stores a
limit that it computed before; `Reset` and other updates run in between. Its semaphore is an instance of
`PermitPool` with the sizes from `MinLimit` to `MaxLimit`, so the semaphore's detail is replaced by what
was shown of it. Limits are multiples of
`1/Unit`, so that the limit and its integer part differ. What round trip times, gradients and
correlations say about a full window is the environment's choice among the adjustments of the code.

### Prioritizer and UsageTracker

`UsageTracker` has the users with their usage, expiry and least-recently-used order, calibration and the
level of a user. `Prioritizer` adds the level tracker's ring, the registered policies and calibration in
its steps: `Compute` under the mutex, `Swap` after it, then the usage tracker. Admission by limiters and
throttlers reads the threshold without the mutex and records the level later. A context's level comes from
its user, its priority, or with a request through `failsafehttp` or `failsafegrpc`.

### Windows

`MovingSum` and `CorrelationWindow`, `MaxWindow`, `MovingMedian`, `countingStats` and the bucketed window
behind `timedStats`, all fed with the same samples. The properties recompute their content from `history`.

### HttpClient

The contexts of one call: the request's, the executor's, those made by merging (with the goroutine that
propagates a parent's end) and those of timeouts and hedges; the response whose wrapped body cancels them
when it is closed (`Close`); retries, timeouts and hedges as far as they begin and end attempts. The
interceptors of gRPC and the handlers of both servers differ in which contexts they merge.

## 3. Runs

| Run | States | Bounds | Shows |
|---|---|---|---|
| `semaphore` | 80,832 | 3 callers, sizes 0, 1 and 2 | `PermitsConserved`, `WaitersOnlyWhenFull`, `NeverOverAdmits`, `ImplementsPermitPool`, `BlockedCallerServed` |
| `breaker_safety` | 6,732 | 4 executions, 1 operator, thresholds 2 of 3, delays 0 to 2, all listeners | `ThresholdsActedUpon`, `HalfOpenNeverExhausted`, `OpenHoldsForDelay` |
| `breaker_live` | 9,580 | 3 executions, a failure rate of 67% over at least 3 results, `MaxResults` 4, no success threshold | `RecoversWhenHealthy` with time based stats and rates |
| `execution` | 35,377 | 11 stacks of at most 3 policies, asynchronous and synchronous, at most 3 retries in a stack; 3 stacks with one timeout and `DeferCancel` | `AttemptsMatchExecutions`, `AttemptsBounded`, `TimeoutAnswerAgrees`, `NoRetryWhenCanceled`, `ChildContextsReleased`, `ExecutionEnds` |
| `retry` | 2,141,502 | all ordered pairs of 9 calls that set delays and limits and of 12 that set conditions; a delay with both kinds of jitter in either order; the HTTP and gRPC builders with each call; 2 runners with 1 and 2 retries; `AttemptsBound` 8, `MaxElapsed` 5 | `AttemptsAsConfigured`, `DelayAsConfigured`, `OutcomesHandledAsConfigured` |
| `hedge` | 138,674 | 2 hedges, 1 retrying execution, a budget of 1 permit or 15%, successes end hedging | `BudgetBalanced`, `BudgetOvershootBounded`, `NonFinalAnswerOnlyWhenAllIn`, `NoAttemptOutlivesTheCall`, `HedgingEnds` |
| `ratelimiter` | 150,094 | 1 waiting caller and any number of reservations, 2 smooth and 2 bursty limiters, requests of 0, 1 and 3, `MaxTime` 6, `MaxGranted` 6 | `RateHeld`, `GrantsInOrder`, `RejectionLeavesNoTrace` |
| `limiter` | 71,684 | 3 callers, limits from 1 to 2 in halves, windows of 2 samples, queueing and plain, with and without listener | `AdmissionWithinLimit`, `QueueOvershootBounded`, `WaitersServed` |
| `prioritizer` | 122,391 | 4 configurations, 3 users and a tracker of 2, 2 priorities of 2 levels, a ring of 2, `MaxTime` 3, `MaxUsage` 2, `MaxExecutions` 2 | `ThresholdIsQuantile`, `LighterUserPreferred`, `RejectionEndsWithOverload` |
| `windows` | 734,104 | samples of 0, 1 and 3 with 0 and 2, rings of 3, a window of 2, 2 buckets of 2, times 7 to 10, at most 5 samples | `CorrelationExact`, `OrderStatisticsExact`, `CountsExact` |
| `http` | 31,058 | all 36 combinations of kind, policy and contexts, 3 attempts | `ContextsLiveWhileNeeded`, `CanceledCallEnds`, `ContextsReleased` |
| `ratelimiter_burst` | violation | one bursty limiter, `MaxGranted` 8 | the finding below |

`TypeOK` is an invariant of `semaphore` and of `breaker_safety`; the `TypeOK` of `Execution`,
`RateLimiter`, `HedgePolicy` and `AdaptiveLimiter` are proved.

Why these bounds. Three callers are a holder, a waiter that gives up and a newcomer that could overtake,
so that a grant, a timeout and a new call can meet; size 0 makes everyone wait, and a growth from 0 to 2
wakes several. For the breaker, four executions outnumber the half-open permits, so that late results,
trials and rejections coexist; the thresholds are below their capacities, so that all three outcomes of a
check occur. The stacks put each policy that cancels inside and outside of each one that reacts to a
cancellation, and retries inside retries. Pairs of builder calls show every way in which one call
overrides another; `AttemptsBound` is beyond the 7 attempts that one of two racing runners reaches with 2 retries. With two hedges one attempt can
win, one lose and one be rejected by the budget; the bound that `BudgetOvershootBounded` gives is then 2,
below the 3 permits that these users could hold without a budget. The rate limiter's clock covers deficits
and idle times of several periods, and a request of 3 exceeds a period's permits. In the limiter two
updates overlap in their listeners while a third execution waits. The prioritizer's tracker must evict and
its ring wrap; `Windows`' rings wrap, and its clock starts at a bucket that is not the first, so that a
`Reset`, which sets the head back to 0, matters. Three attempts are a discarded one, a failing one and one
that is answered. What is proved (section 4) does not depend on these bounds.

`breaker_safety` uses symmetry among executions, which the module treats alike; it checks no liveness. No
run turns deadlock checking off: what has ended stutters explicitly (`Terminated`, `Settled`, ...).

### Fairness

- *Semaphore*: a goroutine whose channel is closed is scheduled, one that left its `select` gets the
  mutex, and holders release (executors do in `PostExecute` or a deferred call). Timers, contexts, new
  calls and resizes are not fair; the liveness property only speaks of sizes that stay positive.
- *Breaker*: executions go on being attempted, admitted ones end and are recorded, listeners return, time
  passes. Recovery of the guarded system (`Heal`) is not assumed; the property starts from it.
- *Execution*: the goroutine is scheduled, timers fire, a started `Cancel` returns, a fallback function
  returns. The user's function is only assumed to return once its context is done.
- *Hedge*: the execution's goroutine and those of its attempts are scheduled, and timers fire. The
  function is only assumed to return once its context is done; other executions need not go on.
- *Limiter*: a caller that has a permit goes on and gives it back. It competes for `mu`, which is why this
  fairness is strong; Go's mutexes do not starve anyone. New callers, timeouts, `Reset` and time are free.
- *Prioritizer*: calibrators calibrate again and again unless they are stopped, as the documentation asks
  of users; callers and load are free.
- *HTTP*: goroutines run, the caller closes the body that it got, and what sends a request returns once
  the request's context is done.

### Findings

- **A burst after a deficit** (`ratelimiter_burst`). When permits are overdrawn, a bursty limiter adds the
  permits of all periods that have passed without capping them (`ratelimiterstats.go:91`); otherwise it
  caps them at one period's. After a deficit and a long idle time one period has more permits than are
  configured. The long-run rate is still kept (`RateHeld`).

The following came up while modelling. They are visible in the models, but no run is about them.

- *Breaker*: every recorded result gives a half-open permit back, also one of an execution that was
  admitted before (`circuitstates.go:183`), so more trials may run at once than are configured; the metrics
  of an open breaker that was half-open are those of the half-open state (`circuitstates.go:83`); a mix of
  `WithFailureThresholdPeriod` and a larger ratio leaves a half-open state that cannot reach the ratio
  (`PeriodThenRatioUndecidable`); a rate's complement is a float and may miss equality by a rounding
  (`circuitstates.go:169`).
- *Execution*: between the two steps of `ExecutionResult.Cancel` a retry may reset the result that was set
  (`result.go:79-86`); `DeferCancel` below two timeouts only releases the inner context
  (`execution.go:213`); a timeout's `canceledResult` stays until the next retry is initialized and may
  answer for a later cancellation (`execution.go:188-196`).
- *Retry policy, attempts*: `retry.go:106` documents `WithMaxAttempts` as the maximum. Two goroutines that
  run the executor below a hedge policy exceed it, because `failedAttempts` and `retriesExceeded` are
  plain fields (`retryexecutor.go:103-108`). With 1 retry, 2 attempts: A and B fail; A reads 0 for its
  increment, B counts to 1, finds nothing exceeded and retries, fails and counts to 2; A stores 1 and finds
  nothing exceeded; B compares with the 1, retries a second time, fails, counts to 2 and sets
  `retriesExceeded`; A, late, sets it back to false, and B, reading it at line 108, retries a third time and
  makes its fourth attempt. `AttemptsAsConfigured` bounds what one of two can reach, `n(n+1)/2 + 1` attempts
  where `n` are configured, and TLC finds executions that do. `WithMaxAttempts(0)` means no limit.
- *Retry policy, delays*: `retry.go:131` and `137-140` say that `WithJitter` and `WithJitterFactor` replace
  each other. The builder keeps both and `adjustForJitter` looks at the duration first, so that
  `WithJitterFactor` after `WithJitter` is ignored (`retry.go:317`, `retryexecutor.go:161-168`).
  `WithDelay(0)` after `WithRandomDelay` leaves the random delay in place (`retryexecutor.go:144-159`).
  `DelayAsConfigured` states both as the code has them.
- *Windows*: `CorrelationWindow.Add` takes out the product of what leaves the two rings only if the ring of
  `x` is full, and the rings skip zeros each on its own (`windows.go:112-120`, `29`). After a pair with a
  zero on one side the rings are out of step: with a capacity of 3, the pairs (1,2), (2,0), (3,2) and
  (1,2) leave the product 1*2 of the first in `corrSumXY` for good, and later ones take out products of values
  that never were a pair. `CorrelationExact` is therefore about series whose zeros come together. In the
  adaptive limiter the defect is latent: it needs a round trip time or a number of executions in flight of 0.
- *HTTP*: responses that a retry or a hedge throws away are never closed, so their contexts stay
  (`client.go:163`); the goroutine of a merged context lives until a parent is done (`util.go:88`); hedges
  share the position of a seekable body (`client.go:218`).
- *Limiters*: `WithLimits` with a minimal and initial limit of 0 raises only the former to 1 (`adaptivelimiter.go:300`); the
  throttler reads its counts without expiring old ones (`adaptivethrottler.go:187`).
- *Prioritizer*: the function that stops scheduled calibrations panics when it is called twice
  (`internal/prioritizer.go:181`).

## 4. Proofs

All proofs hold for every value of the constants that satisfies the modules' named assumptions, the bounds
of the runs (`MaxTime`, `MaxGranted`, `AttemptsBound`, ...) included. Each module has one inductive invariant
`IInv` (`ExecutionProofs` builds three more on top, and the modules about several components have one for
each: `UsageInv`, `LevelsInv` and `WindowsInv`, `IInv` and `RetryInv`), shown to hold initially and to be
kept by every action, one lemma per action or kind of action; the listed theorems follow from it.

| Module | Theorem | Property |
|---|---|---|
| `DynamicSemaphoreProofs` | `TypeCorrect`, `PermitConservation`, `NoLostWakeup`, `QueueConsistency`, `AdmissionBound` | `TypeOK`, `PermitsConserved`, `WaitersOnlyWhenFull`, (the queue), `NeverOverAdmits` |
| | `SemaphoreImplementsPool` | `ImplementsPermitPool`, the refinement |
| `CircuitBreakerProofs` | `TypeCorrect`, `DecisionsAreTaken`, `HalfOpenPermitsKept`, `OpenBreakerHolds` | `TypeOK`, `ThresholdsActedUpon`, `HalfOpenNeverExhausted`, `OpenHoldsForDelay` |
| | `BuilderDecides` | `OneFailureCallDecides`, for all numbers |
| `ExecutionProofs` | `TypeCorrect`, `AttemptsAccounted`, `RetriesStopWhenCanceled`, `TimeoutAnswers` | `TypeOK`, `AttemptsMatchExecutions`, `NoRetryWhenCanceled`, `TimeoutAnswerAgrees` |
| | `AttemptsLimited` | `AttemptsBounded` |
| | `TimeoutContextsReleased` | `ChildContextsReleased`, for covered stacks |
| `RateLimiterProofs` | `TypeCorrect`, `LongRunRate`, `GrantOrder`, `NoTraceOfRejections` | `TypeOK`, `RateHeld`, `GrantsInOrder`, `RejectionLeavesNoTrace` |
| `HedgePolicyProofs` | `TypeCorrect`, `BudgetConservation`, `OvershootIsBounded`, `NoBetterAnswerLost`, `AttemptsEndWithTheCall` | `TypeOK`, `BudgetBalanced`, `BudgetOvershootBounded`, `NonFinalAnswerOnlyWhenAllIn`, `NoAttemptOutlivesTheCall` |
| `AdaptiveLimiterProofs` | `TypeCorrect`, `AdmittedWithinLimit`, `QueueIsBounded` | `TypeOK`, `AdmissionWithinLimit`, `QueueOvershootBounded` |
| | `LimiterUsesPool` | `Semaphore!Spec`, what `PermitPool` allows |
| `RequestProofs` | `ContextsLive` | `ContextsLiveWhileNeeded` |
| | `AttemptsConfigured`, `DelaysConfigured`, `OutcomesHandled` | `AttemptsAsConfigured`, `DelayAsConfigured`, `OutcomesHandledAsConfigured` |
| `StatisticsProofs` | `LighterUsersPreferred`, `ThresholdsAreQuantiles` | `LighterUserPreferred`, `ThresholdIsQuantile` |
| | `CountsAreExact`, `CorrelationsAreExact`, `OrderStatisticsAreExact` | `CountsExact`, `CorrelationExact`, `OrderStatisticsExact` |

Several of these speak of recursive functions. The library's induction theorems take an operator as a
parameter, which the provers cannot instantiate; but well-foundedness of the natural numbers is a
statement about sets. `Induction` and `NaturalInduction` are derived from it (a set without a least
number that is left out leaves out none), and each recursive function gets its induction by collecting
the numbers up to which the claim holds in a set.

**DynamicSemaphoreProofs** assumes a finite set of callers and sizes that are natural numbers. The
inductive invariant is the conjunction of `TypeOK`, `PermitsConserved`, `WaitersOnlyWhenFull` and
`QueueMatchesBlocked`; none is inductive alone. That `Release` conserves permits needs that the woken
caller is not yet an owner, which is `QueueMatchesBlocked`; that one wakeup per release is enough needs
`WaitersOnlyWhenFull` before the step and `PermitsConserved` to know that `used` is positive. The
lemmas about queues (dropping the oldest, removing one) and about the cardinality of the owners carry the
arithmetic. `NeverOverAdmits` follows from the same invariant. So does the refinement: the mapping takes a
caller whose grant raced with its timeout for an owner, and then each action is one of the pool's or
changes nothing of it, `PermitsConserved` turning the code's comparisons of `used` into the pool's
comparisons of the number of owners.

**CircuitBreakerProofs** assumes thresholds of at most their capacities, positive where configured, an
execution threshold that does not cut a count threshold off, and a finite set of executions; it covers
count, period and rate based thresholds. `StateConsistent` strengthens the invariant: the stats' capacity
and the permits are those that belong to the state. `ThresholdsActedUpon` then reduces to arithmetic on
the numbers of successes and failures, which add up to the length of the window, and on their rates, which
after rounding add up to at least 100 (`RatesAddUp`), so that a half-open breaker with enough results has
always reached one of its two thresholds. `OpenHoldsForDelay` needs no invariant: it is shown of each step.
`BuilderDecides` gives the assumptions on thresholds for one failure threshold and one success threshold of
any size, set in either order: a call for one leaves the fields of the other alone.

**ExecutionProofs** holds for every stack of policies of any depth, with any number of retries, and for
synchronous and asynchronous executions with or without `DeferCancel`. The invariant adds three
facts to the types: a context's ancestors include those ancestors' own ancestors (so one step of
cancellation reaches all descendants); along the levels that the goroutine has gone down each context is
an ancestor of those further down (`Chain`); and a policy other than a timeout has passed its own context
on (`PassedOn`), so that a retry goes down again with the context that it checks. `NoRetryWhenCanceled`
follows: the retry executor looks at one context only, and all the contexts above it are its ancestors.

For `TimeoutAnswerAgrees` a second invariant (`AnswerInv`) says that the context that a timeout made stays
that of the level below it while the goroutine is down there (`TimeoutCtxs`), that `ErrExceeded` never
stands in a result before some timer has won (`AnswersOfTimers`), and what the outermost timeout has
answered (`OutermostAnswer`). For `ChildContextsReleased` a third one (`ReleaseInv`) says that a context
which its timeout left alone is one that the function returned by `DeferCancel` is still to cancel
(`LeftoversPending`). This is stated for `Covered` stacks: all those whose function does not defer, and
those in which a deferring function runs once below a single timeout. The hypothesis is needed, TLC finds
a leaked context in a deferring `<<retry, timeout>>` and `<<timeout, timeout>>` (`DeferCancel`'s function
cancels one context, see the findings); the runs with `DeferCancel` use covered stacks.

For `AttemptsBounded` a fourth one (`RetriesCounted`) says that the retries can be laid to the levels that
began them: there is a function `made`, from each level to the retries begun there or further down, such
that each level's share is at most its `failedAttempts` and at most what its policy allows, and strictly
less than the former while a retry of that level is under way. A retry adds one at its level and at all
above. The bound, a sum along the stack, then follows by induction from the innermost level outwards.

**RateLimiterProofs** assumes what keeps the code from dividing by zero: positive periods and numbers of
executions, and an interval of at least one unit. `RateHeld` speaks of the last grant; it becomes inductive
with the relation between the statistics and all grants so far: a smooth limiter's next free time is the
end of the intervals that it gave away (`SmoothAccounts`), and what a bursty limiter has left, which is
negative in a deficit, is at most what the periods so far gave minus what was granted (`BurstyAccounts`).
Most of the work is integer division: the lemmas on quotients and products come first.
`RejectionLeavesNoTrace` compares the waits that all later requests would have before and after a step.

**HedgePolicyProofs** assumes a finite set of other users and natural numbers for the budget and the hedges.
`BudgetBalanced` needs that a user is inside `TryAcquirePermit` exactly when its executor waits for it
(`CallsMatch`), that hedges start in order (`HedgesStartInOrder`) and that the channel holds each result
that was sent once (`ChannelHoldsSent`). Counting lemmas say how the number of users or attempts in a state
changes when one of them moves. For `BudgetOvershootBounded` a user that has passed the check counts as if
it had its permit.

**AdaptiveLimiterProofs** assumes finitely many callers, configurations with the three options, a minimal
limit of at least 1 and an initial limit within the limits. It uses the actions of `PermitPool`, which
`SemaphoreImplementsPool` justifies. The semaphore's size is the integer part of the limit at every step
(`LimitInForce`), also when a listener holds up a limit that was computed before (`PendingLimits`); for the
queue, a caller between check and acquire counts as if it was queued already (`ChecksCounted`).
`LimiterUsesPool` says that the limiter uses no more than the pool offers: every step of it is a step of
the pool for one caller, a resize within the limits, or leaves the pool alone.

**RequestProofs** is about `HttpClient` and `RetryPolicy`. Of the former it says why each context that is
done is (`OuterReason`, `Reason`): an owner canceled, the attempt's timeout expired, its request has ended
and no body is open, or the call returned another response. Reasons do not go away, and a context that ends
with its parent has the parent's reason.

Of the retry policy it assumes any set of uses whose calls are those of `IsCall`, an integration's builder
only in the first place, and finitely many runners. The first half is about the builder: by induction over
the calls the configuration `Reflects` them, that is, each number is the one that the last of its
`Setters` gave it (or the default), the failure and the abort conditions are those of the calls, and errors
are checked exactly if a call is about errors.
`OutcomesHandled` follows from this, for each step that handles an outcome.

The second half is about the loop. `Due(r)` is what runner `r` has attempted, is bound to attempt, and may
still attempt if nobody else touches the counter; its own steps never raise it, which for one runner is the
bound (`AloneOK`). Two runners (`PairOK`) need a potential. When the counter that `a` sees has passed the
limit, only `b`, which may have read it long ago (`Stale`), can set it back, to one more than it read. As
`b` reads the counter anew each time, the next setback is to a higher number, so that the rounds get shorter
(`Rounds`). Once more `b` can help `a`, by overwriting `retriesExceeded` with a comparison made before the
retries were used up, unless they are already `Shown`: nobody is still to store a smaller number or an old
comparison. Twice `Due(a)`, plus `k(k+1)` for rounds of at most `k`, plus 2 as long as it can be hidden,
never exceeds `n(n+1) + 2`. TLC reaches the bound; three runners can exceed it, which is why the property
is about one and two. `DelaysConfigured` shows that a delay before
jitter is one that the last calls allow (`DelayIsConfigured`), backoff included because `lastDelay` stays
between the delay and its maximum (`LastDelayOK`), that jitter moves it by at most `Slack`
(`JitterWithin`), and that what was set when a runner began to wait stays true while others go on.

**StatisticsProofs** is about the usage tracker and the level tracker as `Prioritizer` drives them, and
about `Windows`. `QuantilesSorted` relates a usage tracker's entries pairwise, by the usage that the last
calibration weighed (`weighed`) and not by the present one, which may have grown or expired since; the
lemmas `Shares` and `LevelOffsets` say that rounding keeps the order. `LevelsInv` says that the level
tracker's counts are the sizes of sets of ring positions; the threshold, found by a sum over the counts, is
then a quantile of the positions. It assumes contexts with a level or a priority of the configured ones
(`ContextsAssumption`), and rates (`Rates`) of 1 to 100 percent.

For the windows the invariant relates each structure to the samples since the last `Reset`. A ring holds
sample `n` at position `n` modulo its capacity (`RingHolds`), so that what is overwritten is the oldest.
Running sums are differences of prefix sums (`PrefixSums`), which turns removing the oldest and adding the
newest into one subtraction each. As long as zeros come in step (`InStep`), the two rings of a correlation
window hold values of the same pairs, and the products are such a sum as well (`CorrelationOK`). A bucket holds the results of its own time only, and the summary those of
all that have not expired (`TimedOK`); expiring takes the buckets out one after the other, and after
`BucketCount` of them none is left. The deque's values fall, and for every young sample it has one that is no
lower and no older (`DequeOK`). The sorted copy is the ring in some order, and such an order exists for every
content (by `Selection`, which sorts one more position at a time). `Reset` is the initial state again. The
samples, the times and all capacities are arbitrary natural numbers.

Only model-checked:

- liveness, which is out of the prover's reach: `BlockedCallerServed`, `RecoversWhenHealthy`,
  `ExecutionEnds`, `HedgingEnds`, `WaitersServed`, `RejectionEndsWithOverload`, `CanceledCallEnds`,
  `ContextsReleased`;
- `BurstBounded`, which is false (see the findings).

## 5. Not modelled

- Panics of user functions: the code does not recover from them.
- Event listeners other than those of the breaker and the adaptive limiter, which run without a lock in
  the middle of an operation; loggers.
- Float arithmetic (quantiles, gradients, exponential averages): out of TLC's reach. Where a decision
  depends on it, it becomes a nondeterministic choice; where floats are only rates, they are hundredths.
- The bulkhead's buffered channel, whose blocking and waking are the Go runtime's; the contents of a cache,
  which belong to the user's cache; the coin flip of the plain throttler.
- Bodies of requests (buffering, rewinding), response contents, the gRPC tap handle.
- Reads that the code makes one after the other and the model makes at once, because no property depends on
  what happens in between: `UsageTracker.GetLevel` reads an entry's window and its quantile in one state
  (`usage.go:122-132`); the priority limiter's check of the level and its later `IsFull` are one step
  (`prioritylimiter.go:120`, `125`); the queueing limiter's three locked reads before it asks for a permit
  are one (`queueinglimiter.go:48`).
- Overflow of 64-bit durations in the rate limiter.
- The repository's test support.

## 6. Plan

Every component is modelled as far as listed in `PROJECT.json`, and every safety property that a passing
run checks is proved. What could be added:

1. `RetryPolicy`: how far three and more runners can go beyond the configured attempts; the lost updates of
   one are then covered up by another's, and the potential of two does not carry over.
2. `CircuitBreakerBuilder`: which sequences of several calls for the failure threshold keep a breaker
   decidable.
3. `Bulkhead`: a module for its channel of permits, once its waiting is worth more than Go's guarantees.
