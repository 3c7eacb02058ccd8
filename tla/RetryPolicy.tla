---------------------------- MODULE RetryPolicy ----------------------------
(***************************************************************************)
(* The retry policy (src/retrypolicy), from the calls of its builder to    *)
(* the last attempt: the conditions that classify an outcome               *)
(* (policy/policy.go), the delays between attempts, and the loop of its    *)
(* executor.  The builders that failsafehttp and failsafegrpc start from   *)
(* are included.                                                           *)
(*                                                                         *)
(* One executor is shared by all the goroutines that run it: below a hedge *)
(* policy several of them (Runners) change failedAttempts, retriesExceeded *)
(* and lastDelay without a lock.  Each read and each write of the first    *)
(* two is a step of its own, so that updates can be lost.  getDelay's use  *)
(* of lastDelay is one step: whatever another goroutine stores there is a  *)
(* delay of the same range, which is all that is said of delays.           *)
(***************************************************************************)
EXTENDS Integers, Sequences, FiniteSets

CONSTANTS
  Uses,        \* how the policy is built and run: [calls, runners]
  AttemptsBound, \* bound: attempts of one runner that may fail
  MaxElapsed     \* bound: time an execution may take

(***************************************************************************)
(* Outcomes of an attempt: a result, and possibly an error.  zero is the   *)
(* zero value of the result type, which comes with most errors and may     *)
(* come without one.  A busy response is a 429 or a 5xx; one may carry a   *)
(* Retry-After header, and that header may be negative.  A terminal error  *)
(* is one of those failsafehttp does not retry (scheme, certificate,       *)
(* redirects, authority); a transient one has a gRPC code that is retried; *)
(* busyInternal is an internal error that comes with a busy result.        *)
(* errors.Is and ErrorTypesMatch follow the chain of wrapped errors: Is(t) *)
(* are the outcomes they match with the error t.                           *)
(***************************************************************************)
Results  == {"zero", "ok", "busy", "busyRetryAfter", "busyRetryBefore", "notImplemented"}
Errors   == {"transient", "internal", "terminal", "canceled", "wrapsCanceled", "budgetExceeded"}
Errs     == Errors \cup {"busyInternal"}
Outcomes == Results \cup Errs

ResultOf(o) == IF o \in Results THEN o ELSE IF o = "busyInternal" THEN "busy" ELSE "zero"

Is(target) ==
  CASE target = "canceled" -> {"canceled", "wrapsCanceled"}
    [] target = "internal" -> {"internal", "busyInternal"}
    [] OTHER               -> {target}

(***************************************************************************)
(* The calls a builder is made for: a count is -1 or more, a delay is not  *)
(* negative and the ends of a random one are in order.                     *)
(***************************************************************************)
IsCall(k) ==
  \/ k.op \in {"HandleErrors", "AbortOnErrors"} /\ k.arg \subseteq Errors /\ k.arg # {}
  \/ k.op \in {"HandleIf", "AbortIf"} /\ k.arg \subseteq Outcomes
  \/ k.op \in {"HandleResult", "AbortOnResult"} /\ k.arg \in Results
  \/ k.op \in {"WithMaxAttempts", "WithMaxRetries"} /\ k.arg \in Nat \cup {-1}
  \/ k.op \in {"WithMaxDuration", "WithDelay", "WithJitter", "WithJitterFactor"} /\ k.arg \in Nat
  \/ k.op = "WithBackoff" /\ k.arg[1] \in Nat /\ k.arg[2] \in Nat
  \/ k.op = "WithRandomDelay" /\ k.arg[1] \in Nat /\ k.arg[2] \in Nat /\ k.arg[1] <= k.arg[2]
  \/ k.op \in {"ReturnLastFailure", "WithDelayFunc", "WithBudget", "http", "grpc"}

\* The integrations' builders are where a sequence of calls starts.
ASSUME UsesAssumption ==
  /\ AttemptsBound \in Nat /\ MaxElapsed \in Nat
  /\ \A use \in Uses :
       /\ IsFiniteSet(use.runners)
       /\ Len(use.calls) \in Nat /\ DOMAIN use.calls = 1 .. Len(use.calls)
       /\ \A i \in 1 .. Len(use.calls) :
            IsCall(use.calls[i]) /\ (use.calls[i].op \in {"http", "grpc"} => i = 1)

VARIABLES
  calls,             \* the builder calls that were made
  config,            \* the configuration they left behind
  failedAttempts, retriesExceeded, lastDelay,   \* the executor's fields, shared by the runners
  retries,           \* the execution's counter, shared by its copies
  elapsed,           \* time since the execution started; kept at 0 without a maxDuration
  canceled,          \* whether the execution's context is done
  pc,                \* where each runner is in Apply
  outcome,           \* the outcome a runner handles
  seen,              \* the failedAttempts a runner has read and not yet incremented
  wait,              \* the delay a runner waits for
  attempts           \* history: the attempts each runner has made

retryVars == <<calls, config, failedAttempts, retriesExceeded, lastDelay, retries, elapsed, canceled,
               pc, outcome, seen, wait, attempts>>

executor == <<failedAttempts, retriesExceeded, lastDelay>>

Runners == DOMAIN pc

-----------------------------------------------------------------------------
(***************************************************************************)
(* The builder.  A condition is the set of outcomes it applies to.         *)
(***************************************************************************)
NewBuilder ==
  [failureConditions |-> {}, errorsChecked |-> FALSE, abortConditions |-> {},
   delay |-> 0, hasDelayFunc |-> FALSE, delayMin |-> 0, delayMax |-> 0, delayFactor |-> 0, maxDelay |-> 0,
   jitter |-> 0, jitterFactor |-> 0, maxDuration |-> 0, maxRetries |-> 2,
   returnLastFailure |-> FALSE, hasBudget |-> FALSE]

HandleErrors(c, errs) ==
  [c EXCEPT !.failureConditions = @ \cup {Is(e) : e \in errs}, !.errorsChecked = TRUE]

\* The outcomes whose result is r, whatever their error.
Returning(r) == {o \in Outcomes : ResultOf(o) = r}

HandleResultChecksErrors(c, r) ==
  [c EXCEPT !.failureConditions = @ \cup {Returning(r)}, !.errorsChecked = TRUE]

HandleResult(c, r) == [c EXCEPT !.failureConditions = @ \cup {Returning(r)}]

HandleIf(c, handled) ==
  [c EXCEPT !.failureConditions = @ \cup {handled}, !.errorsChecked = TRUE]

AbortOnResult(c, r)    == [c EXCEPT !.abortConditions = @ \cup {Returning(r)}]
AbortOnErrors(c, errs) == [c EXCEPT !.abortConditions = @ \cup {Is(e) : e \in errs}]
AbortIf(c, aborted)    == [c EXCEPT !.abortConditions = @ \cup {aborted}]

ReturnLastFailure(c) == [c EXCEPT !.returnLastFailure = TRUE]

WithMaxAttemptsUnadjusted(c, n) == [c EXCEPT !.maxRetries = n]

WithMaxAttempts(c, n) == [c EXCEPT !.maxRetries = IF n = -1 THEN -1 ELSE n - 1]
WithMaxRetries(c, n)  == [c EXCEPT !.maxRetries = n]
WithMaxDuration(c, d) == [c EXCEPT !.maxDuration = d]
WithDelay(c, d)       == [c EXCEPT !.delay = d]
WithDelayFunc(c)      == [c EXCEPT !.hasDelayFunc = TRUE]

WithBackoffFactor(c, d, max, factor) ==
  [WithDelay(c, d) EXCEPT !.maxDelay = max, !.delayFactor = factor, !.delayMin = 0, !.delayMax = 0]

WithBackoff(c, d, max) == WithBackoffFactor(c, d, max, 2)

WithRandomDelayKeepsFixed(c, min, max) == [c EXCEPT !.delayMin = min, !.delayMax = max]

WithRandomDelay(c, min, max) ==
  [c EXCEPT !.delayMin = min, !.delayMax = max, !.delay = 0, !.maxDelay = 0]

WithJitter(c, j) == [c EXCEPT !.jitter = j]

\* A jitter factor is given in quarters.
WithJitterFactor(c, quarters) == [c EXCEPT !.jitterFactor = quarters]

WithBudget(c) == AbortOnErrors([c EXCEPT !.hasBudget = TRUE], {"budgetExceeded"})

\* The builders of the integrations.  wrapsCanceled is a url.Error, which is retried as such, but
\* its cause aborts.
HttpRetryHandled ==
  {"busy", "busyRetryAfter", "busyRetryBefore"} \cup (Errs \ {"terminal"})

HttpBuilder == WithDelayFunc(AbortOnErrors(HandleIf(NewBuilder, HttpRetryHandled), {"canceled"}))
GrpcBuilder == HandleIf(NewBuilder, {"transient"})

Called(c, call) ==
  CASE call.op = "HandleErrors"      -> HandleErrors(c, call.arg)
    [] call.op = "HandleResult"      -> HandleResult(c, call.arg)
    [] call.op = "HandleIf"          -> HandleIf(c, call.arg)
    [] call.op = "AbortOnResult"     -> AbortOnResult(c, call.arg)
    [] call.op = "AbortOnErrors"     -> AbortOnErrors(c, call.arg)
    [] call.op = "AbortIf"           -> AbortIf(c, call.arg)
    [] call.op = "ReturnLastFailure" -> ReturnLastFailure(c)
    [] call.op = "WithMaxAttempts"   -> WithMaxAttempts(c, call.arg)
    [] call.op = "WithMaxRetries"    -> WithMaxRetries(c, call.arg)
    [] call.op = "WithMaxDuration"   -> WithMaxDuration(c, call.arg)
    [] call.op = "WithDelay"         -> WithDelay(c, call.arg)
    [] call.op = "WithDelayFunc"     -> WithDelayFunc(c)
    [] call.op = "WithBackoff"       -> WithBackoff(c, call.arg[1], call.arg[2])
    [] call.op = "WithRandomDelay"   -> WithRandomDelay(c, call.arg[1], call.arg[2])
    [] call.op = "WithJitter"        -> WithJitter(c, call.arg)
    [] call.op = "WithJitterFactor"  -> WithJitterFactor(c, call.arg)
    [] call.op = "WithBudget"        -> WithBudget(c)
    [] call.op = "http"              -> HttpBuilder
    [] call.op = "grpc"              -> GrpcBuilder

Build(cs) ==
  LET built[i \in 0 .. Len(cs)] == IF i = 0 THEN NewBuilder ELSE Called(built[i - 1], cs[i])
  IN built[Len(cs)]

-----------------------------------------------------------------------------
(***************************************************************************)
(* Classifying an outcome.                                                 *)
(***************************************************************************)
AppliesToAny(conditions, o) == \E condition \in conditions : o \in condition

IsFailure(o) ==
  \/ AppliesToAny(config.failureConditions, o)
  \/ o \in Errs /\ (config.failureConditions = {} \/ ~config.errorsChecked)

IsAbortable(o) == AppliesToAny(config.abortConditions, o)

allowsRetries == config.maxRetries = -1 \/ config.maxRetries > 0

-----------------------------------------------------------------------------
(***************************************************************************)
(* Delays.  rand.Float64 is below 1 and conversions to a duration cut      *)
(* towards zero; the sets are what can come out of them, for a factor in   *)
(* steps of a quarter.                                                     *)
(***************************************************************************)
AtMost(a, b)  == IF a < b THEN a ELSE b
AtLeast(a, b) == IF a > b THEN a ELSE b

RandomDelayInRange(min, max) == IF min < max THEN min .. max - 1 ELSE {min}
RandomDelay(d, j)            == d - (j - 1) .. d + j
RandomDelayFactor(d, q)      == {(d * i) \div 4 : i \in 4 - q .. 4 + q}

\* The header's seconds; -1 stands for no delay to compute.
DelayFunc(o) ==
  CASE o = "busyRetryAfter"  -> 3
    [] o = "busyRetryBefore" -> -2
    [] OTHER                 -> -1

ComputeDelay(o) == IF config.hasDelayFunc THEN DelayFunc(o) ELSE -1

Backoff(last) == AtMost(last * config.delayFactor, config.maxDelay)

BacksOff == lastDelay # 0 /\ retries >= 1 /\ config.maxDelay # 0

\* The delays getFixedOrRandomDelay may return and the lastDelay it leaves.
FixedOrRandomDelays ==
  IF config.delay # 0
  THEN LET d == IF BacksOff THEN Backoff(lastDelay) ELSE config.delay
       IN {[delay |-> d, last |-> d]}
  ELSE IF config.delayMin # 0 /\ config.delayMax # 0
  THEN {[delay |-> d, last |-> lastDelay] : d \in RandomDelayInRange(config.delayMin, config.delayMax)}
  ELSE {[delay |-> 0, last |-> lastDelay]}

BaseDelays(o) ==
  IF ComputeDelay(o) # -1 THEN {[delay |-> ComputeDelay(o), last |-> lastDelay]} ELSE FixedOrRandomDelays

Jittered(d) ==
  IF d = 0 THEN {d}
  ELSE IF config.jitter # 0 THEN RandomDelay(d, config.jitter)
  ELSE IF config.jitterFactor # 0 THEN RandomDelayFactor(d, config.jitterFactor)
  ELSE {d}

adjustForMaxDuration(d, time) ==
  AtLeast(0, IF config.maxDuration # 0 THEN AtMost(d, config.maxDuration - time) ELSE d)

-----------------------------------------------------------------------------
(***************************************************************************)
(* The loop of Apply.  A runner ends with the outcome itself, with the     *)
(* error of the canceled context, an ExceededError or budget.ErrExceeded.  *)
(***************************************************************************)
End(r, answer) ==
  /\ pc' = [pc EXCEPT ![r] = "done"]
  /\ outcome' = [outcome EXCEPT ![r] = answer]
  /\ UNCHANGED <<calls, config, executor, retries, elapsed, canceled, seen, wait, attempts>>

Goes(r, where) == pc' = [pc EXCEPT ![r] = where]

\* A step of r that changes nothing but its position.
GoesOn(r, where) ==
  /\ Goes(r, where)
  /\ UNCHANGED <<calls, config, executor, retries, elapsed, canceled, outcome, seen, wait, attempts>>

Later(d) == IF config.maxDuration = 0 THEN 0 ELSE AtMost(elapsed + d, MaxElapsed)

\* innerFn runs, for some time.
CallInner(r) ==
  /\ pc[r] = "call"
  /\ \E o \in Outcomes :
       /\ IsFailure(o) => attempts[r] < AttemptsBound
       /\ outcome' = [outcome EXCEPT ![r] = o]
  /\ \E d \in 0 .. 2 : elapsed' = Later(d)
  /\ attempts' = [attempts EXCEPT ![r] = @ + 1]
  /\ Goes(r, "returned")
  /\ UNCHANGED <<calls, config, executor, retries, canceled, seen, wait>>

\* innerFn has returned.
CheckCanceled(r) ==
  /\ pc[r] = "returned"
  /\ IF canceled THEN End(r, "ctx.Err") ELSE GoesOn(r, "checking")

CheckExceeded(r) ==
  /\ pc[r] = "checking"
  /\ IF retriesExceeded THEN End(r, outcome[r]) ELSE GoesOn(r, "handling")

\* PostExecute of a result that is no failure.
Succeeds(r) ==
  /\ pc[r] = "handling" /\ ~IsFailure(outcome[r])
  /\ End(r, outcome[r])

\* PostExecute calls OnFailure, whose increment reads failedAttempts first.
Fails(r) ==
  /\ pc[r] = "handling" /\ IsFailure(outcome[r])
  /\ seen' = [seen EXCEPT ![r] = failedAttempts]
  /\ Goes(r, "failed")
  /\ UNCHANGED <<calls, config, executor, retries, elapsed, canceled, outcome, wait, attempts>>

Increment(r) ==
  /\ pc[r] = "failed"
  /\ failedAttempts' = seen[r] + 1
  /\ seen' = [seen EXCEPT ![r] = 0]
  /\ Goes(r, "stored")
  /\ UNCHANGED <<calls, config, retriesExceeded, lastDelay, retries, elapsed, canceled, outcome, wait, attempts>>

\* failedAttempts is read again.
RetriesUsedUp == config.maxRetries # -1 /\ failedAttempts > config.maxRetries

DurationUsedUp == config.maxDuration # 0 /\ elapsed > config.maxDuration

Compare(r) ==
  /\ pc[r] = "stored"
  /\ GoesOn(r, IF RetriesUsedUp \/ DurationUsedUp THEN "exceeds" ELSE "within")

SetExceeded(r) ==
  /\ pc[r] \in {"exceeds", "within"}
  /\ retriesExceeded' = (pc[r] = "exceeds")
  /\ Goes(r, "counted")
  /\ UNCHANGED <<calls, config, failedAttempts, lastDelay, retries, elapsed, canceled, outcome, seen, wait, attempts>>

\* shouldRetry and done, from retriesExceeded as it is now.
Decide(r) ==
  /\ pc[r] = "counted"
  /\ GoesOn(r, IF IsAbortable(outcome[r]) \/ retriesExceeded \/ ~allowsRetries THEN "ending" ELSE "retrying")

\* The end of OnFailure, which reads retriesExceeded once more.
ReturnResult(r) ==
  /\ pc[r] \in {"ending", "retrying"}
  /\ IF retriesExceeded /\ ~config.returnLastFailure THEN End(r, "ExceededError")
     ELSE IF pc[r] = "ending" THEN End(r, outcome[r])
     ELSE GoesOn(r, "scheduling")

\* RecordResult and getDelay, which may run some time later.
Schedule(r) ==
  /\ pc[r] = "scheduling"
  /\ \/ canceled /\ End(r, "ctx.Err")
     \/ /\ ~canceled
        /\ \E d \in 0 .. 1 : elapsed' = Later(d)
        /\ \E base \in BaseDelays(outcome[r]) : \E d \in Jittered(base.delay) :
             /\ lastDelay' = base.last
             /\ wait' = [wait EXCEPT ![r] = adjustForMaxDuration(d, elapsed')]
        /\ Goes(r, "waiting")
        /\ UNCHANGED <<calls, config, failedAttempts, retriesExceeded, retries, canceled, outcome, seen, attempts>>

\* The timer has fired, or the execution was canceled: InitializeRetry and the budget.
Retry(r) ==
  /\ pc[r] = "waiting"
  /\ \/ canceled /\ End(r, "ctx.Err")
     \/ /\ ~canceled
        /\ retries' = AtMost(retries + 1, AttemptsBound)
        /\ elapsed' = Later(wait[r])
        /\ wait' = [wait EXCEPT ![r] = 0]
        /\ \/ Goes(r, "call") /\ outcome' = [outcome EXCEPT ![r] = "none"]
           \/ config.hasBudget /\ Goes(r, "done") /\ outcome' = [outcome EXCEPT ![r] = "budget.ErrExceeded"]
        /\ UNCHANGED <<calls, config, executor, canceled, seen, attempts>>

\* The owner of the context cancels it.
Cancel ==
  /\ ~canceled /\ \E r \in Runners : pc[r] # "done"
  /\ canceled' = TRUE
  /\ UNCHANGED <<calls, config, executor, retries, elapsed, pc, outcome, seen, wait, attempts>>

Ended == (\A r \in Runners : pc[r] = "done") /\ UNCHANGED retryVars

RetryInit ==
  \E use \in Uses :
    /\ calls = use.calls
    /\ config = Build(use.calls)
    /\ failedAttempts = 0 /\ retriesExceeded = FALSE /\ lastDelay = 0
    /\ retries = 0 /\ elapsed = 0 /\ canceled = FALSE
    /\ pc = [r \in use.runners |-> "call"]
    /\ outcome = [r \in use.runners |-> "none"]
    /\ seen = [r \in use.runners |-> 0]
    /\ wait = [r \in use.runners |-> 0]
    /\ attempts = [r \in use.runners |-> 0]

RunnerStep(r) ==
  \/ CallInner(r) \/ CheckCanceled(r) \/ CheckExceeded(r) \/ Succeeds(r)
  \/ Fails(r) \/ Increment(r) \/ Compare(r) \/ SetExceeded(r) \/ Decide(r) \/ ReturnResult(r)
  \/ Schedule(r) \/ Retry(r)

RetryNext == (\E r \in Runners : RunnerStep(r)) \/ Cancel \/ Ended

RetrySpec == RetryInit /\ [][RetryNext]_retryVars

-----------------------------------------------------------------------------
(***************************************************************************)
(* Properties.  What the documentation of the builder promises is stated   *)
(* over the calls that were made, not over the configuration they left.    *)
(***************************************************************************)
Made(op) == {i \in DOMAIN calls : calls[i].op = op}

\* The last call that is one of ops, or "none".
LastOf(ops) ==
  LET is == UNION {Made(op) : op \in ops}
  IN IF is = {} THEN [op |-> "none"] ELSE calls[CHOOSE i \in is : \A j \in is : j <= i]

\* The attempts the last of WithMaxAttempts and WithMaxRetries allows; 0 stands for no limit.
ConfiguredAttempts ==
  LET last == LastOf({"WithMaxAttempts", "WithMaxRetries"})
  IN CASE last.op = "WithMaxAttempts" -> IF last.arg = -1 THEN 0 ELSE last.arg
       [] last.op = "WithMaxRetries"  -> IF last.arg = -1 THEN 0 ELSE last.arg + 1
       [] OTHER                       -> 3

\* A goroutine that runs the policy alone makes at most the configured number of attempts.  Two of
\* them, below a hedge policy, lose increments of the shared counter and overwrite each other's
\* retriesExceeded, so that one may exceed what is configured.  The overshoot is bounded: whoever
\* read the counter early sets it back to one more than the time before, so that the other may fail
\* as often as configured, then once less, and so on down to one, and once more when the late write
\* of retriesExceeded hides that the retries are used up.
AttemptsAsConfigured ==
  LET n == ConfiguredAttempts
  IN n # 0 => \A r \in Runners :
       /\ Cardinality(Runners) = 1 => attempts[r] <= n
       /\ Cardinality(Runners) = 2 => attempts[r] <= (n * (n + 1)) \div 2 + 1

\* The calls that name failures, and those of them that are about errors.
CallHandles(k, o) ==
  \/ k.op = "HandleErrors" /\ \E e \in k.arg : o \in Is(e)
  \/ k.op = "HandleResult" /\ o \in Outcomes /\ ResultOf(o) = k.arg
  \/ k.op = "HandleIf" /\ o \in k.arg
  \/ k.op = "http" /\ o \in HttpRetryHandled
  \/ k.op = "grpc" /\ o = "transient"

ErrorChecks == {"HandleErrors", "HandleIf", "http", "grpc"}

\* The outcomes the calls make a failure: those a condition names, and the errors as long as no
\* condition is about errors.
HandledByCalls(o) ==
  \/ \E i \in DOMAIN calls : CallHandles(calls[i], o)
  \/ o \in Errs /\ LastOf(ErrorChecks).op = "none"

\* The calls that name outcomes to abort on.
CallAborts(k, o) ==
  \/ k.op = "AbortOnErrors" /\ \E e \in k.arg : o \in Is(e)
  \/ k.op = "AbortOnResult" /\ o \in Outcomes /\ ResultOf(o) = k.arg
  \/ k.op = "AbortIf" /\ o \in k.arg
  \/ k.op = "WithBudget" /\ o \in Is("budgetExceeded")
  \/ k.op = "http" /\ o \in Is("canceled")

AbortedByCalls(o) == \E i \in DOMAIN calls : CallAborts(calls[i], o)

\* A failure is retried and anything else returned, whatever the order in which the conditions
\* were configured: conditions on results apply with and without an error and leave the default
\* handling of errors in place, no attempt follows an outcome that any of the calls aborts on, and
\* none is held back for another reason than this and the limits.
OutcomesHandledAsConfigured ==
  [][\A r \in Runners :
       /\ pc[r] = "handling" /\ pc'[r] = "failed" => HandledByCalls(outcome[r])
       /\ pc[r] = "handling" /\ pc'[r] = "done" => ~HandledByCalls(outcome[r])
       /\ pc[r] = "counted" /\ pc'[r] = "retrying" => ~AbortedByCalls(outcome[r])
       /\ pc[r] = "counted" /\ pc'[r] = "ending" =>
            AbortedByCalls(outcome[r]) \/ retriesExceeded \/ ConfiguredAttempts = 1]_retryVars

\* The delays the last call that sets them allows: a call for another kind of delay replaces what
\* was set before.  WithDelay after WithBackoff keeps backing off to the maximum of the latter, and
\* WithDelay(0) after WithRandomDelay leaves the random delay.
ConfiguredDelays ==
  LET last == LastOf({"WithDelay", "WithBackoff", "WithRandomDelay"})
      range == LastOf({"WithBackoff", "WithRandomDelay"})
      upTo == IF range.op = "WithBackoff" THEN range.arg[2] ELSE 0
      random == IF range.op = "WithRandomDelay" THEN range.arg[1] .. range.arg[2] ELSE {0}
      Fixed(d) == IF d = 0 THEN random
                  ELSE IF upTo = 0 THEN {d} ELSE AtMost(d, upTo) .. AtLeast(d, upTo)
  IN CASE last.op = "WithDelay"       -> Fixed(last.arg)
       [] last.op = "WithBackoff"     -> Fixed(last.arg[1])
       [] last.op = "WithRandomDelay" -> random
       [] OTHER                       -> {0}

\* By how much jitter may change a delay of d.  The factor applies only without a duration: of
\* WithJitter and WithJitterFactor, neither replaces the other, whatever their order.
Slack(d) ==
  LET j == LastOf({"WithJitter"})  f == LastOf({"WithJitterFactor"})
  IN IF d = 0 THEN 0
     ELSE IF j.op # "none" /\ j.arg # 0 THEN j.arg
     ELSE IF f.op # "none" THEN (AtLeast(d, -d) * f.arg + 3) \div 4 ELSE 0

\* A delay differs from a configured one by the jitter at most, is never negative, and is cut short
\* only by the maximum duration, which it never exceeds unless another goroutine takes that time.
DelayAsConfigured ==
  \A r \in Runners : pc[r] = "waiting" =>
    /\ wait[r] >= 0
    /\ config.maxDuration # 0 /\ Cardinality(Runners) = 1 =>
         wait[r] <= AtLeast(0, config.maxDuration - elapsed)
    /\ \E d \in IF ComputeDelay(outcome[r]) # -1 THEN {ComputeDelay(outcome[r])} ELSE ConfiguredDelays :
         /\ wait[r] <= AtLeast(0, d + Slack(d))
         /\ \/ wait[r] >= d - Slack(d)
            \/ config.maxDuration # 0 /\ elapsed + wait[r] >= config.maxDuration

=============================================================================
