---------------------------- MODULE RateLimiter ----------------------------
(***************************************************************************)
(* The rate limiter (src/ratelimiter): the smooth statistics, which hand   *)
(* out one permit per interval, the bursty ones, which hand out            *)
(* periodPermits per period and may run into a deficit, and the callers    *)
(* that reserve permits under the mutex, sleep outside it until the        *)
(* permits may be used, and may be canceled while they sleep.              *)
(*                                                                         *)
(* Time is a clock in an arbitrary unit; the stopwatch of the statistics   *)
(* shows the time since the last Reset.  The integers are unbounded: the   *)
(* overflow of 64-bit durations is outside the model.                      *)
(***************************************************************************)
EXTENDS Integers

CONSTANTS
  Callers,        \* goroutines that wait for permits
  Builders,       \* the builder calls that are explored, see Build
  Requests,       \* how many permits a call may ask for
  MaxWaits,       \* maxWaitTime arguments; -1 means no limit
  MaxTime,        \* bound: the clock stops here
  MaxGranted      \* bound: permits granted since the last Reset

ASSUME BoundsAssumption ==
  /\ Requests \subseteq Nat
  /\ MaxWaits \subseteq Int
  /\ MaxTime \in Nat /\ MaxGranted \in Nat

(***************************************************************************)
(* A builder names the constructor that was called and its arguments.  An  *)
(* interval of 0, or a period of 0, would divide by zero in the code.      *)
(***************************************************************************)
ASSUME BuildersAssumption ==
  \A b \in Builders :
    /\ b.new \in {"NewSmoothBuilder", "NewSmoothBuilderWithMaxRate", "NewBurstyBuilder"}
    /\ b.maxExecutions \in Nat \ {0} /\ b.period \in Nat \ {0} /\ b.maxWaitTime \in Int
    /\ b.new = "NewSmoothBuilder" => b.maxExecutions <= b.period

VARIABLES
  config,              \* the built configuration
  now, start,          \* the clock, and when the stopwatch was started
  nextFreePermitTime,  \* smooth
  availablePermits,    \* bursty, negative in a deficit
  currentPeriod,       \* bursty
  pc,                  \* Callers -> what the caller is doing
  usableAt,            \* Callers -> when the timer of a waiting caller fires
  ctxDone,             \* Callers -> whether the caller's context is done
  granted,             \* history: permits granted since the last Reset
  lastUse,             \* history: stopwatch time at which the last grant may be used
  burst                \* history: permits granted for the interval or period of lastUse

stats == <<start, nextFreePermitTime, availablePermits, currentPeriod>>
callers == <<pc, usableAt, ctxDone>>
history == <<granted, lastUse, burst>>
vars == <<config, now, stats, callers, history>>

States == {"idle", "waiting", "executing", "exceeded", "canceled"}
Ended == {"executing", "exceeded", "canceled"}

-----------------------------------------------------------------------------

NewSmoothBuilder(b) ==
  [interval |-> b.period \div b.maxExecutions, periodPermits |-> 0, period |-> 0]

NewSmoothBuilderWithMaxRate(b) ==
  [interval |-> b.period, periodPermits |-> 0, period |-> 0]

NewBurstyBuilder(b) ==
  [interval |-> 0, periodPermits |-> b.maxExecutions, period |-> b.period]

Build(b) ==
  [rate |-> CASE b.new = "NewSmoothBuilder" -> NewSmoothBuilder(b)
              [] b.new = "NewSmoothBuilderWithMaxRate" -> NewSmoothBuilderWithMaxRate(b)
              [] b.new = "NewBurstyBuilder" -> NewBurstyBuilder(b),
   maxWaitTime |-> b.maxWaitTime]

interval == config.rate.interval
period == config.rate.period
periodPermits == config.rate.periodPermits

Smooth == interval # 0

ElapsedTime == now - start

RoundDown(input, i) == input - (input % i)

AtLeastZero(i) == IF i < 0 THEN 0 ELSE i

-----------------------------------------------------------------------------
(***************************************************************************)
(* smoothStats.                                                            *)
(***************************************************************************)
NextFreeFromNow(requested) == RoundDown(ElapsedTime, interval) + interval * requested

NewNextFreePermitTime(requested) ==
  (IF ElapsedTime >= nextFreePermitTime THEN RoundDown(ElapsedTime, interval)
                                        ELSE nextFreePermitTime)
    + interval * requested

SmoothWait(requested) ==
  AtLeastZero(NewNextFreePermitTime(requested) - ElapsedTime - interval)

(***************************************************************************)
(* burstyStats.  RefreshedPermits are the permits available once the       *)
(* current period is brought up to date.                                   *)
(***************************************************************************)
NewCurrentPeriod == ElapsedTime \div period

CappedRefresh ==
  IF currentPeriod < NewCurrentPeriod THEN periodPermits ELSE availablePermits

RefreshedPermits ==
  IF currentPeriod < NewCurrentPeriod
    THEN IF availablePermits < 0
           THEN availablePermits + (NewCurrentPeriod - currentPeriod) * periodPermits
           ELSE periodPermits
    ELSE availablePermits

RefreshedPeriod ==
  IF currentPeriod < NewCurrentPeriod THEN NewCurrentPeriod ELSE currentPeriod

\* A period of which no permit is used is not waited for.
AdditionalPeriods(requested) ==
  LET permitDeficit == requested - RefreshedPermits
  IN (permitDeficit \div periodPermits)
       - (IF permitDeficit % periodPermits = 0 THEN 1 ELSE 0)

BurstyWait(requested) ==
  IF requested > RefreshedPermits
    THEN ((RefreshedPeriod + 1) * period - ElapsedTime)
           + AdditionalPeriods(requested) * period
    ELSE 0

WaitTime(requested) == IF Smooth THEN SmoothWait(requested) ELSE BurstyWait(requested)

ExceedsMaxWaitTime(waitTime, maxWaitTime) == maxWaitTime # -1 /\ waitTime > maxWaitTime

\* The interval or the period a stopwatch time belongs to.
Slot(t) == t \div (IF Smooth THEN interval ELSE period)

(***************************************************************************)
(* acquirePermits that succeeds: the permits are taken from the future.    *)
(***************************************************************************)
Grant(requested) ==
  LET use == ElapsedTime + WaitTime(requested)
  IN /\ granted + requested <= MaxGranted
     /\ granted' = granted + requested
     /\ IF requested = 0
          THEN UNCHANGED <<lastUse, burst>>
          ELSE /\ lastUse' = use
               /\ burst' = IF Slot(use) = Slot(lastUse) THEN burst + requested ELSE requested
     /\ IF Smooth
          THEN /\ nextFreePermitTime' = NewNextFreePermitTime(requested)
               /\ UNCHANGED <<availablePermits, currentPeriod>>
          ELSE /\ availablePermits' = RefreshedPermits - requested
               /\ currentPeriod' = RefreshedPeriod
               /\ UNCHANGED nextFreePermitTime
     /\ UNCHANGED start

(***************************************************************************)
(* acquirePermits that returns -1: only the period is brought up to date.  *)
(***************************************************************************)
RefuseAndCharge(requested) ==
  /\ IF Smooth
       THEN UNCHANGED <<availablePermits, currentPeriod>>
       ELSE /\ availablePermits' = RefreshedPermits - requested
            /\ currentPeriod' = RefreshedPeriod
  /\ UNCHANGED <<start, nextFreePermitTime, history>>

Refuse(requested) ==
  /\ IF Smooth
       THEN UNCHANGED <<availablePermits, currentPeriod>>
       ELSE /\ availablePermits' = RefreshedPermits
            /\ currentPeriod' = RefreshedPeriod
  /\ UNCHANGED <<start, nextFreePermitTime, history>>

-----------------------------------------------------------------------------
Init ==
  /\ \E b \in Builders : config = Build(b)
  /\ now = 0 /\ start = 0
  /\ nextFreePermitTime = 0
  /\ availablePermits = periodPermits
  /\ currentPeriod = 0
  /\ pc = [c \in Callers |-> "idle"]
  /\ usableAt = [c \in Callers |-> 0]
  /\ ctxDone = [c \in Callers |-> FALSE]
  /\ granted = 0 /\ lastUse = 0 /\ burst = 0

\* The caller sleeps until its permits may be used.
StartWaiting(c, requested) ==
  /\ pc' = [pc EXCEPT ![c] = "waiting"]
  /\ usableAt' = [usableAt EXCEPT ![c] = now + WaitTime(requested)]
  /\ UNCHANGED ctxDone

\* AcquirePermits: no limit on the wait.
AcquirePermits(c, requested) ==
  /\ pc[c] = "idle"
  /\ Grant(requested)
  /\ StartWaiting(c, requested)
  /\ UNCHANGED <<config, now>>

\* AcquirePermitsWithMaxWait, called standalone.
AcquirePermitsWithMaxWait(c, requested, maxWaitTime) ==
  /\ pc[c] = "idle"
  /\ IF ExceedsMaxWaitTime(WaitTime(requested), maxWaitTime)
       THEN /\ Refuse(requested)
            /\ pc' = [pc EXCEPT ![c] = "exceeded"]
            /\ UNCHANGED <<usableAt, ctxDone>>
       ELSE Grant(requested) /\ StartWaiting(c, requested)
  /\ UNCHANGED <<config, now>>

\* The policy executor: one permit and the configured maxWaitTime.  A rejected
\* execution that is already canceled reports its cancellation instead.
Apply(c) ==
  /\ pc[c] = "idle"
  /\ IF ExceedsMaxWaitTime(WaitTime(1), config.maxWaitTime)
       THEN /\ Refuse(1)
            /\ pc' = [pc EXCEPT ![c] = IF ctxDone[c] THEN "canceled" ELSE "exceeded"]
            /\ UNCHANGED <<usableAt, ctxDone>>
       ELSE Grant(1) /\ StartWaiting(c, 1)
  /\ UNCHANGED <<config, now>>

\* The select of a waiting caller; either branch when both are ready.
TimerFires(c) ==
  /\ pc[c] = "waiting" /\ now >= usableAt[c]
  /\ pc' = [pc EXCEPT ![c] = "executing"]
  /\ UNCHANGED <<config, now, stats, usableAt, ctxDone, history>>

\* The permits of a canceled caller are not given back.
ContextDone(c) ==
  /\ pc[c] = "waiting" /\ ctxDone[c]
  /\ pc' = [pc EXCEPT ![c] = "canceled"]
  /\ UNCHANGED <<config, now, stats, usableAt, ctxDone, history>>

Return(c) ==
  /\ pc[c] \in Ended
  /\ pc' = [pc EXCEPT ![c] = "idle"]
  /\ usableAt' = [usableAt EXCEPT ![c] = 0]
  /\ ctxDone' = [ctxDone EXCEPT ![c] = FALSE]
  /\ UNCHANGED <<config, now, stats, history>>

CancelContext(c) ==
  /\ pc[c] \in {"idle", "waiting"} /\ ~ctxDone[c]
  /\ ctxDone' = [ctxDone EXCEPT ![c] = TRUE]
  /\ UNCHANGED <<config, now, stats, pc, usableAt, history>>

\* ReservePermits (maxWaitTime -1), TryReservePermits and TryAcquirePermits
\* (maxWaitTime 0) answer at once and leave the waiting to the caller.
TryReservePermits(requested, maxWaitTime) ==
  /\ IF ExceedsMaxWaitTime(WaitTime(requested), maxWaitTime)
       THEN Refuse(requested)
       ELSE Grant(requested)
  /\ UNCHANGED <<config, now, callers>>

Reset ==
  /\ start' = now
  /\ nextFreePermitTime' = 0
  /\ availablePermits' = periodPermits
  /\ currentPeriod' = 0
  /\ granted' = 0 /\ lastUse' = 0 /\ burst' = 0
  /\ UNCHANGED <<config, now, callers>>

Tick ==
  /\ now < MaxTime
  /\ now' = now + 1
  /\ UNCHANGED <<config, stats, callers, history>>

CallerStep(c) ==
  \/ \E n \in Requests : AcquirePermits(c, n)
  \/ \E n \in Requests, w \in MaxWaits : AcquirePermitsWithMaxWait(c, n, w)
  \/ Apply(c)
  \/ TimerFires(c)
  \/ ContextDone(c)
  \/ Return(c)
  \/ CancelContext(c)

Next ==
  \/ \E c \in Callers : CallerStep(c)
  \/ \E n \in Requests, w \in MaxWaits \cup {-1, 0} : TryReservePermits(n, w)
  \/ Reset
  \/ Tick

Spec == Init /\ [][Next]_vars

-----------------------------------------------------------------------------
(***************************************************************************)
(* The integers of the statistics and of the callers have their types; the *)
(* smooth limiter's next free time stays a multiple of the interval        *)
(* ("Will be a multiple of the config.interval", ratelimiterstats.go:27).  *)
(***************************************************************************)
TypeOK ==
  /\ now \in Nat /\ start \in 0 .. now
  /\ nextFreePermitTime \in Nat
  /\ availablePermits \in Int
  /\ currentPeriod \in Nat
  /\ pc \in [Callers -> States]
  /\ usableAt \in [Callers -> Nat]
  /\ ctxDone \in [Callers -> BOOLEAN]
  /\ granted \in 0 .. MaxGranted /\ lastUse \in Nat /\ burst \in Nat
  /\ Smooth => nextFreePermitTime % interval = 0

(***************************************************************************)
(* The long-run rate: the permits granted since the last Reset never       *)
(* exceed what the elapsed intervals or periods, up to the one in which    *)
(* the last grant may be used, have to give.  acquirePermits of both       *)
(* statistics must compute a wait that is long enough, across deficits of  *)
(* several periods, idle periods and requests larger than a period.        *)
(***************************************************************************)
RateHeld ==
  granted <= (Slot(lastUse) + 1) * (IF Smooth THEN 1 ELSE periodPermits)

(***************************************************************************)
(* Grants are served in order: permits granted later are never usable      *)
(* earlier, and a smooth limiter spaces two grants by at least as many     *)
(* intervals as the later one has permits.                                 *)
(***************************************************************************)
GrantsInOrder ==
  [][granted > 0 /\ granted' > granted =>
       /\ lastUse' >= lastUse
       /\ Smooth => Slot(lastUse') - Slot(lastUse) >= granted' - granted]_vars

(***************************************************************************)
(* A call that is rejected (acquirePermits returns -1), a call for zero    *)
(* permits, a caller that goes away and a context that is canceled leave   *)
(* no trace: every later request waits exactly as long as it would have    *)
(* waited without it.                                                      *)
(***************************************************************************)
RejectionLeavesNoTrace ==
  [][granted' = granted /\ now' = now /\ start' = start =>
       \A n \in Requests : WaitTime(n)' = WaitTime(n)]_vars

(***************************************************************************)
(* "A maxExecutions value of 100 with a period of 1 second would allow up  *)
(* to 100 executions every 1 second" (ratelimiter.go:207): the permits     *)
(* granted for use in one period are at most periodPermits.                *)
(***************************************************************************)
BurstBounded == ~Smooth => burst <= periodPermits

=============================================================================
