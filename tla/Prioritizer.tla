---------------------------- MODULE Prioritizer ----------------------------
(***************************************************************************)
(* Prioritized rejection: the BasePrioritizer (src/internal/prioritizer.go)*)
(* with its level tracker (src/priority/priority.go) and usage tracker,    *)
(* and the admission decisions of the priority limiter and the priority    *)
(* throttler that share it.                                                *)
(*                                                                         *)
(* Calibrations run concurrently, the scheduled ones and the ones a user   *)
(* calls: each computes rate and threshold under the prioritizer's mutex,  *)
(* releases it, swaps the threshold, and calibrates the usage tracker.     *)
(* Admission reads the threshold without the mutex and records the level   *)
(* in a step of its own.  An execution's priority may have come with the   *)
(* request of a failsafehttp or failsafegrpc client.  The queue of a       *)
(* limiter is the environment's here.  Rates are in hundredths.            *)
(***************************************************************************)
EXTENDS UsageTracker, FiniteSetsExt

CONSTANTS
  Configs,       \* [policies, throttlers, usage, calibrators, scheduled, contexts, hop, queue]:
                 \* who takes part, the contexts [user, priority, level] of the executions with -1
                 \* for what a context lacks, how they get here ("local", or with a request, "pass"
                 \* or "ensure"), and the longest queue that the load reaches
  Callers,
  WindowSize,    \* of the level tracker
  LowQueue, MaxQueue,          \* rejectionThreshold and maxQueue of a limiter
  SuccessRateThreshold,        \* in hundredths
  ExecutionThreshold,
  MaxRejectionRate,            \* in hundredths
  Rates,                       \* the rates, in hundredths, whose thresholds are checked
  MaxExecutions                \* bound: results of a throttler that have not expired

ASSUME PrioritizerAssumption ==
  /\ {WindowSize, MaxQueue, SuccessRateThreshold} \subseteq Nat \ {0}
  /\ LowQueue \in 0 .. MaxQueue - 1
  /\ ExecutionThreshold \in Nat /\ MaxRejectionRate \in 0 .. 100
  /\ Rates \subseteq 1 .. 100

VARIABLES
  config,
  registered,        \* the policies whose statsFunc is registered
  load,              \* policy -> [full, queued], or [executions, successes]
  rejectionRate, rejectionThresh,
  window, levelCounts, head, filled,    \* windowedLevelTracker
  calibration,       \* calibrator -> [pc, newThresh]
  accepted           \* caller -> accepted level that is still to be recorded, or -1

tracker == <<window, levelCounts, head, filled>>
prioritizerVars == <<config, registered, load, rejectionRate, rejectionThresh,
                     calibration, accepted>>
vars == <<usageVars, prioritizerVars, tracker>>

TotalLevels == NumPriorities * LevelWidth
Levels == 0 .. TotalLevels - 1

\* The priorities are the package's constants; RecordLevel panics at any other level.
ASSUME ContextsAssumption ==
  \A c \in Configs : \A ctx \in c.contexts :
     ctx.level \in Levels \cup {-1} /\ ctx.priority \in Priorities \cup {-1}

IsThrottler(p) == p \in config.throttlers

Idle == [full |-> FALSE, queued |-> 0, executions |-> 0, successes |-> 0]

AtLeast(a, b) == IF a < b THEN b ELSE a
AtMost(a, b) == IF a < b THEN a ELSE b

-----------------------------------------------------------------------------
(***************************************************************************)
(* Rejection rates.                                                        *)
(***************************************************************************)
\* queueStats.ComputeRejectionRate
QueueRejectionRate(queued, rejectionThreshold, maxQueue) ==
  IF queued < rejectionThreshold THEN 0
  ELSE IF queued >= maxQueue THEN 100
  ELSE (100 * (queued - rejectionThreshold)) \div (maxQueue - rejectionThreshold)

\* computeRejectionRate of the throttler, with an execution padding of 1
ThrottlerRejectionRate(executions, successes) ==
  IF executions < ExecutionThreshold THEN 0
  ELSE AtMost((100 * AtLeast(0, executions * SuccessRateThreshold - 100 * successes))
                 \div (SuccessRateThreshold * (executions + 1)),
              MaxRejectionRate)

\* queueRejectionStrategy.CombineStats, then ComputeRejectionRate
CombinedQueueRate(ps) ==
  LET n == Cardinality(ps)
  IN IF n = 0 THEN 100
     ELSE QueueRejectionRate(MapThenSumSet(LAMBDA p : load[p].queued, ps),
                             n * LowQueue, n * MaxQueue)

\* throttlerRejectionStrategy.CombineStats: the average rate, weighted by executions.  The
\* statistics are read without their mutex: the successes may be newer than the executions.
CombinedThrottlerRate(ps, newer) ==
  LET total == MapThenSumSet(LAMBDA p : load[p].executions, ps)
      weighted == MapThenSumSet(LAMBDA p : load[p].executions *
                    ThrottlerRejectionRate(load[p].executions, load[p].successes + newer), ps)
  IN IF total = 0 THEN 0 ELSE AtMost(weighted \div total, MaxRejectionRate)

CombinedRate(newer) ==
  IF config.throttlers # {} THEN CombinedThrottlerRate(registered, newer)
                            ELSE CombinedQueueRate(registered)

(***************************************************************************)
(* windowedLevelTracker.                                                   *)
(***************************************************************************)
CurrentSize == IF filled THEN WindowSize ELSE head

\* math.Ceil of a share of the recorded levels, at least 1
TargetLevels(rate) == AtLeast(1, (CurrentSize * rate + 99) \div 100)

\* countedLevels, after the levels up to this one
CountedLevels(level) ==
  LET counted[l \in Levels] == levelCounts[l] + (IF l = 0 THEN 0 ELSE counted[l - 1])
  IN counted[level]

GetLevelAt(rate) ==
  LET found == {l \in Levels : CountedLevels(l) >= TargetLevels(rate)}
  IN IF CurrentSize = 0 \/ found = {} THEN 0 ELSE Min(found)

RecordWithoutRemoval(level) ==
  /\ window' = [window EXCEPT ![head] = level]
  /\ levelCounts' = [levelCounts EXCEPT ![level] = @ + 1]
  /\ head' = (head + 1) % WindowSize
  /\ filled' = (filled \/ head + 1 >= WindowSize)

RecordLevel(level) ==
  /\ window' = [window EXCEPT ![head] = level]
  /\ levelCounts' = [l \in Levels |-> levelCounts[l] + (IF l = level THEN 1 ELSE 0)
                       - (IF filled /\ l = window[head] THEN 1 ELSE 0)]
  /\ head' = (head + 1) % WindowSize
  /\ filled' = (filled \/ head + 1 >= WindowSize)

(***************************************************************************)
(* The levels that LevelFromContext may return; a priority without a level *)
(* draws one at random.                                                    *)
(***************************************************************************)
PriorityLevels(ctx) ==
  IF ctx.level # -1 THEN {ctx.level}
  ELSE IF ctx.priority # -1
         THEN LevelRange(ctx.priority).lower .. LevelRange(ctx.priority).upper
  ELSE {-1}

ThrottlerLevels(ctx) == {AtLeast(0, level) : level \in PriorityLevels(ctx)}

LevelFromContext(ctx) ==
  IF config.usage /\ ctx.priority # -1 /\ ctx.user # -1
    THEN {GetLevel(ctx.user, ctx.priority)}
    ELSE {AtLeast(0, level) : level \in PriorityLevels(ctx)}

(***************************************************************************)
(* What a client sends of a context, the level or else the priority but    *)
(* never the user, and the contexts the server's handler may run with: a   *)
(* level as it is, and a priority as it is or turned into a level for all  *)
(* the policies and servers that follow.                                   *)
(***************************************************************************)
ClientSends(ctx) ==
  [user |-> -1, priority |-> IF ctx.level # -1 THEN -1 ELSE ctx.priority, level |-> ctx.level]

ServerContexts(sent) ==
  IF config.hop = "ensure" /\ sent.priority # -1
    THEN {[sent EXCEPT !.priority = -1, !.level = l] : l \in PriorityLevels(sent)}
    ELSE {sent}

ContextsOf(ctx) == IF config.hop = "local" THEN {ctx} ELSE ServerContexts(ClientSends(ctx))

-----------------------------------------------------------------------------
Init ==
  /\ UsageInit
  /\ config \in Configs
  /\ registered = {}
  /\ load = [p \in config.policies |-> Idle]
  /\ rejectionRate = 0 /\ rejectionThresh = 0
  /\ window = [i \in 0 .. WindowSize - 1 |-> 0]
  /\ levelCounts = [l \in Levels |-> 0]
  /\ head = 0 /\ filled = FALSE
  /\ calibration = [k \in config.calibrators |-> [pc |-> "idle", newThresh |-> 0]]
  /\ accepted = [c \in Callers |-> -1]

\* BuildPrioritized registers the policy.
Register(p) ==
  /\ p \notin registered
  /\ registered' = registered \cup {p}
  /\ UNCHANGED <<usageVars, config, load, rejectionRate, rejectionThresh, calibration,
                 accepted, tracker>>

\* The environment: permits of a limiter are taken and returned, callers queue.
LoadChanges(p) ==
  /\ p \in registered /\ ~IsThrottler(p)
  /\ \E l \in {[Idle EXCEPT !.queued = q, !.full = TRUE] : q \in 0 .. config.queue} \cup {Idle} :
       l # load[p] /\ load' = [load EXCEPT ![p] = l]
  /\ UNCHANGED <<usageVars, config, registered, rejectionRate, rejectionThresh, calibration,
                 accepted, tracker>>

\* A result of a throttler is recorded, which first drops what has expired (see Windows); nothing
\* expires when the counts are only read.
RecordsResult(p) ==
  /\ p \in registered /\ IsThrottler(p)
  /\ \E successes \in 0 .. load[p].successes,
        failures \in 0 .. load[p].executions - load[p].successes, success \in 0 .. 1 :
       /\ successes + failures < MaxExecutions
       /\ load' = [load EXCEPT ![p] = [Idle EXCEPT !.executions = successes + failures + 1,
                                                   !.successes = successes + success]]
  /\ UNCHANGED <<usageVars, config, registered, rejectionRate, rejectionThresh, calibration,
                 accepted, tracker>>

(***************************************************************************)
(* Calibrate: the part under the mutex, the swap, and the usage tracker.   *)
(***************************************************************************)
Compute(k) ==
  /\ calibration[k].pc = "idle" /\ registered # {}
  /\ \E newer \in 0 .. 1 :
       LET rate == CombinedRate(newer)
           thresh == IF rate > 0 THEN GetLevelAt(rate) ELSE 0
       IN /\ rejectionRate' = rate
          /\ calibration' = [calibration EXCEPT ![k] = [pc |-> "swap", newThresh |-> thresh]]
  /\ UNCHANGED <<usageVars, config, registered, load, rejectionThresh, accepted, tracker>>

SwapWhenRaised(k) ==
  /\ calibration[k].pc = "swap"
  /\ rejectionThresh' = AtLeast(rejectionThresh, calibration[k].newThresh)
  /\ calibration' =
       [calibration EXCEPT ![k] = [pc |-> IF config.usage THEN "usage" ELSE "idle", newThresh |-> 0]]
  /\ UNCHANGED <<usageVars, config, registered, load, rejectionRate, accepted, tracker>>

Swap(k) ==
  /\ calibration[k].pc = "swap"
  /\ rejectionThresh' = calibration[k].newThresh
  /\ calibration' =
       [calibration EXCEPT ![k] = [pc |-> IF config.usage THEN "usage" ELSE "idle", newThresh |-> 0]]
  /\ UNCHANGED <<usageVars, config, registered, load, rejectionRate, accepted, tracker>>

CalibratesUsage(k) ==
  /\ calibration[k].pc = "usage"
  /\ CalibrateUsage
  /\ calibration' = [calibration EXCEPT ![k].pc = "idle"]
  /\ UNCHANGED <<config, registered, load, rejectionRate, rejectionThresh, accepted, tracker>>

\* ScheduleCalibrations: the goroutine ends with its context or its CancelFunc, between ticks.
StopScheduled(k) ==
  /\ k \in config.scheduled /\ calibration[k].pc = "idle"
  /\ calibration' = [calibration EXCEPT ![k].pc = "stopped"]
  /\ UNCHANGED <<usageVars, config, registered, load, rejectionRate, rejectionThresh,
                 accepted, tracker>>

(***************************************************************************)
(* Admission.                                                              *)
(***************************************************************************)
\* A limiter that has the prioritizer to itself decides by its own capacity first.
CanAcquirePermitWithLevel(p, level) ==
  LET single == Cardinality(registered) = 1
  IN \/ single /\ ~load[p].full
     \/ ~(single /\ load[p].queued >= MaxQueue) /\ level >= rejectionThresh

\* The level is recorded only if the limiter is full, the permit is requested afterwards.
LimiterAcquires(c, p, level) ==
  /\ p \in registered /\ ~IsThrottler(p)
  /\ accepted[c] = -1
  /\ CanAcquirePermitWithLevel(p, level)
  /\ load[p].full
  /\ accepted' = [accepted EXCEPT ![c] = level]
  /\ UNCHANGED <<usageVars, config, registered, load, rejectionRate, rejectionThresh,
                 calibration, tracker>>

\* Below the threshold a throttler still admits a share of 1 - maxRejectionRate.
ThrottlerAcquires(c, p, level) ==
  /\ p \in registered /\ IsThrottler(p)
  /\ accepted[c] = -1
  /\ level >= rejectionThresh \/ MaxRejectionRate < 100
  /\ accepted' = [accepted EXCEPT ![c] = level]
  /\ UNCHANGED <<usageVars, config, registered, load, rejectionRate, rejectionThresh,
                 calibration, tracker>>

RecordsLevel(c) ==
  /\ accepted[c] # -1
  /\ RecordLevel(accepted[c])
  /\ accepted' = [accepted EXCEPT ![c] = -1]
  /\ UNCHANGED <<usageVars, config, registered, load, rejectionRate, rejectionThresh,
                 calibration>>

\* A permit of a priority limiter that ends records the usage of its user.
RecordsUsage(u, usage) ==
  /\ config.usage
  /\ RecordUsage(u, usage)
  /\ UNCHANGED <<prioritizerVars, tracker>>

Tick == config.usage /\ TimePasses /\ UNCHANGED <<prioritizerVars, tracker>>

Calibrates(k) == Compute(k) \/ Swap(k) \/ CalibratesUsage(k)

CallerStep(c) ==
  \/ \E p \in config.policies, sent \in config.contexts : \E ctx \in ContextsOf(sent) :
        \/ \E level \in LevelFromContext(ctx) : LimiterAcquires(c, p, level)
        \/ \E level \in ThrottlerLevels(ctx) : ThrottlerAcquires(c, p, level)
  \/ RecordsLevel(c)

Next ==
  \/ \E p \in config.policies : Register(p) \/ LoadChanges(p) \/ RecordsResult(p)
  \/ \E k \in config.calibrators : Calibrates(k) \/ StopScheduled(k)
  \/ \E c \in Callers : CallerStep(c)
  \/ \E u \in Users, usage \in Usages : RecordsUsage(u, usage)
  \/ Tick

(***************************************************************************)
(* "A Prioritizer needs to be regularly calibrated": calibrators keep      *)
(* calibrating unless they are stopped, and a calibration that has begun   *)
(* ends.  Nothing is assumed of callers, load or time.                     *)
(***************************************************************************)
Fairness == \A k \in UNION {c.calibrators : c \in Configs} :
              WF_vars(k \in config.calibrators /\ Calibrates(k))

Spec == Init /\ [][Next]_vars /\ Fairness

-----------------------------------------------------------------------------
Recorded == {i \in 0 .. WindowSize - 1 : filled \/ i < head}

(***************************************************************************)
(* The counts of the level tracker are those of the levels in its ring     *)
(* after any number of wraps, so that the threshold for a rejection rate   *)
(* is the recorded level at that quantile: fewer than the rejected share   *)
(* of the recorded executions are below it, and the highest recorded level *)
(* is never rejected.                                                      *)
(***************************************************************************)
ThresholdIsQuantile ==
  \A rate \in Rates :
    Recorded # {} =>
      LET level == GetLevelAt(rate)
      IN /\ level \in {window[i] : i \in Recorded}
         /\ 100 * Cardinality({i \in Recorded : window[i] < level}) < rate * Cardinality(Recorded)
         /\ 100 * Cardinality({i \in Recorded : window[i] <= level}) >= rate * Cardinality(Recorded)

(***************************************************************************)
(* Rejections end with the overload.  Two calibrations may store their     *)
(* thresholds in the opposite order of their computations, which leaves a  *)
(* threshold in force that nobody computed last; but once the combined     *)
(* rate stays at zero the threshold returns to zero, as long as some       *)
(* calibrator keeps running, and no level is rejected any more.            *)
(***************************************************************************)
RejectionEndsWithOverload ==
  <>[](registered # {} /\ CombinedRate(0) = 0) => <>[](rejectionThresh = 0)

=============================================================================
