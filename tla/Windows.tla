------------------------------ MODULE Windows ------------------------------
(***************************************************************************)
(* The sliding windows of src/internal/util (windows.go, median.go,        *)
(* stats.go), each an incremental ring or deque, checked against what it   *)
(* stands for: the samples themselves.  Every step feeds one sample to all *)
(* of them, as updateLimit of the adaptive limiter and the statistics of   *)
(* the circuit breaker and the throttler do, so that one history is the    *)
(* reference of them all.                                                  *)
(*                                                                         *)
(* None of these types is concurrency safe: their owners hold a mutex, so  *)
(* one call is one step.  Samples are small integers; rounding of floating *)
(* point sums is outside the model.                                        *)
(***************************************************************************)
EXTENDS Integers, Sequences, SequencesExt, FiniteSets, FiniteSetsExt

CONSTANTS
  XSamples, YSamples,   \* the values added; a MovingSum skips zero
  Capacity,             \* of the moving sums, the median and the bit set
  Window,               \* duration of the MaxWindow
  BucketCount, BucketNanos,
  StartTime,            \* the clock is not at zero when a window is built
  LastTime, MaxSamples  \* bounds

ASSUME WindowsAssumption ==
  /\ XSamples \subseteq Nat /\ YSamples \subseteq Nat
  /\ {Capacity, Window, BucketCount, BucketNanos} \subseteq Nat \ {0}
  /\ StartTime \in Nat /\ LastTime \in Nat /\ MaxSamples \in Nat

VARIABLES
  clock,
  xSamples, ySamples, corrSumXY,   \* CorrelationWindow
  deque,                           \* MaxWindow
  median,                          \* MovingMedian
  counting,                        \* countingStats
  timed,                           \* timedStats
  history, xs, ys                  \* reference: the samples since the last Reset, and the values
                                   \* of each series that are not zero

windows == <<xSamples, ySamples, corrSumXY, deque, median, counting, timed>>
windowsVars == <<clock, windows, history, xs, ys>>

Indexes == 0 .. Capacity - 1

-----------------------------------------------------------------------------
(***************************************************************************)
(* MovingSum.  Added is the sum with the value added, OldValue what the    *)
(* call returns: the value pushed out, or 0.                               *)
(***************************************************************************)
NewMovingSum ==
  [samples |-> [i \in Indexes |-> 0], size |-> 0, index |-> 0, sumY |-> 0, sumSquares |-> 0]

Full(sum, value) == value # 0 /\ sum.size = Capacity

OldValue(sum, value) == IF Full(sum, value) THEN sum.samples[sum.index] ELSE 0

AddedWithoutRemoval(sum, value) ==
  IF value = 0 THEN sum
  ELSE [samples |-> [sum.samples EXCEPT ![sum.index] = value],
        size |-> IF Full(sum, value) THEN sum.size ELSE sum.size + 1,
        index |-> (sum.index + 1) % Capacity,
        sumY |-> sum.sumY + value,
        sumSquares |-> sum.sumSquares + value * value]

Added(sum, value) ==
  IF value = 0 THEN sum
  ELSE LET old == OldValue(sum, value)
       IN [samples |-> [sum.samples EXCEPT ![sum.index] = value],
           size |-> IF Full(sum, value) THEN sum.size ELSE sum.size + 1,
           index |-> (sum.index + 1) % Capacity,
           sumY |-> sum.sumY - old + value,
           sumSquares |-> sum.sumSquares - old * old + value * value]

(***************************************************************************)
(* CorrelationWindow.Add; the coefficient it returns is a function of the  *)
(* sums.  The values are finite.                                           *)
(***************************************************************************)
CorrelationAdd(x, y) ==
  /\ xSamples' = Added(xSamples, x)
  /\ ySamples' = Added(ySamples, y)
  /\ corrSumXY' = corrSumXY + x * y
       - (IF Full(xSamples, x) THEN OldValue(xSamples, x) * OldValue(ySamples, y) ELSE 0)

(***************************************************************************)
(* MaxWindow.Add: expired entries leave at the front, entries that can no  *)
(* longer be the maximum leave at the back.                                *)
(***************************************************************************)
IsLiveTooLong(e) == e.timestamp >= clock - Window

IsLive(e) == e.timestamp > clock - Window

Expired(d) ==
  SubSeq(d, 1 + Cardinality({i \in 1 .. Len(d) : \A j \in 1 .. i : ~IsLive(d[j])}), Len(d))

Dominating(d, value) ==
  SubSeq(d, 1, Cardinality({i \in 1 .. Len(d) : \E j \in i .. Len(d) : d[j].value > value}))

MaxWindowAdd(value) ==
  deque' = Append(Dominating(Expired(deque), value), [value |-> value, timestamp |-> clock])

MaxValue == deque[1].value

(***************************************************************************)
(* MovingMedian.Add and Median.                                            *)
(***************************************************************************)
NewMovingMedian ==
  [values |-> [i \in Indexes |-> 0], sorted |-> [i \in Indexes |-> 0], index |-> 0, size |-> 0]

\* slices.Sort of the values of the ring.
Orders == {p \in [Indexes -> Indexes] : \A i, j \in Indexes : p[i] = p[j] => i = j}

Sorted(values) ==
  CHOOSE s \in {[i \in Indexes |-> values[p[i]]] : p \in Orders} :
    \A i, j \in Indexes : i <= j => s[i] <= s[j]

MedianAdd(value) ==
  LET values == [median.values EXCEPT ![median.index] = value]
      warm == median.size < Capacity - 1
  IN median' = [values |-> values,
                sorted |-> IF warm THEN median.sorted ELSE Sorted(values),
                index |-> (median.index + 1) % Capacity,
                size |-> IF warm THEN median.size + 1 ELSE median.size]

Median == IF median.size < Capacity - 1 THEN 0 ELSE median.sorted[Capacity \div 2]

(***************************************************************************)
(* countingStats.setNext on its bit set.                                   *)
(***************************************************************************)
NewCountingStats ==
  [bits |-> [i \in Indexes |-> FALSE], head |-> 0, occupiedBits |-> 0,
   successes |-> 0, failures |-> 0]

One(b) == IF b THEN 1 ELSE 0

SetNext(value) ==
  LET full == counting.occupiedBits = Capacity
      old == counting.bits[counting.head]
  IN counting' =
       [bits |-> [counting.bits EXCEPT ![counting.head] = value],
        head |-> (counting.head + 1) % Capacity,
        occupiedBits |-> counting.occupiedBits + One(~full),
        successes |-> counting.successes - One(full /\ old) + One(value),
        failures |-> counting.failures - One(full /\ ~old) + One(~value)]

(***************************************************************************)
(* timedStats on its BucketedWindow.  HeadTime starts at 0, far before the *)
(* clock's first bucket; the counts change only when a result is recorded. *)
(***************************************************************************)
NoResults == [successes |-> 0, failures |-> 0]

NewTimedStats ==
  [buckets |-> [i \in 0 .. BucketCount - 1 |-> NoResults], summary |-> NoResults, headTime |-> 0]

BucketsToMoveShort(newHead) ==
  IF newHead - timed.headTime < BucketCount THEN newHead - timed.headTime - 1 ELSE BucketCount

BucketsToMove(newHead) ==
  IF newHead - timed.headTime < BucketCount THEN newHead - timed.headTime ELSE BucketCount

\* The i-th bucket that ExpireBuckets takes out of the summary and empties.
MovedTo(i) == (timed.headTime + i) % BucketCount

Removed(moves, field) ==
  LET removed[i \in 0 .. moves] ==
        IF i = 0 THEN 0 ELSE removed[i - 1] + timed.buckets[MovedTo(i)][field]
  IN removed[moves]

ExpireBuckets ==
  LET newHead == clock \div BucketNanos
      moves == BucketsToMove(newHead)
  IN IF newHead > timed.headTime
       THEN [buckets |-> [b \in 0 .. BucketCount - 1 |->
                            IF \E i \in 1 .. moves : b = MovedTo(i) THEN NoResults
                                                                   ELSE timed.buckets[b]],
             summary |-> [successes |-> timed.summary.successes - Removed(moves, "successes"),
                          failures |-> timed.summary.failures - Removed(moves, "failures")],
             headTime |-> newHead]
       ELSE timed

RecordTimed(success) ==
  LET w == ExpireBuckets
      field == IF success THEN "successes" ELSE "failures"
  IN timed' = [w EXCEPT !.buckets[w.headTime % BucketCount][field] = @ + 1,
                        !.summary[field] = @ + 1]

-----------------------------------------------------------------------------
WindowsInit ==
  /\ clock = StartTime
  /\ xSamples = NewMovingSum /\ ySamples = NewMovingSum /\ corrSumXY = 0
  /\ deque = <<>>
  /\ median = NewMovingMedian
  /\ counting = NewCountingStats
  /\ timed = NewTimedStats
  /\ history = <<>> /\ xs = <<>> /\ ys = <<>>

\* One sample for every window; an x of 1 stands for a successful execution.
Add(x, y) ==
  /\ Len(history) < MaxSamples
  /\ CorrelationAdd(x, y)
  /\ MaxWindowAdd(x)
  /\ MedianAdd(y)
  /\ SetNext(x = 1)
  /\ RecordTimed(x = 1)
  /\ history' = Append(history, [x |-> x, y |-> y, at |-> clock])
  /\ xs' = IF x = 0 THEN xs ELSE Append(xs, x)
  /\ ys' = IF y = 0 THEN ys ELSE Append(ys, y)
  /\ UNCHANGED clock

Reset ==
  /\ xSamples' = NewMovingSum /\ ySamples' = NewMovingSum /\ corrSumXY' = 0
  /\ deque' = <<>>
  /\ median' = NewMovingMedian
  /\ counting' = NewCountingStats
  /\ timed' = NewTimedStats
  /\ history' = <<>> /\ xs' = <<>> /\ ys' = <<>>
  /\ UNCHANGED clock

ClockTicks ==
  /\ clock < LastTime
  /\ clock' = clock + 1
  /\ UNCHANGED <<windows, history, xs, ys>>

WindowsNext ==
  \/ \E x \in XSamples, y \in YSamples : Add(x, y)
  \/ Reset
  \/ ClockTicks

WindowsSpec == WindowsInit /\ [][WindowsNext]_windowsVars

-----------------------------------------------------------------------------
(***************************************************************************)
(* The reference definitions.                                              *)
(***************************************************************************)
LastOf(s, n) == SubSeq(s, IF Len(s) > n THEN Len(s) - n + 1 ELSE 1, Len(s))

Total(s) ==
  LET sum[i \in 0 .. Len(s)] == IF i = 0 THEN 0 ELSE sum[i - 1] + s[i]
  IN sum[Len(s)]

Describes(sum, values) ==
  LET in == LastOf(values, Capacity)
  IN /\ sum.size = Len(in)
     /\ sum.sumY = Total(in)
     /\ sum.sumSquares = Total([i \in 1 .. Len(in) |-> in[i] * in[i]])

(***************************************************************************)
(* The moving sums are exactly the sums over the last Capacity non-zero    *)
(* values of each series: MovingSum.Add never loses or keeps a term when   *)
(* the ring wraps.  As long as the zeros that it skips come on both sides  *)
(* at once, corrSumXY is the sum of the products of the last Capacity      *)
(* pairs that are not zero.  A zero on one side only puts the two rings    *)
(* out of step, and CorrelationWindow.Add then removes the product of      *)
(* values that were never a pair, or none at all.                          *)
(***************************************************************************)
InStep == \A i \in 1 .. Len(history) : history[i].x = 0 <=> history[i].y = 0

CorrelationExact ==
  /\ Describes(xSamples, xs) /\ Describes(ySamples, ys)
  /\ InStep =>
       LET xIn == LastOf(xs, Capacity)  yIn == LastOf(ys, Capacity)
       IN Len(xIn) = Len(yIn) /\ corrSumXY = Total([i \in 1 .. Len(xIn) |-> xIn[i] * yIn[i]])

(***************************************************************************)
(* The monotonic deque and the sorted copy hold the right order            *)
(* statistics: after an Add, Value is the maximum of the samples younger   *)
(* than the window, and Median the (upper) median of the last Capacity     *)
(* samples once there are that many, 0 before.                             *)
(***************************************************************************)
Latest == {i \in 1 .. Len(history) : i > Len(history) - Capacity}

OrderStatisticsExact ==
  history # <<>> =>
    LET last == history[Len(history)]
        young == {i \in 1 .. Len(history) : history[i].at > last.at - Window}
    IN /\ MaxValue = Max({history[i].x : i \in young})
       /\ IF Len(history) < Capacity
            THEN Median = 0
            ELSE /\ Cardinality({i \in Latest : history[i].y < Median}) <= Capacity \div 2
                 /\ Cardinality({i \in Latest : history[i].y <= Median}) > Capacity \div 2

(***************************************************************************)
(* The counters of the bit set are those of the last Capacity results, and *)
(* the summary of the bucketed window those of the results recorded in the *)
(* BucketCount buckets up to the last recording: no bucket is missed or    *)
(* expired twice, however many buckets pass between two results and after  *)
(* a Reset, which moves HeadTime back to 0.  The unsigned counters never   *)
(* go below zero.                                                          *)
(***************************************************************************)
CountsExact ==
  LET inBuckets == {i \in 1 .. Len(history) :
                      history[i].at \div BucketNanos > timed.headTime - BucketCount}
  IN /\ counting.successes = Cardinality({i \in Latest : history[i].x = 1})
     /\ counting.failures = Cardinality({i \in Latest : history[i].x # 1})
     /\ counting.occupiedBits = Cardinality(Latest)
     /\ timed.summary.successes = Cardinality({i \in inBuckets : history[i].x = 1})
     /\ timed.summary.failures = Cardinality({i \in inBuckets : history[i].x # 1})

=============================================================================
