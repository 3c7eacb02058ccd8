-------------------------- MODULE AdaptiveLimiter --------------------------
(***************************************************************************)
(* The adaptive limiter and its queueing variant (src/adaptivelimiter) on  *)
(* top of a semaphore, of which only the promise, PermitPool, is used.     *)
(* Callers check the queue, acquire a permit, note how many executions are *)
(* in flight, and at the end record a sample; the sample that completes    *)
(* the recent window updates the limit.                                    *)
(*                                                                         *)
(* A step is one critical section of the limiter's mutex mu or of the      *)
(* semaphore's own mutex.  The interesting states are the ones in which    *)
(* updateLimit has released mu for the onLimitChanged listener: the window *)
(* is not reset yet, and others record, update and Reset in between.       *)
(*                                                                         *)
(* Limits are multiples of 1/Unit, so that the limit, a float64, and its   *)
(* integer part differ.  Round trip times and the correlations are the     *)
(* environment's choice.                                                   *)
(***************************************************************************)
EXTENDS Integers, Sequences, FiniteSets

CONSTANTS
  Callers,
  Configs,       \* [queueing, maxWait, listener]
  Unit,
  MinLimit, MaxLimit, InitialLimit,      \* integers, as given to WithLimits
  MaxLimitFactor,                        \* in 1/Unit
  MaxRejectionFactor,
  MinSamples

ASSUME CallersAssumption == IsFiniteSet(Callers)

ASSUME ConfigsAssumption ==
  Configs \subseteq [queueing : BOOLEAN, maxWait : BOOLEAN, listener : BOOLEAN]

ASSUME LimitsAssumption ==
  /\ MinLimit \in Nat \ {0} /\ MaxLimit \in Nat /\ InitialLimit \in MinLimit .. MaxLimit
  /\ Unit \in Nat \ {0} /\ MaxLimitFactor \in Nat /\ MinSamples \in Nat \ {0}
  /\ MaxRejectionFactor \in Nat \ {0}

VARIABLES
  size, owners, queue,   \* the semaphore
  config,
  limit,                 \* l.limit, in 1/Unit
  recent,                \* recentRTT: the number of samples and the highest inflight
  due,                   \* whether nextUpdateTime has passed
  lastMaxInflight,
  mu,                    \* who holds the mutex across steps, or "free"
  pc,                    \* Callers -> where the caller is
  inflight,              \* Callers -> currentInflight of its permit
  newLimit,              \* Callers -> the limit it will store after the listener
  peak,                  \* history: most callers at once between check and acquire
  allowed                \* history: longest queue that a check has admitted to

semaphore == <<size, owners, queue>>
window == <<recent, due, lastMaxInflight>>
vars == <<semaphore, config, limit, window, mu, pc, inflight, newLimit, peak, allowed>>

Semaphore == INSTANCE PermitPool WITH Sizes <- MinLimit .. MaxLimit

PCs == {"idle", "checked", "waiting", "acquired", "holding", "listener", "releasing"}
Permitted == {"acquired", "holding", "listener", "releasing"}
NoSamples == [samples |-> 0, maxInflight |-> 0]

AtLeast(a, b) == IF a < b THEN b ELSE a
AtMost(a, b) == IF a < b THEN a ELSE b
IntOf(l) == l \div Unit
IsFull == Cardinality(owners) >= size

-----------------------------------------------------------------------------
(***************************************************************************)
(* updateLimit.                                                            *)
(***************************************************************************)
\* util.Log10Func(1)
Log10Func(l) ==
  IF l < 100 THEN 1 ELSE IF l < 1000 THEN 2 ELSE 3

(***************************************************************************)
(* queueSize is "below" alpha, "between" alpha and beta or "above" beta;   *)
(* "correlated" says that one of the three correlation signals, which      *)
(* count only when the limiter is full, points to an overload.             *)
(***************************************************************************)
ComputeChange(queueSize, overloaded, correlated) ==
  IF queueSize = "above" \/ (overloaded /\ correlated) THEN "decrease"
  ELSE IF queueSize = "below" THEN "increase" ELSE "hold"

ComputeMaxLimit(maxInflight) == maxInflight * MaxLimitFactor

Decreased(l) == l - Unit * Log10Func(IntOf(l))

Changed(change) ==
  CASE change = "decrease" -> Decreased(limit)
    [] change = "increase" -> limit + Unit * Log10Func(IntOf(limit))
    [] change = "hold"     -> limit

\* The limit follows the executions in flight, upwards at once and downwards gradually.
Tracked(l, maxLimit) ==
  IF l <= maxLimit THEN l ELSE IF limit > maxLimit THEN Decreased(limit) ELSE maxLimit

Clamped(l) ==
  IF l > MaxLimit * Unit THEN MaxLimit * Unit
  ELSE IF l < MinLimit * Unit THEN MinLimit * Unit ELSE l

\* The limits that updateLimit may compute; the stabilization window may still hold the maximum
\* of the window before.
ComputedLimits(maxInflight) ==
  { Clamped(Tracked(Changed(ComputeChange(q, IsFull, correlated)), ComputeMaxLimit(m))) :
      q \in {"below", "between", "above"}, correlated \in BOOLEAN,
      m \in {maxInflight, AtLeast(maxInflight, lastMaxInflight)} }

(***************************************************************************)
(* Queueing.                                                               *)
(***************************************************************************)
MaxQueue(l) == l * MaxRejectionFactor

MayQueueOneMore(queued) == queued <= MaxQueue(IntOf(limit))

\* ComputeRejectionRate: between the limit times the initial and the limit times the maximal
\* rejection factor a random number decides, so any caller below the latter may be admitted,
\* and one above the former may be rejected without a trace.
MayQueue(queued) == queued < MaxQueue(IntOf(limit))

-----------------------------------------------------------------------------
Init ==
  /\ size = InitialLimit /\ owners = {} /\ queue = <<>>
  /\ config \in Configs
  /\ limit = InitialLimit * Unit
  /\ recent = NoSamples /\ due = FALSE /\ lastMaxInflight = 0
  /\ mu = "free"
  /\ pc = [c \in Callers |-> "idle"]
  /\ inflight = [c \in Callers |-> 0]
  /\ newLimit = [c \in Callers |-> 0]
  /\ peak = 0 /\ allowed = 1

Goes(c, to) == pc' = [pc EXCEPT ![c] = to]

Checked == {c \in Callers : pc[c] = "checked"}

\* CanAcquirePermit of the queueing limiter: the semaphore, the limit and the queue are read
\* before the permit is requested.
CanAcquirePermit(c) ==
  /\ config.queueing /\ pc[c] = "idle" /\ mu = "free"
  /\ ~IsFull \/ MayQueue(Len(queue))
  /\ Goes(c, "checked")
  /\ peak' = AtLeast(peak, Cardinality(Checked) + 1)
  /\ allowed' = AtLeast(allowed, MaxQueue(IntOf(limit)))
  /\ UNCHANGED <<semaphore, config, limit, window, mu, inflight, newLimit>>

MayAcquire(c) == pc[c] = "checked" \/ (pc[c] = "idle" /\ ~config.queueing)

AcquirePermit(c) ==
  /\ MayAcquire(c)
  /\ Semaphore!Take(c)
  /\ Goes(c, "acquired")
  /\ UNCHANGED <<config, limit, window, mu, inflight, newLimit, peak, allowed>>

WaitForPermit(c) ==
  /\ MayAcquire(c) /\ config.maxWait
  /\ Semaphore!Join(c)
  /\ Goes(c, "waiting")
  /\ UNCHANGED <<config, limit, window, mu, inflight, newLimit, peak, allowed>>

\* AcquirePermitWithMaxWait without a wait time, or TryAcquirePermit
AcquireFails(c) ==
  /\ MayAcquire(c) /\ ~config.maxWait /\ IsFull
  /\ Goes(c, "idle")
  /\ UNCHANGED <<semaphore, config, limit, window, mu, inflight, newLimit, peak, allowed>>

Granted(c) ==
  /\ pc[c] = "waiting" /\ c \in owners
  /\ Goes(c, "acquired")
  /\ UNCHANGED <<semaphore, config, limit, window, mu, inflight, newLimit, peak, allowed>>

\* The context ends or the wait time is over.
GiveUp(c) ==
  /\ pc[c] = "waiting"
  /\ Semaphore!Leave(c)
  /\ Goes(c, "idle")
  /\ UNCHANGED <<config, limit, window, mu, inflight, newLimit, peak, allowed>>

\* newPermit reads the permits in use after its own was acquired.
NewPermit(c) ==
  /\ pc[c] = "acquired"
  /\ inflight' = [inflight EXCEPT ![c] = Cardinality(owners)]
  /\ Goes(c, "holding")
  /\ UNCHANGED <<semaphore, config, limit, window, mu, newLimit, peak, allowed>>

(***************************************************************************)
(* record, of a permit that ends with Record or with Drop.  The semaphore  *)
(* is resized while mu is held, the permit released in a step of its own.  *)
(***************************************************************************)
\* tdigestSample.Add; samples beyond the required number are not counted.
Added(c, dropped) ==
  IF dropped THEN recent
  ELSE [samples |-> AtMost(recent.samples + 1, MinSamples),
        maxInflight |-> AtLeast(recent.maxInflight, inflight[c])]

StoreLimit(c, l) ==
  /\ Semaphore!Resize(IntOf(l))
  /\ limit' = l
  /\ recent' = NoSamples /\ due' = FALSE
  /\ mu' = c
  /\ newLimit' = [newLimit EXCEPT ![c] = 0]
  /\ Goes(c, "releasing")

\* The window is not complete: only the sample is added.
RecordSample(c, dropped) ==
  /\ pc[c] = "holding" /\ mu = "free"
  /\ ~due \/ Added(c, dropped).samples < MinSamples
  /\ recent' = Added(c, dropped)
  /\ mu' = c
  /\ Goes(c, "releasing")
  /\ UNCHANGED <<semaphore, config, limit, due, lastMaxInflight, inflight, newLimit, peak, allowed>>

RecordAndUpdate(c, dropped) ==
  LET sample == Added(c, dropped)
  IN /\ pc[c] = "holding" /\ mu = "free"
     /\ due /\ sample.samples >= MinSamples
     /\ lastMaxInflight' = sample.maxInflight
     /\ \E l \in ComputedLimits(sample.maxInflight) :
          IF IntOf(l) # IntOf(limit) /\ config.listener
            THEN /\ newLimit' = [newLimit EXCEPT ![c] = l]
                 /\ recent' = sample
                 /\ Goes(c, "listener")
                 /\ UNCHANGED <<semaphore, limit, due, mu>>
            ELSE StoreLimit(c, l)
     /\ UNCHANGED <<config, inflight, peak, allowed>>

ListenerReturnsUnsized(c) ==
  /\ pc[c] = "listener" /\ mu = "free"
  /\ limit' = newLimit[c]
  /\ recent' = NoSamples /\ due' = FALSE
  /\ mu' = c
  /\ newLimit' = [newLimit EXCEPT ![c] = 0]
  /\ Goes(c, "releasing")
  /\ UNCHANGED <<semaphore, config, lastMaxInflight, inflight, peak, allowed>>

ListenerReturns(c) ==
  /\ pc[c] = "listener" /\ mu = "free"
  /\ StoreLimit(c, newLimit[c])
  /\ UNCHANGED <<config, lastMaxInflight, inflight, peak, allowed>>

ReleaseNobody(c) ==
  /\ pc[c] = "releasing"
  /\ mu' = "free"
  /\ inflight' = [inflight EXCEPT ![c] = 0]
  /\ Goes(c, "idle")
  /\ UNCHANGED <<semaphore, config, limit, window, newLimit, peak, allowed>>

Release(c) ==
  /\ pc[c] = "releasing"
  /\ Semaphore!GiveBack(c)
  /\ mu' = "free"
  /\ inflight' = [inflight EXCEPT ![c] = 0]
  /\ Goes(c, "idle")
  /\ UNCHANGED <<config, limit, window, newLimit, peak, allowed>>

Reset ==
  /\ mu = "free"
  /\ Semaphore!Resize(InitialLimit)
  /\ limit' = InitialLimit * Unit
  /\ recent' = NoSamples
  /\ due' = FALSE
  /\ UNCHANGED <<config, lastMaxInflight, mu, pc, inflight, newLimit, peak, allowed>>

\* Time passes beyond nextUpdateTime.
UpdateTimeComes ==
  /\ ~due
  /\ due' = TRUE
  /\ UNCHANGED <<semaphore, config, limit, recent, lastMaxInflight, mu, pc, inflight,
                 newLimit, peak, allowed>>

Record(c) == \E dropped \in BOOLEAN : RecordSample(c, dropped) \/ RecordAndUpdate(c, dropped)

Next ==
  \/ \E c \in Callers :
       \/ CanAcquirePermit(c)
       \/ AcquirePermit(c) \/ WaitForPermit(c) \/ AcquireFails(c)
       \/ Granted(c) \/ GiveUp(c)
       \/ NewPermit(c) \/ Record(c) \/ ListenerReturns(c) \/ Release(c)
  \/ Reset
  \/ UpdateTimeComes

\* What a caller that has a permit does next.
Proceed(c) == Granted(c) \/ NewPermit(c) \/ Record(c) \/ ListenerReturns(c) \/ Release(c)

(***************************************************************************)
(* A caller that has a permit goes on, ends its execution and gets the     *)
(* mutex (Go's mutexes are starvation free), and the listener returns.     *)
(* Nothing is assumed of new callers, timeouts, Reset or time.             *)
(***************************************************************************)
Fairness == \A c \in Callers : SF_vars(Proceed(c))

Spec == Init /\ [][Next]_vars /\ Fairness

-----------------------------------------------------------------------------
(***************************************************************************)
(* Types.  The limit, and every limit that still waits for its listener,   *)
(* is within the configured bounds.                                        *)
(***************************************************************************)
TypeOK ==
  /\ size \in MinLimit .. MaxLimit /\ owners \subseteq Callers /\ queue \in Seq(Callers)
  /\ config \in Configs
  /\ limit \in MinLimit * Unit .. MaxLimit * Unit
  /\ recent \in [samples : 0 .. MinSamples, maxInflight : Nat]
  /\ due \in BOOLEAN /\ lastMaxInflight \in Nat
  /\ mu \in Callers \cup {"free"}
  /\ pc \in [Callers -> PCs]
  /\ inflight \in [Callers -> Nat]
  /\ newLimit \in [Callers -> {0} \cup (MinLimit * Unit .. MaxLimit * Unit)]
  /\ peak \in 0 .. Cardinality(Callers) /\ allowed \in Nat

(***************************************************************************)
(* A permit is handed out only within the limit in force, the l.limit that *)
(* Limit() reports, whatever updates, listeners and Resets overlap: the    *)
(* size of the semaphore and the limit never disagree when it counts.      *)
(***************************************************************************)
AdmissionWithinLimit ==
  [][Cardinality(owners') > Cardinality(owners) => Cardinality(owners') <= IntOf(limit')]_vars

(***************************************************************************)
(* The queue of a queueing limiter: executions are rejected from the limit *)
(* times the maxRejectionFactor on, but the check and the acquire are two  *)
(* steps, so that the queue may exceed the highest such bound a check has  *)
(* seen by the callers that were between the two at once, and by no more.  *)
(***************************************************************************)
QueueOvershootBounded ==
  config.queueing => Len(queue) <= allowed - 1 + peak

(***************************************************************************)
(* A caller that waits is eventually granted a permit, or gives up: no     *)
(* shrink of the limit, stale limit stored after a listener or Reset       *)
(* strands a queued execution.                                             *)
(***************************************************************************)
WaitersServed == \A c \in Callers : pc[c] = "waiting" ~> pc[c] # "waiting"

=============================================================================
