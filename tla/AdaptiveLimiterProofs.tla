----------------------- MODULE AdaptiveLimiterProofs -----------------------
(***************************************************************************)
(* Proofs about the adaptive limiter and its queueing variant, for any     *)
(* callers, limits, factors and window sizes, on top of what               *)
(* DynamicSemaphoreProofs shows of the semaphore: that it is a PermitPool. *)
(*                                                                         *)
(* Both properties need facts about the pool itself (PoolInv), and that    *)
(* the semaphore is resized together with the limit, so that they agree    *)
(* whenever permits are handed out (LimitInForce), even when a listener    *)
(* delays the store of a limit that was computed before (PendingLimits).   *)
(***************************************************************************)
EXTENDS AdaptiveLimiter, FiniteSetTheorems, SequenceTheorems, TLAPS

Limits == MinLimit * Unit .. MaxLimit * Unit

Distinct(q) == \A i, j \in 1 .. Len(q) : q[i] = q[j] => i = j

PoolInv ==
  /\ Distinct(queue)
  /\ \A i \in 1 .. Len(queue) : queue[i] \notin owners
  /\ queue # <<>> => Cardinality(owners) >= size

LimitInForce == size = IntOf(limit)

PendingLimits == \A c \in Callers : pc[c] = "listener" => newLimit[c] \in Limits

(***************************************************************************)
(* A caller between check and acquire counts as if it was queued already.  *)
(***************************************************************************)
ChecksCounted ==
  /\ allowed >= 1 /\ Cardinality(Checked) <= peak
  /\ config.queueing => Len(queue) + Cardinality(Checked) <= allowed - 1 + peak

IInv == TypeOK /\ PoolInv /\ LimitInForce /\ PendingLimits /\ ChecksCounted

USE CallersAssumption, ConfigsAssumption, LimitsAssumption

-----------------------------------------------------------------------------
(***************************************************************************)
(* The operations of the pool.                                             *)
(***************************************************************************)
LEMMA SameCardinality == \A S : Semaphore!Cardinality(S) = Cardinality(S)
BY Zenon DEF Semaphore!Cardinality, Cardinality

\* The queue without its k oldest entries.
Dropped(q, k) ==
  LET d == SubSeq(q, k + 1, Len(q))
  IN /\ d \in Seq(Callers) /\ Len(d) = Len(q) - k
     /\ \A i \in 1 .. Len(d) : d[i] = q[i + k]

LEMMA DropOldest ==
  ASSUME NEW q \in Seq(Callers), NEW k \in 0 .. Len(q)
  PROVE  Dropped(q, k)
<1>1. \A i \in k + 1 .. Len(q) : q[i] \in Callers
  OBVIOUS
<1>2. Len(q) \in Nat /\ k + 1 \in Int
  OBVIOUS
<1> QED  BY <1>1, <1>2, SubSeqProperties DEF Dropped

\* The queue without the entry at i: the others keep their order.
Removed(q, p) ==
  LET r == Semaphore!RemoveAt(q, p)
  IN /\ r \in Seq(Callers) /\ Len(r) = Len(q) - 1
     /\ \A i \in 1 .. Len(r) : r[i] = IF i < p THEN q[i] ELSE q[i + 1]

LEMMA RemoveOne ==
  ASSUME NEW q \in Seq(Callers), NEW p \in 1 .. Len(q)
  PROVE  Removed(q, p)
<1> DEFINE a == SubSeq(q, 1, p - 1)
           b == SubSeq(q, p + 1, Len(q))
<1>1. a \in Seq(Callers) /\ Len(a) = p - 1 /\ \A i \in 1 .. p - 1 : a[i] = q[i]
  <2>1. \A i \in 1 .. p - 1 : q[i] \in Callers
    OBVIOUS
  <2> QED  BY <2>1, SubSeqProperties
<1>2. b \in Seq(Callers) /\ Len(b) = Len(q) - p /\ \A i \in 1 .. Len(q) - p : b[i] = q[i + p]
  <2>1. Dropped(q, p)
    BY DropOldest
  <2> QED  BY <2>1 DEF Dropped
<1>3. Semaphore!RemoveAt(q, p) = a \o b
  BY DEF Semaphore!RemoveAt
<1> HIDE DEF a, b
<1>4. /\ a \o b \in Seq(Callers) /\ Len(a \o b) = Len(a) + Len(b)
      /\ \A i \in 1 .. Len(a) + Len(b) : (a \o b)[i] = IF i <= Len(a) THEN a[i] ELSE b[i - Len(a)]
  BY <1>1, <1>2, ConcatProperties
<1>5. Len(a) + Len(b) = Len(q) - 1
  BY <1>1, <1>2
<1>6. ASSUME NEW i \in 1 .. Len(q) - 1
      PROVE  (a \o b)[i] = IF i < p THEN q[i] ELSE q[i + 1]
  <2>1. CASE i < p
    <3>1. i \in 1 .. p - 1 /\ i <= p - 1
      BY <2>1
    <3> QED  BY <3>1, <2>1, <1>1, <1>4, <1>5
  <2>2. CASE ~(i < p)
    <3>1. i - (p - 1) \in 1 .. Len(q) - p /\ ~(i <= p - 1) /\ (i - (p - 1)) + p = i + 1
      BY <2>2
    <3> QED  BY <3>1, <2>2, <1>1, <1>2, <1>4, <1>5
  <2> QED  BY <2>1, <2>2
<1> QED  BY <1>3, <1>4, <1>5, <1>6 DEF Removed

\* The callers at the front of a queue without duplicates.
LEMMA FrontCounted ==
  ASSUME NEW S, IsFiniteSet(S), NEW q \in Seq(Callers), Distinct(q), NEW k \in 0 .. Len(q),
         \A i \in 1 .. Len(q) : q[i] \notin S
  PROVE  Cardinality(S \cup {q[i] : i \in 1 .. k}) = Cardinality(S) + k
<1> DEFINE W == {q[i] : i \in 1 .. k}
           f == [i \in 1 .. k |-> q[i]]
<1>1. f \in Bijection(1 .. k, W)
  <2>1. f \in [1 .. k -> W]
    OBVIOUS
  <2>2. \A i, j \in 1 .. k : f[i] = f[j] => i = j
    BY DEF Distinct
  <2>3. \A t \in W : \E i \in 1 .. k : f[i] = t
    OBVIOUS
  <2> HIDE DEF f, W
  <2> QED  BY <2>1, <2>2, <2>3 DEF Bijection, Injection, Surjection, IsInjective
<1>2. IsFiniteSet(1 .. k) /\ Cardinality(1 .. k) = k
  BY FS_Interval
<1>3. IsFiniteSet(W) /\ Cardinality(W) = k
  BY <1>1, <1>2, FS_Bijection DEF ExistsBijection
<1>4. S \cap W = {}
  OBVIOUS
<1>5. Cardinality(S \cap W) = 0
  BY <1>4, FS_EmptySet
<1>6. Cardinality(S) \in Nat
  BY FS_CardinalityType
<1> HIDE DEF W
<1>7. Cardinality(S \cup W) = Cardinality(S) + Cardinality(W) - Cardinality(S \cap W)
  BY <1>3, FS_Union
<1>8. Cardinality(S \cup W) = Cardinality(S) + k
  BY <1>3, <1>5, <1>6, <1>7
<1> QED  BY <1>8 DEF W

\* What a step of the pool, after which its size is n, leaves.
PoolKept(n) ==
  /\ owners' \subseteq Callers /\ queue' \in Seq(Callers)
  /\ Distinct(queue') /\ \A i \in 1 .. Len(queue') : queue'[i] \notin owners'
  /\ queue' # <<>> => Cardinality(owners') >= n
  /\ Cardinality(owners') > Cardinality(owners) => Cardinality(owners') <= n

PoolTyped == owners \subseteq Callers /\ queue \in Seq(Callers) /\ size \in Nat

LEMMA HandsOver ==
  ASSUME PoolTyped, PoolInv, NEW held \in SUBSET owners, NEW n \in Nat,
         Semaphore!HandOver(held, n)
  PROVE  PoolKept(n) /\ Len(queue') <= Len(queue)
<1> DEFINE free == Semaphore!Free(n, held)
           k == IF free < Len(queue) THEN free ELSE Len(queue)
<1>1. IsFiniteSet(owners) /\ IsFiniteSet(held) /\ Cardinality(held) <= Cardinality(owners)
      /\ Cardinality(owners) \in Nat /\ Cardinality(held) \in Nat
  BY FS_Subset, FS_CardinalityType DEF PoolTyped
<1>2. free = IF n > Cardinality(held) THEN n - Cardinality(held) ELSE 0
  BY SameCardinality DEF Semaphore!Free
<1>3. Len(queue) \in Nat
  BY DEF PoolTyped
<1> HIDE DEF free
<1>4. k \in 0 .. Len(queue) /\ k <= free /\ (k < Len(queue) => k = free)
  BY <1>1, <1>2, <1>3
<1>5. owners' = held \cup {queue[i] : i \in 1 .. k} /\ queue' = SubSeq(queue, k + 1, Len(queue))
  BY DEF Semaphore!HandOver, free
<1> HIDE DEF k
<1>6. Dropped(queue, k)
  BY <1>4, DropOldest DEF PoolTyped
<1>7. queue' \in Seq(Callers) /\ Len(queue') = Len(queue) - k
      /\ \A i \in 1 .. Len(queue') : queue'[i] = queue[i + k]
  BY <1>5, <1>6 DEF Dropped
<1>8. Cardinality(owners') = Cardinality(held) + k
  <2>1. \A i \in 1 .. Len(queue) : queue[i] \notin held
    BY DEF PoolInv
  <2> QED  BY <1>1, <1>4, <1>5, <2>1, FrontCounted DEF PoolTyped, PoolInv
<1>9. owners' \subseteq Callers
  BY <1>4, <1>5 DEF PoolTyped
<1>10. Distinct(queue')
  <2> SUFFICES ASSUME NEW i \in 1 .. Len(queue'), NEW j \in 1 .. Len(queue'), queue'[i] = queue'[j]
               PROVE  i = j
    BY DEF Distinct
  <2>1. i + k \in 1 .. Len(queue) /\ j + k \in 1 .. Len(queue) /\ queue[i + k] = queue[j + k]
    BY <1>3, <1>4, <1>7
  <2>2. i + k = j + k
    BY <2>1 DEF PoolInv, Distinct
  <2> QED  BY <1>4, <2>2
<1>11. ASSUME NEW i \in 1 .. Len(queue') PROVE queue'[i] \notin owners'
  <2>1. i + k \in 1 .. Len(queue) /\ queue'[i] = queue[i + k]
    BY <1>3, <1>4, <1>7
  <2>2. queue[i + k] \notin held
    BY <2>1 DEF PoolInv
  <2>3. ASSUME NEW j \in 1 .. k PROVE queue[i + k] # queue[j]
    <3>1. j \in 1 .. Len(queue) /\ j # i + k
      BY <1>3, <1>4
    <3> QED  BY <2>1, <3>1 DEF PoolInv, Distinct
  <2> QED  BY <1>5, <2>1, <2>2, <2>3
<1>12. queue' # <<>> => Cardinality(owners') >= n
  <2>1. queue' # <<>> => k < Len(queue)
    BY <1>3, <1>4, <1>7
  <2> QED  BY <1>1, <1>2, <1>4, <1>8, <2>1
<1>13. Cardinality(owners') > Cardinality(owners) => Cardinality(owners') <= n
  BY <1>1, <1>2, <1>4, <1>8
<1>14. Len(queue') <= Len(queue)
  BY <1>3, <1>4, <1>7
<1> QED  BY <1>7, <1>9, <1>10, <1>11, <1>12, <1>13, <1>14 DEF PoolKept

LEMMA Takes ==
  ASSUME PoolTyped, PoolInv, NEW c \in Callers, Semaphore!Take(c)
  PROVE  PoolKept(size) /\ queue' = queue /\ size' = size
<1>1. IsFiniteSet(owners) /\ Cardinality(owners) \in Nat
  BY FS_Subset, FS_CardinalityType DEF PoolTyped
<1>2. c \notin owners /\ owners' = owners \cup {c} /\ queue = <<>> /\ queue' = queue /\ size' = size
      /\ Cardinality(owners) < size
  BY SameCardinality DEF Semaphore!Take
<1>3. Cardinality(owners') = Cardinality(owners) + 1
  BY <1>1, <1>2, FS_AddElement
<1> QED  BY <1>1, <1>2, <1>3 DEF PoolKept, PoolTyped, PoolInv

LEMMA Joins ==
  ASSUME PoolTyped, PoolInv, NEW c \in Callers, Semaphore!Join(c)
  PROVE  PoolKept(size) /\ Len(queue') = Len(queue) + 1 /\ size' = size /\ owners' = owners
<1>1. Cardinality(owners) \in Nat
  BY FS_Subset, FS_CardinalityType DEF PoolTyped
<1>2. /\ c \notin owners /\ c \notin Semaphore!Queued
      /\ Cardinality(owners) >= size
      /\ queue' = Append(queue, c) /\ owners' = owners /\ size' = size
  BY SameCardinality DEF Semaphore!Join
<1>3. \A i \in 1 .. Len(queue) : queue[i] # c
  BY <1>2 DEF Semaphore!Queued, Semaphore!ToSet, PoolTyped
<1>4. /\ queue' \in Seq(Callers) /\ Len(queue') = Len(queue) + 1 /\ Len(queue) \in Nat
      /\ \A i \in 1 .. Len(queue) : queue'[i] = queue[i]
      /\ queue'[Len(queue) + 1] = c
  BY <1>2 DEF PoolTyped
<1>5. Distinct(queue')
  BY <1>3, <1>4 DEF Distinct, PoolInv
<1>6. \A i \in 1 .. Len(queue') : queue'[i] \notin owners'
  BY <1>2, <1>4 DEF PoolInv
<1> QED  BY <1>1, <1>2, <1>4, <1>5, <1>6 DEF PoolKept, PoolTyped

LEMMA Quits ==
  ASSUME PoolTyped, PoolInv, NEW c \in Callers, Semaphore!Leave(c)
  PROVE  PoolKept(size) /\ Len(queue') = Len(queue) - 1 /\ size' = size /\ owners' = owners
<1>1. Cardinality(owners) \in Nat
  BY FS_Subset, FS_CardinalityType DEF PoolTyped
<1>2. PICK p \in 1 .. Len(queue) : queue' = Semaphore!RemoveAt(queue, p)
  BY DEF Semaphore!Leave
<1>3. owners' = owners /\ size' = size
  BY DEF Semaphore!Leave
<1>4. Removed(queue, p)
  BY RemoveOne DEF PoolTyped
<1>5. /\ queue' \in Seq(Callers) /\ Len(queue') = Len(queue) - 1 /\ Len(queue) \in Nat
      /\ \A i \in 1 .. Len(queue') : queue'[i] = IF i < p THEN queue[i] ELSE queue[i + 1]
  BY <1>2, <1>4 DEF Removed, PoolTyped
<1>6. Distinct(queue')
  <2> SUFFICES ASSUME NEW i \in 1 .. Len(queue'), NEW j \in 1 .. Len(queue'), queue'[i] = queue'[j]
               PROVE  i = j
    BY DEF Distinct
  <2>1. i \in 1 .. Len(queue) /\ j \in 1 .. Len(queue) /\ i + 1 \in 1 .. Len(queue) /\ j + 1 \in 1 .. Len(queue)
    BY <1>5
  <2>2. (IF i < p THEN i ELSE i + 1) = (IF j < p THEN j ELSE j + 1)
    BY <1>5, <2>1 DEF PoolInv, Distinct
  <2> QED  BY <2>2
<1>7. \A i \in 1 .. Len(queue') : queue'[i] \notin owners'
  BY <1>3, <1>5 DEF PoolInv
<1>8. queue # <<>> 
  BY <1>5
<1> QED  BY <1>1, <1>3, <1>5, <1>6, <1>7, <1>8 DEF PoolKept, PoolTyped, PoolInv

-----------------------------------------------------------------------------
(***************************************************************************)
(* The limits.                                                             *)
(***************************************************************************)
LEMMA LimitsAreInts == Limits \subseteq Nat /\ MinLimit * Unit \in Nat /\ MaxLimit * Unit \in Nat
                       /\ MinLimit * Unit <= MaxLimit * Unit
BY DEF Limits

LEMMA LimitRange ==
  ASSUME NEW l \in Limits
  PROVE  IntOf(l) \in MinLimit .. MaxLimit
<1> DEFINE q == l \div Unit
<1>1. l \in Nat /\ l >= MinLimit * Unit /\ l <= MaxLimit * Unit
  BY DEF Limits
<1>2. q \in Int /\ l % Unit \in 0 .. (Unit - 1) /\ l = (Unit * q) + (l % Unit)
  BY <1>1
<1> HIDE DEF q
<1>3. Unit * (q + 1) > Unit * MinLimit /\ Unit * q <= Unit * MaxLimit
  BY <1>1, <1>2
<1>4. q + 1 > MinLimit /\ q <= MaxLimit
  BY <1>2, <1>3
<1> QED  BY <1>2, <1>4 DEF IntOf, q

LEMMA InitialIsLimit == InitialLimit * Unit \in Limits /\ IntOf(InitialLimit * Unit) = InitialLimit
<1>1. InitialLimit * Unit \in Limits
  BY DEF Limits
<1>2. ASSUME NEW b \in Nat \ {0}, NEW a \in Nat PROVE (a * b) \div b = a
  BY <1>2
<1> QED  BY <1>1, <1>2 DEF IntOf

\* Whatever the signals say, updateLimit computes a limit within the configured ones.
LEMMA ComputedInRange ==
  ASSUME TypeOK, NEW m \in Nat
  PROVE  ComputedLimits(m) \subseteq Limits
<1>1. limit \in Int /\ lastMaxInflight \in Nat
  BY LimitsAreInts DEF TypeOK, Limits
<1>2. ASSUME NEW l \in Int PROVE IntOf(l) \in Int /\ Unit * Log10Func(IntOf(l)) \in Int
  BY <1>2 DEF IntOf, Log10Func
<1>3. ASSUME NEW l \in Int PROVE Decreased(l) \in Int
  BY <1>2, <1>3 DEF Decreased
<1>4. ASSUME NEW l \in Int PROVE Clamped(l) \in Limits
  BY <1>4, LimitsAreInts DEF Clamped, Limits
<1>5. ASSUME NEW q, NEW full, NEW correlated
      PROVE  Changed(ComputeChange(q, full, correlated)) \in Int
  <2>1. ComputeChange(q, full, correlated) \in {"decrease", "increase", "hold"}
    BY DEF ComputeChange
  <2> QED  BY <1>1, <1>2, <1>3, <2>1 DEF Changed
<1>6. ASSUME NEW n \in {m, AtLeast(m, lastMaxInflight)} PROVE ComputeMaxLimit(n) \in Int
  BY <1>1, <1>6 DEF ComputeMaxLimit, AtLeast
<1>7. ASSUME NEW l \in Int, NEW max \in Int PROVE Tracked(l, max) \in Int
  BY <1>1, <1>3, <1>7 DEF Tracked
<1>8. ASSUME NEW q, NEW correlated, NEW n \in {m, AtLeast(m, lastMaxInflight)}
      PROVE  Clamped(Tracked(Changed(ComputeChange(q, IsFull, correlated)), ComputeMaxLimit(n))) \in Limits
  <2> DEFINE l == Changed(ComputeChange(q, IsFull, correlated))
             max == ComputeMaxLimit(n)
  <2>1. l \in Int /\ max \in Int
    BY <1>5, <1>6
  <2> HIDE DEF l, max
  <2>2. Tracked(l, max) \in Int
    BY <1>7, <2>1
  <2>3. Clamped(Tracked(l, max)) \in Limits
    BY <1>4, <2>2
  <2> QED  BY <2>3 DEF l, max
<1> QED  BY <1>8 DEF ComputedLimits

-----------------------------------------------------------------------------
(***************************************************************************)
(* The steps.                                                              *)
(***************************************************************************)
\* What record stores, at once or when the listener has returned.
LEMMA Stores ==
  ASSUME IInv, NEW c \in Callers, NEW l \in Limits, StoreLimit(c, l)
  PROVE  /\ PoolKept(size') /\ Len(queue') <= Len(queue)
         /\ size' \in MinLimit .. MaxLimit /\ limit' \in Limits /\ LimitInForce'
<1>1. PoolTyped /\ PoolInv /\ IntOf(l) \in MinLimit .. MaxLimit
  BY LimitRange DEF IInv, TypeOK, PoolTyped
<1>2. size' = IntOf(l) /\ limit' = l /\ Semaphore!HandOver(owners, IntOf(l))
  BY DEF StoreLimit, Semaphore!Resize
<1>3. PoolKept(IntOf(l)) /\ Len(queue') <= Len(queue)
  BY <1>1, <1>2, HandsOver
<1> QED  BY <1>1, <1>2, <1>3 DEF LimitInForce, IntOf

\* The semaphore and the limit after any step.
LEMMA StepPool ==
  ASSUME IInv, [Next]_vars
  PROVE  PoolKept(size') /\ size' \in MinLimit .. MaxLimit /\ limit' \in Limits /\ LimitInForce'
<1>1. PoolTyped /\ PoolInv /\ LimitInForce /\ size \in MinLimit .. MaxLimit /\ limit \in Limits
  BY DEF IInv, TypeOK, PoolTyped, Limits
<1>2. CASE UNCHANGED <<semaphore, limit>>
  <2>1. Cardinality(owners) \in Nat
    BY <1>1, FS_Subset, FS_CardinalityType DEF PoolTyped
  <2> QED  BY <1>1, <1>2, <2>1 DEF semaphore, PoolKept, PoolTyped, PoolInv, LimitInForce, IntOf
<1>3. ASSUME NEW c \in Callers, AcquirePermit(c)
      PROVE  PoolKept(size') /\ size' = size /\ limit' = limit
  BY <1>1, <1>3, Takes DEF AcquirePermit
<1>4. ASSUME NEW c \in Callers, WaitForPermit(c)
      PROVE  PoolKept(size') /\ size' = size /\ limit' = limit
  BY <1>1, <1>4, Joins DEF WaitForPermit
<1>5. ASSUME NEW c \in Callers, GiveUp(c)
      PROVE  PoolKept(size') /\ size' = size /\ limit' = limit
  BY <1>1, <1>5, Quits DEF GiveUp
<1>6. ASSUME NEW c \in Callers, Release(c)
      PROVE  PoolKept(size') /\ size' = size /\ limit' = limit
  <2>1. size' = size /\ limit' = limit /\ Semaphore!HandOver(owners \ {c}, size) /\ size \in Nat
    BY <1>1, <1>6 DEF Release, Semaphore!GiveBack
  <2>2. owners \ {c} \in SUBSET owners
    OBVIOUS
  <2> QED  BY <1>1, <2>1, <2>2, HandsOver
<1>7. CASE Reset
  <2>1. size' = InitialLimit /\ limit' = InitialLimit * Unit /\ Semaphore!HandOver(owners, InitialLimit)
    BY <1>7 DEF Reset, Semaphore!Resize
  <2>2. PoolKept(InitialLimit)
    BY <1>1, <2>1, HandsOver
  <2> QED  BY <2>1, <2>2, InitialIsLimit DEF LimitInForce, IntOf
<1>8. ASSUME NEW c \in Callers, ListenerReturns(c)
      PROVE  PoolKept(size') /\ size' \in MinLimit .. MaxLimit /\ limit' \in Limits /\ LimitInForce'
  <2>1. newLimit[c] \in Limits /\ StoreLimit(c, newLimit[c])
    BY <1>8 DEF ListenerReturns, IInv, PendingLimits
  <2> QED  BY <2>1, Stores
<1>9. ASSUME NEW c \in Callers, NEW dropped \in BOOLEAN, RecordAndUpdate(c, dropped)
      PROVE  \/ UNCHANGED <<semaphore, limit>>
             \/ PoolKept(size') /\ size' \in MinLimit .. MaxLimit /\ limit' \in Limits /\ LimitInForce'
  <2>1. Added(c, dropped).maxInflight \in Nat
    BY DEF Added, IInv, TypeOK, AtLeast
  <2>2. PICK l \in Limits : UNCHANGED <<semaphore, limit>> \/ StoreLimit(c, l)
    BY <1>9, <2>1, ComputedInRange DEF RecordAndUpdate, IInv
  <2> QED  BY <2>2, Stores
<1>10. ASSUME NEW c \in Callers,
              CanAcquirePermit(c) \/ AcquireFails(c) \/ Granted(c) \/ NewPermit(c)
       PROVE  UNCHANGED <<semaphore, limit>>
  BY <1>10 DEF CanAcquirePermit, AcquireFails, Granted, NewPermit
<1>11. ASSUME NEW c \in Callers, NEW dropped \in BOOLEAN, RecordSample(c, dropped)
       PROVE  UNCHANGED <<semaphore, limit>>
  BY <1>11 DEF RecordSample
<1>12. CASE UpdateTimeComes \/ UNCHANGED vars
  <2>1. UNCHANGED <<semaphore, limit>>
    BY <1>12 DEF UpdateTimeComes, vars
  <2> QED  BY <1>2, <2>1
<1>13. size' = size /\ limit' = limit => size' \in MinLimit .. MaxLimit /\ limit' \in Limits /\ LimitInForce'
  BY <1>1 DEF LimitInForce, IntOf
<1> QED  BY <1>2, <1>3, <1>4, <1>5, <1>6, <1>7, <1>8, <1>9, <1>10, <1>11, <1>12, <1>13 DEF Next, Record

\* The callers between check and acquire.
Is(a, b) == IF a = b THEN 1 ELSE 0

CheckedMoved(c, to) ==
  /\ Cardinality(Checked') = Cardinality(Checked) + Is(to, "checked") - Is(pc[c], "checked")
  /\ Cardinality(Checked) \in Nat /\ Cardinality(Checked') \in Nat
  /\ Cardinality(Checked') <= Cardinality(Callers)

LEMMA CheckedMoves ==
  ASSUME TypeOK, NEW c \in Callers, NEW to, Goes(c, to)
  PROVE  CheckedMoved(c, to)
<1> DEFINE A == Checked  B == Checked'
<1>1. A \subseteq Callers /\ B \subseteq Callers
  BY DEF Checked
<1>2. IsFiniteSet(A) /\ IsFiniteSet(B) /\ Cardinality(A) \in Nat /\ Cardinality(B) \in Nat
      /\ Cardinality(B) <= Cardinality(Callers)
  BY <1>1, FS_Subset, FS_CardinalityType
<1>3. /\ c \in A <=> pc[c] = "checked"
      /\ c \in B <=> to = "checked"
      /\ \A d : d # c => (d \in A <=> d \in B)
  BY DEF Checked, Goes, TypeOK
<1> HIDE DEF A, B
<1>4. Cardinality(B) = Cardinality(A) + Is(to, "checked") - Is(pc[c], "checked")
  <2>1. CASE c \in A /\ c \notin B
    <3>1. B = A \ {c}
      BY <1>3, <2>1
    <3> QED  BY <1>2, <1>3, <2>1, <3>1, FS_RemoveElement DEF Is
  <2>2. CASE c \notin A /\ c \in B
    <3>1. B = A \cup {c}
      BY <1>3, <2>2
    <3> QED  BY <1>2, <1>3, <2>2, <3>1, FS_AddElement DEF Is
  <2>3. CASE c \in A <=> c \in B
    <3>1. A = B
      <4>1. \A d : d \in A <=> d \in B
        BY <1>3, <2>3
      <4> QED  BY <4>1
    <3> QED  BY <1>2, <1>3, <2>3, <3>1 DEF Is
  <2> QED  BY <2>1, <2>2, <2>3
<1> QED  BY <1>2, <1>4 DEF CheckedMoved, A, B

\* The rest of the state, without the semaphore, the limit and the history.
RestTyped ==
  /\ config \in Configs
  /\ recent \in [samples : 0 .. MinSamples, maxInflight : Nat]
  /\ due \in BOOLEAN /\ lastMaxInflight \in Nat
  /\ mu \in Callers \cup {"free"}
  /\ pc \in [Callers -> PCs]
  /\ inflight \in [Callers -> Nat]
  /\ newLimit \in [Callers -> {0} \cup Limits]

LEMMA StepRest == ASSUME IInv, [Next]_vars PROVE RestTyped' /\ PendingLimits'
<1>1. RestTyped /\ PendingLimits
  BY DEF IInv, TypeOK, RestTyped, Limits
<1>2. ASSUME NEW c \in Callers, NEW to \in PCs, Goes(c, to), to # "listener",
             UNCHANGED <<config, window, newLimit>>,
             mu' \in {mu, "free"}, inflight' \in [Callers -> Nat]
      PROVE  RestTyped' /\ PendingLimits'
  BY <1>1, <1>2 DEF Goes, RestTyped, PendingLimits, window
<1>3. Cardinality(owners) \in Nat /\ inflight \in [Callers -> Nat]
  BY FS_Subset, FS_CardinalityType DEF IInv, TypeOK
<1>4. ASSUME NEW c \in Callers, CanAcquirePermit(c) PROVE RestTyped' /\ PendingLimits'
  BY <1>2, <1>3, <1>4 DEF CanAcquirePermit, PCs
<1>5. ASSUME NEW c \in Callers, AcquirePermit(c) \/ WaitForPermit(c)
      PROVE RestTyped' /\ PendingLimits'
  BY <1>2, <1>3, <1>5 DEF AcquirePermit, WaitForPermit, PCs
<1>6. ASSUME NEW c \in Callers, AcquireFails(c) \/ GiveUp(c) PROVE RestTyped' /\ PendingLimits'
  BY <1>2, <1>3, <1>6 DEF AcquireFails, GiveUp, PCs
<1>7. ASSUME NEW c \in Callers, Granted(c) PROVE RestTyped' /\ PendingLimits'
  BY <1>2, <1>3, <1>7 DEF Granted, PCs
<1>8. ASSUME NEW c \in Callers, NewPermit(c) \/ Release(c) PROVE RestTyped' /\ PendingLimits'
  <2>1. inflight' \in [Callers -> Nat]
    BY <1>3, <1>8 DEF NewPermit, Release
  <2> QED  BY <1>2, <1>8, <2>1 DEF NewPermit, Release, PCs
<1>9. ASSUME NEW c \in Callers, NEW dropped \in BOOLEAN
      PROVE  Added(c, dropped) \in [samples : 0 .. MinSamples, maxInflight : Nat]
  <2>1. AtMost(recent.samples + 1, MinSamples) \in 0 .. MinSamples
    BY <1>1 DEF RestTyped, AtMost
  <2>2. AtLeast(recent.maxInflight, inflight[c]) \in Nat
    BY <1>1 DEF RestTyped, AtLeast
  <2> QED  BY <1>1, <2>1, <2>2 DEF Added, RestTyped
<1>10. ASSUME NEW c \in Callers, NEW dropped \in BOOLEAN, RecordSample(c, dropped)
       PROVE  RestTyped' /\ PendingLimits'
  BY <1>1, <1>9, <1>10 DEF RecordSample, Goes, RestTyped, PendingLimits, PCs
<1>11. ASSUME NEW c \in Callers, NEW l, StoreLimit(c, l), UNCHANGED <<config, inflight>>,
              lastMaxInflight' \in Nat
       PROVE  RestTyped' /\ PendingLimits'
  <2>1. recent' \in [samples : 0 .. MinSamples, maxInflight : Nat]
    BY <1>11 DEF StoreLimit, NoSamples
  <2> QED  BY <1>1, <1>11, <2>1 DEF StoreLimit, Goes, RestTyped, PendingLimits, PCs
<1>12. ASSUME NEW c \in Callers, ListenerReturns(c) PROVE RestTyped' /\ PendingLimits'
  BY <1>1, <1>11, <1>12 DEF ListenerReturns, RestTyped
<1>13. ASSUME NEW c \in Callers, NEW dropped \in BOOLEAN, RecordAndUpdate(c, dropped)
       PROVE  RestTyped' /\ PendingLimits'
  <2>1. Added(c, dropped).maxInflight \in Nat /\ lastMaxInflight' = Added(c, dropped).maxInflight
        /\ UNCHANGED <<config, inflight>>
    BY <1>9, <1>13 DEF RecordAndUpdate
  <2>2. PICK l \in Limits :
          \/ StoreLimit(c, l)
          \/ /\ newLimit' = [newLimit EXCEPT ![c] = l] /\ recent' = Added(c, dropped)
             /\ Goes(c, "listener") /\ UNCHANGED <<due, mu>>
    BY <1>13, <2>1, ComputedInRange DEF RecordAndUpdate, IInv
  <2>3. CASE StoreLimit(c, l)
    BY <1>11, <2>1, <2>3
  <2>4. CASE /\ newLimit' = [newLimit EXCEPT ![c] = l] /\ recent' = Added(c, dropped)
             /\ Goes(c, "listener") /\ UNCHANGED <<due, mu>>
    BY <1>1, <1>9, <2>1, <2>4 DEF Goes, RestTyped, PendingLimits, PCs
  <2> QED  BY <2>2, <2>3, <2>4
<1>14. CASE Reset
  <2>1. recent' \in [samples : 0 .. MinSamples, maxInflight : Nat]
    BY <1>14 DEF Reset, NoSamples
  <2> QED  BY <1>1, <1>14, <2>1 DEF Reset, RestTyped, PendingLimits
<1>15. CASE UpdateTimeComes \/ UNCHANGED vars
  BY <1>1, <1>15 DEF UpdateTimeComes, vars, window, RestTyped, PendingLimits
<1> QED  BY <1>4, <1>5, <1>6, <1>7, <1>8, <1>10, <1>12, <1>13, <1>14, <1>15 DEF Next, Record

\* The history, and the callers that it bounds.
HistoryTyped == peak \in 0 .. Cardinality(Callers) /\ allowed \in Nat

LEMMA StepChecks == ASSUME IInv, [Next]_vars PROVE ChecksCounted' /\ HistoryTyped'
<1>1. /\ Cardinality(Checked) \in Nat /\ Len(queue) \in Nat /\ peak \in Nat /\ allowed \in Nat
      /\ Cardinality(Callers) \in Nat
  <2>1. Checked \subseteq Callers
    BY DEF Checked
  <2> QED  BY <2>1, FS_Subset, FS_CardinalityType DEF IInv, TypeOK
<1>2. HistoryTyped /\ ChecksCounted /\ PoolTyped /\ PoolInv /\ TypeOK
  BY DEF IInv, TypeOK, HistoryTyped, PoolTyped
<1>3. ASSUME NEW c \in Callers, NEW to, Goes(c, to), to # "checked",
             UNCHANGED <<config, peak, allowed>>,
             Len(queue') <= Len(queue) + (IF pc[c] = "checked" THEN 1 ELSE 0), Len(queue') \in Nat
      PROVE  ChecksCounted' /\ HistoryTyped'
  <2>1. CheckedMoved(c, to)
    BY <1>2, <1>3, CheckedMoves
  <2>2. Cardinality(Checked') = Cardinality(Checked) - Is(pc[c], "checked")
        /\ Cardinality(Checked') \in Nat
    BY <1>1, <1>3, <2>1 DEF CheckedMoved, Is
  <2> QED  BY <1>1, <1>2, <1>3, <2>2 DEF ChecksCounted, HistoryTyped, Is
<1>4. ASSUME Len(queue') <= Len(queue), Len(queue') \in Nat, UNCHANGED <<config, peak, allowed, pc>>
      PROVE  ChecksCounted' /\ HistoryTyped'
  <2>1. Checked' = Checked
    BY <1>4 DEF Checked
  <2> QED  BY <1>1, <1>2, <1>4, <2>1 DEF ChecksCounted, HistoryTyped
<1>5. ASSUME NEW c \in Callers, CanAcquirePermit(c) PROVE ChecksCounted' /\ HistoryTyped'
  <2>1. CheckedMoved(c, "checked")
    BY <1>2, <1>5, CheckedMoves DEF CanAcquirePermit
  <2>2. Cardinality(Checked') = Cardinality(Checked) + 1 /\ Cardinality(Checked') <= Cardinality(Callers)
    BY <1>1, <1>5, <2>1 DEF CheckedMoved, Is, CanAcquirePermit
  <2>3. MaxQueue(IntOf(limit)) \in Nat
    <3>1. limit \in Limits
      BY <1>2 DEF TypeOK, Limits
    <3>2. IntOf(limit) \in Nat
      BY <3>1, LimitRange
    <3> QED  BY <3>2 DEF MaxQueue
  <2>4. PICK m \in Nat : m = MaxQueue(IntOf(limit))
    BY <2>3
  <2>5. peak' = AtLeast(peak, Cardinality(Checked) + 1) /\ allowed' = AtLeast(allowed, m)
        /\ config' = config /\ queue' = queue
    BY <1>5, <2>4 DEF CanAcquirePermit, semaphore
  <2>6. Len(queue) <= allowed' - 1
    <3>1. CASE ~IsFull
      <4>1. Cardinality(owners) \in Nat /\ size \in Nat
        BY <1>2, FS_Subset, FS_CardinalityType DEF PoolTyped
      <4>2. queue = <<>>
        BY <1>2, <3>1, <4>1 DEF PoolInv, IsFull
      <4> QED  BY <1>1, <1>2, <2>5, <4>2 DEF ChecksCounted, AtLeast
    <3>2. CASE MayQueue(Len(queue))
      BY <1>1, <2>4, <2>5, <3>2 DEF MayQueue, AtLeast
    <3> QED  BY <1>5, <3>1, <3>2 DEF CanAcquirePermit
  <2>7. peak' \in 0 .. Cardinality(Callers) /\ peak' >= Cardinality(Checked) + 1
    BY <1>1, <1>2, <2>2, <2>5 DEF AtLeast, HistoryTyped
  <2>8. allowed' \in Nat /\ allowed' >= 1
    BY <1>1, <1>2, <2>5 DEF AtLeast, ChecksCounted
  <2> QED  BY <1>1, <2>2, <2>5, <2>6, <2>7, <2>8 DEF ChecksCounted, HistoryTyped
<1>6. ASSUME NEW c \in Callers, AcquirePermit(c) PROVE ChecksCounted' /\ HistoryTyped'
  <2>1. queue' = queue
    BY <1>2, <1>6, Takes DEF AcquirePermit
  <2> QED  BY <1>1, <1>3, <1>6, <2>1 DEF AcquirePermit
<1>7. ASSUME NEW c \in Callers, WaitForPermit(c) PROVE ChecksCounted' /\ HistoryTyped'
  <2>1. Len(queue') = Len(queue) + 1
    BY <1>2, <1>7, Joins DEF WaitForPermit
  <2>2. CASE pc[c] = "checked"
    BY <1>1, <1>3, <1>7, <2>1, <2>2 DEF WaitForPermit
  <2>3. CASE ~config.queueing
    <3>1. CheckedMoved(c, "waiting")
      BY <1>2, <1>7, CheckedMoves DEF WaitForPermit
    <3>2. Cardinality(Checked') <= Cardinality(Checked) /\ Cardinality(Checked') \in Nat
      BY <1>1, <3>1 DEF CheckedMoved, Is
    <3> QED  BY <1>1, <1>2, <1>7, <2>3, <3>2 DEF WaitForPermit, ChecksCounted, HistoryTyped
  <2> QED  BY <1>7, <2>2, <2>3 DEF WaitForPermit, MayAcquire
<1>8. ASSUME NEW c \in Callers, AcquireFails(c) \/ Granted(c) \/ NewPermit(c)
      PROVE  ChecksCounted' /\ HistoryTyped'
  BY <1>1, <1>3, <1>8 DEF AcquireFails, Granted, NewPermit, semaphore
<1>9. ASSUME NEW c \in Callers, GiveUp(c) PROVE ChecksCounted' /\ HistoryTyped'
  <2>1. Len(queue') = Len(queue) - 1 /\ queue' \in Seq(Callers)
    BY <1>2, <1>9, Quits DEF GiveUp, PoolKept
  <2>2. Len(queue') \in Nat
    BY <2>1
  <2> QED  BY <1>1, <1>3, <1>9, <2>1, <2>2 DEF GiveUp
<1>10. ASSUME NEW c \in Callers, Release(c) PROVE ChecksCounted' /\ HistoryTyped'
  <2>1. owners \ {c} \in SUBSET owners /\ size \in Nat /\ Semaphore!HandOver(owners \ {c}, size)
    BY <1>2, <1>10 DEF Release, Semaphore!GiveBack, PoolTyped
  <2>2. Len(queue') <= Len(queue) /\ queue' \in Seq(Callers)
    BY <1>2, <2>1, HandsOver DEF PoolKept
  <2>3. Len(queue') \in Nat
    BY <2>2
  <2> QED  BY <1>1, <1>3, <1>10, <2>2, <2>3 DEF Release
<1>11. ASSUME NEW c \in Callers, NEW dropped \in BOOLEAN, RecordSample(c, dropped)
       PROVE  ChecksCounted' /\ HistoryTyped'
  BY <1>1, <1>3, <1>11 DEF RecordSample, semaphore
<1>12. ASSUME NEW c \in Callers, NEW l \in Limits, StoreLimit(c, l), UNCHANGED <<config, peak, allowed>>
       PROVE  ChecksCounted' /\ HistoryTyped'
  <2>1. Len(queue') <= Len(queue) /\ queue' \in Seq(Callers)
    BY <1>12, Stores DEF PoolKept
  <2>2. Len(queue') \in Nat
    BY <2>1
  <2> QED  BY <1>1, <1>3, <1>12, <2>1, <2>2 DEF StoreLimit
<1>13. ASSUME NEW c \in Callers, ListenerReturns(c) PROVE ChecksCounted' /\ HistoryTyped'
  BY <1>12, <1>13 DEF ListenerReturns, IInv, PendingLimits
<1>14. ASSUME NEW c \in Callers, NEW dropped \in BOOLEAN, RecordAndUpdate(c, dropped)
       PROVE  ChecksCounted' /\ HistoryTyped'
  <2>1. Added(c, dropped).maxInflight \in Nat
    BY <1>2 DEF Added, TypeOK, AtLeast
  <2>2. PICK l \in Limits : StoreLimit(c, l) \/ (Goes(c, "listener") /\ UNCHANGED semaphore)
    BY <1>2, <1>14, <2>1, ComputedInRange DEF RecordAndUpdate
  <2>3. UNCHANGED <<config, peak, allowed>>
    BY <1>14 DEF RecordAndUpdate
  <2> QED  BY <1>1, <1>3, <1>12, <2>2, <2>3 DEF semaphore
<1>15. CASE Reset
  <2>1. Semaphore!HandOver(owners, InitialLimit)
    BY <1>15 DEF Reset, Semaphore!Resize
  <2>2. Len(queue') <= Len(queue) /\ queue' \in Seq(Callers)
    BY <1>2, <2>1, HandsOver DEF PoolKept
  <2>3. Len(queue') \in Nat
    BY <2>2
  <2> QED  BY <1>4, <1>15, <2>2, <2>3 DEF Reset
<1>16. CASE UpdateTimeComes \/ UNCHANGED vars
  BY <1>1, <1>4, <1>16 DEF UpdateTimeComes, vars, semaphore
<1> QED  BY <1>5, <1>6, <1>7, <1>8, <1>9, <1>10, <1>11, <1>13, <1>14, <1>15, <1>16 DEF Next, Record

-----------------------------------------------------------------------------
LEMMA InitIInv == Init => IInv
<1> SUFFICES ASSUME Init PROVE IInv
  OBVIOUS
<1>1. Cardinality(Callers) \in Nat
  BY FS_CardinalityType
<1>2. TypeOK
  <2>1. NoSamples \in [samples : 0 .. MinSamples, maxInflight : Nat]
    BY DEF NoSamples
  <2>2. limit \in MinLimit * Unit .. MaxLimit * Unit
    BY InitialIsLimit DEF Init, Limits
  <2>3. pc \in [Callers -> PCs] /\ inflight \in [Callers -> Nat]
        /\ newLimit \in [Callers -> {0} \cup (MinLimit * Unit .. MaxLimit * Unit)]
    BY DEF Init, PCs
  <2>4. queue \in Seq(Callers) /\ owners \subseteq Callers
    BY DEF Init
  <2>5. /\ size \in MinLimit .. MaxLimit
        /\ peak \in 0 .. Cardinality(Callers) /\ allowed \in Nat /\ lastMaxInflight \in Nat
    BY <1>1 DEF Init
  <2>6. recent = NoSamples /\ config \in Configs /\ due \in BOOLEAN /\ mu \in Callers \cup {"free"}
    BY DEF Init
  <2> QED  BY <2>1, <2>2, <2>3, <2>4, <2>5, <2>6 DEF TypeOK
<1>3. PoolInv
  BY DEF Init, PoolInv, Distinct
<1>4. LimitInForce /\ PendingLimits
  BY InitialIsLimit DEF Init, LimitInForce, PendingLimits
<1>5. ChecksCounted
  <2>1. Checked = {}
    BY DEF Init, Checked
  <2>2. Cardinality(Checked) = 0
    BY <2>1, FS_EmptySet
  <2> QED  BY <2>2 DEF Init, ChecksCounted
<1> QED  BY <1>2, <1>3, <1>4, <1>5 DEF IInv

LEMMA StepIInv == IInv /\ [Next]_vars => IInv'
<1> SUFFICES ASSUME IInv, [Next]_vars PROVE IInv'
  OBVIOUS
<1>1. PoolKept(size') /\ size' \in MinLimit .. MaxLimit /\ limit' \in Limits /\ LimitInForce'
  BY StepPool
<1>2. RestTyped' /\ PendingLimits' /\ ChecksCounted' /\ HistoryTyped'
  BY StepRest, StepChecks
<1>3. TypeOK'
  BY <1>1, <1>2 DEF TypeOK, RestTyped, HistoryTyped, PoolKept, Limits
<1>4. PoolInv'
  BY <1>1 DEF PoolKept, PoolInv
<1> QED  BY <1>1, <1>2, <1>3, <1>4 DEF IInv

LEMMA Invariance == Spec => []IInv
BY InitIInv, StepIInv, PTL DEF Spec

\* The limit stays between minLimit and maxLimit, and so does every limit that a listener holds
\* up, for any factors and whatever the correlations say.
THEOREM TypeCorrect == Spec => []TypeOK
<1>1. IInv => TypeOK
  BY DEF IInv
<1> QED  BY <1>1, Invariance, PTL

\* Permits are handed out within the limit in force, for any number of callers and any overlap of
\* updates, listeners and Reset.
THEOREM AdmittedWithinLimit == Spec => AdmissionWithinLimit
<1>1. ASSUME IInv, [Next]_vars
      PROVE  [Cardinality(owners') > Cardinality(owners) => Cardinality(owners') <= IntOf(limit')]_vars
  <2>1. PoolKept(size') /\ LimitInForce'
    BY <1>1, StepPool
  <2> QED  BY <2>1 DEF PoolKept, LimitInForce, IntOf
<1> QED  BY <1>1, Invariance, PTL DEF Spec, AdmissionWithinLimit

\* The queue exceeds its bound by the callers between CanAcquirePermit and the acquire, at most,
\* for any number of them.
THEOREM QueueIsBounded == Spec => []QueueOvershootBounded
<1>1. IInv => QueueOvershootBounded
  <2> SUFFICES ASSUME IInv, config.queueing PROVE Len(queue) <= allowed - 1 + peak
    BY DEF QueueOvershootBounded
  <2>1. Cardinality(Checked) \in Nat
    BY FS_Subset, FS_CardinalityType DEF Checked
  <2>2. Len(queue) \in Nat /\ allowed \in Nat /\ peak \in Nat
    BY DEF IInv, TypeOK
  <2> QED  BY <2>1, <2>2 DEF IInv, ChecksCounted
<1> QED  BY <1>1, Invariance, PTL

\* Every step of the limiter is one step of its semaphore, or none.
LEMMA StepIsPoolStep == ASSUME IInv, [Next]_vars PROVE [Semaphore!Next]_(Semaphore!vars)
<1>1. CASE UNCHANGED semaphore
  BY <1>1 DEF semaphore, Semaphore!vars
<1>2. ASSUME NEW c \in Callers, AcquirePermit(c) \/ WaitForPermit(c) \/ GiveUp(c) \/ Release(c)
      PROVE  Semaphore!Next
  BY <1>2 DEF AcquirePermit, WaitForPermit, GiveUp, Release, Semaphore!Next
<1>3. ASSUME NEW c, NEW l \in Limits, StoreLimit(c, l) PROVE Semaphore!Next
  <2>1. IntOf(l) \in MinLimit .. MaxLimit /\ Semaphore!Resize(IntOf(l))
    BY <1>3, LimitRange DEF StoreLimit
  <2> QED  BY <2>1 DEF Semaphore!Next
<1>4. CASE Reset
  BY <1>4 DEF Reset, Semaphore!Next
<1>5. ASSUME NEW c \in Callers, ListenerReturns(c) PROVE Semaphore!Next
  BY <1>3, <1>5 DEF ListenerReturns, IInv, PendingLimits
<1>6. ASSUME NEW c \in Callers, NEW dropped \in BOOLEAN, RecordAndUpdate(c, dropped)
      PROVE  Semaphore!Next \/ UNCHANGED semaphore
  <2>1. Added(c, dropped).maxInflight \in Nat
    BY DEF Added, IInv, TypeOK, AtLeast
  <2>2. PICK l \in Limits : UNCHANGED semaphore \/ StoreLimit(c, l)
    BY <1>6, <2>1, ComputedInRange DEF RecordAndUpdate, IInv
  <2> QED  BY <1>3, <2>2
<1>7. ASSUME NEW c \in Callers,
             CanAcquirePermit(c) \/ AcquireFails(c) \/ Granted(c) \/ NewPermit(c)
      PROVE  UNCHANGED semaphore
  BY <1>7 DEF CanAcquirePermit, AcquireFails, Granted, NewPermit
<1>8. ASSUME NEW c \in Callers, NEW dropped \in BOOLEAN, RecordSample(c, dropped)
      PROVE  UNCHANGED semaphore
  BY <1>8 DEF RecordSample
<1>9. CASE UpdateTimeComes \/ UNCHANGED vars
  <2>1. UNCHANGED semaphore
    BY <1>9 DEF UpdateTimeComes, vars
  <2> QED  BY <1>1, <2>1
<1> QED  BY <1>1, <1>2, <1>4, <1>5, <1>6, <1>7, <1>8, <1>9 DEF Next, Record

\* The limiter uses its semaphore as the pool allows: it takes, waits for and gives back permits
\* one caller at a time, and sets only sizes between minLimit and maxLimit.  What DynamicSemaphore
\* is shown to implement is therefore all that the limiter relies on.
THEOREM LimiterUsesPool == Spec => Semaphore!Spec
<1>1. Init => Semaphore!Init
  BY DEF Init, Semaphore!Init
<1>2. IInv /\ [Next]_vars => [Semaphore!Next]_(Semaphore!vars)
  BY StepIsPoolStep
<1> QED  BY <1>1, <1>2, Invariance, PTL DEF Spec, Semaphore!Spec
=============================================================================
