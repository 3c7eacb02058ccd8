----------------------- MODULE DynamicSemaphoreProofs -----------------------
(***************************************************************************)
(* Proofs about DynamicSemaphore, for every set of callers and every set   *)
(* of sizes.                                                               *)
(***************************************************************************)
EXTENDS DynamicSemaphore, FiniteSetTheorems, SequenceTheorems, TLAPS

\* The inductive invariant: the properties support each other.  PermitsConserved needs to know
\* that a woken waiter was not an owner yet (QueueMatchesBlocked), and QueueMatchesBlocked that
\* Release does not panic (PermitsConserved).
IInv == TypeOK /\ PermitsConserved /\ WaitersOnlyWhenFull /\ QueueMatchesBlocked

USE SizesAssumption, CallersAssumption

-----------------------------------------------------------------------------
(***************************************************************************)
(* Facts about the lists of waiters.                                       *)
(***************************************************************************)
\* Dropping the k oldest entries of a queue leaves the others in their order.
LEMMA DropProperties ==
  ASSUME NEW w \in Seq(Callers), NEW k \in 0..Len(w)
  PROVE  LET d == SubSeq(w, k + 1, Len(w))
         IN  /\ d \in Seq(Callers)
             /\ Len(d) = Len(w) - k
             /\ \A i \in 1..Len(d) : d[i] = w[i + k]
<1>1. \A i \in (k+1)..Len(w) : w[i] \in Callers
  OBVIOUS
<1>2. Len(w) \in Nat /\ k + 1 \in Int
  OBVIOUS
<1> QED  BY <1>1, <1>2, SubSeqProperties

\* list.Remove takes out one entry and keeps the order of the others.
LEMMA RemoveAtProperties ==
  ASSUME NEW w \in Seq(Callers), NEW p \in 1..Len(w)
  PROVE  LET r == RemoveAt(w, p)
         IN  /\ r \in Seq(Callers)
             /\ Len(r) = Len(w) - 1
             /\ \A i \in 1..Len(r) : r[i] = IF i < p THEN w[i] ELSE w[i + 1]
<1> DEFINE a == SubSeq(w, 1, p - 1)
           b == SubSeq(w, p + 1, Len(w))
<1>1. /\ a \in Seq(Callers)
      /\ Len(a) = p - 1
      /\ \A i \in 1..p-1 : a[i] = w[i]
  <2>1. \A i \in 1..p-1 : w[i] \in Callers
    OBVIOUS
  <2> QED  BY <2>1, SubSeqProperties
<1>2. /\ b \in Seq(Callers)
      /\ Len(b) = Len(w) - p
      /\ \A i \in 1..Len(w)-p : b[i] = w[i + p]
  BY DropProperties
<1>3. /\ a \o b \in Seq(Callers)
      /\ Len(a \o b) = Len(w) - 1
      /\ \A i \in 1..Len(w)-1 : (a \o b)[i] = IF i <= p - 1 THEN a[i] ELSE b[i - (p - 1)]
  <2>1. /\ a \o b \in Seq(Callers)
        /\ Len(a \o b) = Len(a) + Len(b)
        /\ \A i \in 1..Len(a) + Len(b) : (a \o b)[i] = IF i <= Len(a) THEN a[i] ELSE b[i - Len(a)]
    <3> HIDE DEF a, b
    <3> QED  BY <1>1, <1>2, ConcatProperties
  <2>2. Len(a) + Len(b) = Len(w) - 1
    <3> HIDE DEF a, b
    <3> QED  BY <1>1, <1>2
  <2> HIDE DEF a, b
  <2> QED  BY <2>1, <2>2, <1>1
<1>4. ASSUME NEW i \in 1..Len(w)-1
      PROVE  (a \o b)[i] = IF i < p THEN w[i] ELSE w[i + 1]
  <2> HIDE DEF a, b
  <2>1. CASE i < p
    <3>1. i \in 1..p-1 /\ i <= p - 1
      BY <2>1
    <3> QED  BY <3>1, <2>1, <1>1, <1>3
  <2>2. CASE ~(i < p)
    <3>1. i - (p - 1) \in 1..Len(w)-p /\ ~(i <= p - 1) /\ (i - (p - 1)) + p = i + 1
      BY <2>2
    <3> QED  BY <3>1, <2>2, <1>2, <1>3
  <2> QED  BY <2>1, <2>2
<1> HIDE DEF a, b
<1> QED  BY <1>3, <1>4 DEF RemoveAt, a, b

\* Waking the k oldest of a queue without duplicates adds k owners.
LEMMA WokenCardinality ==
  ASSUME NEW S, IsFiniteSet(S),
         NEW w \in Seq(Callers),
         \A i, j \in 1..Len(w) : w[i] = w[j] => i = j,
         NEW k \in 0..Len(w),
         \A i \in 1..k : w[i] \notin S
  PROVE  Cardinality(S \cup {w[i] : i \in 1..k}) = Cardinality(S) + k
<1> DEFINE W == {w[i] : i \in 1..k}
           f == [i \in 1..k |-> w[i]]
<1>1. f \in Bijection(1..k, W)
  <2>1. f \in [1..k -> W]
    OBVIOUS
  <2>2. \A i, j \in 1..k : f[i] = f[j] => i = j
    OBVIOUS
  <2>3. \A t \in W : \E i \in 1..k : f[i] = t
    OBVIOUS
  <2> HIDE DEF f, W
  <2> QED  BY <2>1, <2>2, <2>3 DEF Bijection, Injection, Surjection, IsInjective
<1>2. IsFiniteSet(1..k) /\ Cardinality(1..k) = k
  BY FS_Interval
<1>3. IsFiniteSet(W) /\ Cardinality(W) = k
  BY <1>1, <1>2, FS_Bijection DEF ExistsBijection
<1>4. S \cap W = {}
  OBVIOUS
<1>5. Cardinality(S \cap W) = 0
  BY <1>4, FS_EmptySet
<1>6. Cardinality(S) \in Nat
  BY FS_CardinalityType
<1> HIDE DEF W
<1>7. Cardinality(S \cup W) = Cardinality(S) + Cardinality(W) - Cardinality(S \cap W)
  BY <1>3, FS_Union
<1>8. Cardinality(S \cup W) = Cardinality(S) + k
  BY <1>3, <1>5, <1>6, <1>7
<1> QED  BY <1>8 DEF W

-----------------------------------------------------------------------------
\* No caller owns anything, and nobody waits, in a new semaphore.
LEMMA InitIInv == Init => IInv
<1> SUFFICES ASSUME Init PROVE IInv
  OBVIOUS
<1>1. TypeOK
  BY DEF Init, TypeOK, PCs, Errs
<1>2. Owners = {}
  BY DEF Init, Owners
<1>3. PermitsConserved
  BY <1>2, FS_EmptySet DEF Init, PermitsConserved
<1>4. WaitersOnlyWhenFull /\ QueueMatchesBlocked
  BY DEF Init, WaitersOnlyWhenFull, QueueMatchesBlocked
<1> QED  BY <1>1, <1>3, <1>4 DEF IInv

\* Owners is a finite set of callers.
LEMMA OwnersFinite ==
  ASSUME TypeOK
  PROVE  IsFiniteSet(Owners) /\ Owners \subseteq Callers /\ Cardinality(Owners) \in Nat
<1>1. Owners \subseteq Callers
  BY DEF Owners, TypeOK
<1> QED  BY <1>1, FS_Subset, FS_CardinalityType

\* A caller that takes a permit becomes an owner and is counted.
LEMMA TakeStep ==
  ASSUME IInv, NEW c \in Callers, pc[c] = "idle", Available, Take(c),
         UNCHANGED <<size, ready, done>>
  PROVE  IInv'
<1>1. TypeOK'
  BY DEF IInv, TypeOK, Take, PCs, Errs
<1>2. c \notin Owners
  BY DEF IInv, TypeOK, QueueMatchesBlocked, Owners
<1>3. Owners' = Owners \cup {c}
  BY DEF IInv, TypeOK, Take, Owners
<1>4. PermitsConserved'
  BY <1>2, <1>3, OwnersFinite, FS_AddElement DEF IInv, PermitsConserved, Take
<1>5. waiters = <<>>
  BY DEF IInv, TypeOK, WaitersOnlyWhenFull, Available
<1>6. WaitersOnlyWhenFull'
  BY <1>5 DEF WaitersOnlyWhenFull, Take
<1>7. QueueMatchesBlocked'
  BY DEF IInv, TypeOK, QueueMatchesBlocked, Take
<1> QED  BY <1>1, <1>4, <1>6, <1>7 DEF IInv

\* A caller that queues leaves the owners as they are.
LEMMA EnqueueStep ==
  ASSUME IInv, NEW c \in Callers, pc[c] = "idle", ~Available, Enqueue(c),
         timed' \subseteq Callers, UNCHANGED <<size, ready, done>>
  PROVE  IInv'
<1>1. /\ waiters' \in Seq(Callers)
      /\ Len(waiters') = Len(waiters) + 1
      /\ Len(waiters) \in Nat
      /\ \A i \in 1..Len(waiters) : waiters'[i] = waiters[i]
      /\ waiters'[Len(waiters) + 1] = c
  BY AppendProperties DEF IInv, TypeOK, Enqueue
<1>2. TypeOK'
  BY <1>1 DEF IInv, TypeOK, Enqueue, PCs, Errs
<1>3. Owners' = Owners
  BY DEF IInv, TypeOK, Enqueue, Owners
<1>4. PermitsConserved'
  BY <1>3 DEF IInv, PermitsConserved, Enqueue
<1>5. WaitersOnlyWhenFull'
  BY DEF IInv, TypeOK, WaitersOnlyWhenFull, Available, Enqueue
<1>6. c \notin ready /\ \A i \in 1..Len(waiters) : waiters[i] # c
  BY DEF IInv, TypeOK, QueueMatchesBlocked
<1>7. QueueMatchesBlocked'
  <2>1. \A i, j \in 1..Len(waiters') : waiters'[i] = waiters'[j] => i = j
    BY <1>1, <1>6 DEF IInv, QueueMatchesBlocked
  <2>2. \A i \in 1..Len(waiters') : waiters'[i] \notin ready'
    BY <1>1, <1>6 DEF IInv, QueueMatchesBlocked
  <2>3. ASSUME NEW d \in Callers
        PROVE  pc'[d] \in {"select", "drain"}
                 <=> (d \in ready' \/ \E i \in 1..Len(waiters') : waiters'[i] = d)
    <3>1. (\E i \in 1..Len(waiters') : waiters'[i] = d)
             <=> (d = c \/ \E i \in 1..Len(waiters) : waiters[i] = d)
      BY <1>1
    <3>2. pc'[d] = IF d = c THEN "select" ELSE pc[d]
      BY DEF IInv, TypeOK, Enqueue
    <3> QED  BY <3>1, <3>2 DEF IInv, QueueMatchesBlocked
  <2> QED  BY <2>1, <2>2, <2>3 DEF QueueMatchesBlocked
<1> QED  BY <1>2, <1>4, <1>5, <1>7 DEF IInv

\* A blocked caller that finds its channel closed, in its select or in drainWaiter, already was
\* an owner: only who knows of the permit changes.
LEMMA ReceiveStep ==
  ASSUME IInv, NEW c \in Callers, pc[c] \in {"select", "drain"}, c \in ready,
         ready' = ready \ {c}, pc' = [pc EXCEPT ![c] = "holding"],
         err' \in [Callers -> Errs],
         UNCHANGED <<size, used, waiters, timed, done>>
  PROVE  IInv'
<1>1. TypeOK'
  BY DEF IInv, TypeOK, PCs
<1>2. Owners' = Owners
  BY DEF IInv, TypeOK, Owners
<1>3. PermitsConserved' /\ WaitersOnlyWhenFull'
  BY <1>2 DEF IInv, PermitsConserved, WaitersOnlyWhenFull
<1>4. QueueMatchesBlocked'
  BY DEF IInv, TypeOK, QueueMatchesBlocked
<1> QED  BY <1>1, <1>3, <1>4 DEF IInv

\* A blocked caller that leaves its select keeps its place in the queue until drainWaiter runs.
LEMMA LeaveSelectStep ==
  ASSUME IInv, NEW c \in Callers, pc[c] = "select", pc' = [pc EXCEPT ![c] = "drain"],
         err' \in [Callers -> Errs],
         UNCHANGED <<size, used, waiters, ready, timed, done>>
  PROVE  IInv'
<1>1. TypeOK'
  BY DEF IInv, TypeOK, PCs
<1>2. Owners' = Owners
  BY DEF IInv, TypeOK, Owners
<1>3. PermitsConserved' /\ WaitersOnlyWhenFull'
  BY <1>2 DEF IInv, PermitsConserved, WaitersOnlyWhenFull
<1>4. QueueMatchesBlocked'
  BY DEF IInv, TypeOK, QueueMatchesBlocked
<1> QED  BY <1>1, <1>3, <1>4 DEF IInv

\* A caller that gives up without a permit takes its channel out of the queue.
LEMMA RemoveWaiterStep ==
  ASSUME IInv, NEW c \in Callers, pc[c] = "drain", RemoveWaiter(c),
         UNCHANGED <<size, used, timed, done>>
  PROVE  IInv'
<1>1. PICK p \in 1..Len(waiters) : waiters[p] = c /\ waiters' = RemoveAt(waiters, p)
  BY DEF RemoveWaiter
<1>2. /\ waiters' \in Seq(Callers)
      /\ Len(waiters') = Len(waiters) - 1
      /\ Len(waiters) \in Nat
      /\ \A i \in 1..Len(waiters') : waiters'[i] = IF i < p THEN waiters[i] ELSE waiters[i + 1]
  BY <1>1, RemoveAtProperties DEF IInv, TypeOK
<1>3. TypeOK'
  BY <1>2 DEF IInv, TypeOK, RemoveWaiter, PCs
<1>4. Owners' = Owners
  BY DEF IInv, TypeOK, RemoveWaiter, Owners
<1>5. PermitsConserved'
  BY <1>4 DEF IInv, PermitsConserved
<1>6. WaitersOnlyWhenFull'
  <2>1. waiters # <<>>
    BY <1>1
  <2> QED  BY <2>1 DEF IInv, WaitersOnlyWhenFull
<1>7. QueueMatchesBlocked'
  <2>1. ASSUME NEW i \in 1..Len(waiters'), NEW j \in 1..Len(waiters'), waiters'[i] = waiters'[j]
        PROVE  i = j
    BY <1>2, <2>1 DEF IInv, QueueMatchesBlocked
  <2>2. ASSUME NEW i \in 1..Len(waiters')
        PROVE  waiters'[i] \notin ready' /\ waiters'[i] # c
    <3>1. PICK j \in 1..Len(waiters) : waiters'[i] = waiters[j] /\ j # p
      BY <1>2
    <3> QED  BY <1>1, <3>1 DEF IInv, QueueMatchesBlocked, RemoveWaiter
  <2>3. ASSUME NEW d \in Callers
        PROVE  pc'[d] \in {"select", "drain"}
                 <=> (d \in ready' \/ \E i \in 1..Len(waiters') : waiters'[i] = d)
    <3>1. CASE d = c
      BY <2>2, <3>1 DEF IInv, TypeOK, RemoveWaiter
    <3>2. CASE d # c
      <4>1. pc'[d] = pc[d] /\ ready' = ready
        BY <3>2 DEF IInv, TypeOK, RemoveWaiter
      <4>2. ASSUME NEW i \in 1..Len(waiters), waiters[i] = d
            PROVE  \E j \in 1..Len(waiters') : waiters'[j] = d
        <5>1. i # p
          BY <1>1, <3>2, <4>2
        <5>2. CASE i < p
          <6>1. i \in 1..Len(waiters') /\ waiters'[i] = d
            BY <1>2, <4>2, <5>2
          <6> QED  BY <6>1
        <5>3. CASE i > p
          <6>1. i - 1 \in 1..Len(waiters') /\ ~(i - 1 < p) /\ (i - 1) + 1 = i
            BY <1>2, <5>3
          <6>2. waiters'[i - 1] = d
            BY <1>2, <4>2, <6>1
          <6> QED  BY <6>1, <6>2
        <5> QED  BY <5>1, <5>2, <5>3
      <4>3. ASSUME NEW i \in 1..Len(waiters'), waiters'[i] = d
            PROVE  \E j \in 1..Len(waiters) : waiters[j] = d
        BY <1>2, <4>3
      <4> QED  BY <4>1, <4>2, <4>3 DEF IInv, QueueMatchesBlocked
    <3> QED  BY <3>1, <3>2
  <2> QED  BY <2>1, <2>2, <2>3 DEF QueueMatchesBlocked
<1> QED  BY <1>3, <1>5, <1>6, <1>7 DEF IInv

\* Waking the k oldest waiters keeps the queue and the blocked callers in step.
LEMMA WakeKeepsQueue ==
  ASSUME IInv, NEW k \in 0..Len(waiters),
         waiters' = SubSeq(waiters, k + 1, Len(waiters)),
         ready' = ready \cup {waiters[i] : i \in 1..k},
         \A d \in Callers : pc'[d] \in {"select", "drain"} <=> pc[d] \in {"select", "drain"}
  PROVE  /\ QueueMatchesBlocked'
         /\ waiters' \in Seq(Callers)
         /\ Len(waiters') = Len(waiters) - k
         /\ Len(waiters) \in Nat
         /\ ready' \subseteq Callers
<1>1. /\ waiters' \in Seq(Callers)
      /\ Len(waiters') = Len(waiters) - k
      /\ Len(waiters) \in Nat
      /\ \A i \in 1..Len(waiters') : waiters'[i] = waiters[i + k]
  BY DropProperties DEF IInv, TypeOK
<1>2. ready' \subseteq Callers
  BY DEF IInv, TypeOK
<1>3. ASSUME NEW i \in 1..Len(waiters'), NEW j \in 1..Len(waiters'), waiters'[i] = waiters'[j]
      PROVE  i = j
  BY <1>1, <1>3 DEF IInv, QueueMatchesBlocked
<1>4. ASSUME NEW i \in 1..Len(waiters')
      PROVE  waiters'[i] \notin ready'
  <2>1. i + k \in 1..Len(waiters) /\ waiters'[i] = waiters[i + k] /\ i + k \notin 1..k
    BY <1>1
  <2>2. \A j \in 1..k : j \in 1..Len(waiters)
    BY <1>1
  <2> QED  BY <2>1, <2>2 DEF IInv, QueueMatchesBlocked
<1>5. ASSUME NEW d \in Callers
      PROVE  pc'[d] \in {"select", "drain"}
               <=> (d \in ready' \/ \E i \in 1..Len(waiters') : waiters'[i] = d)
  <2>1. ASSUME NEW i \in 1..Len(waiters), waiters[i] = d
        PROVE  d \in ready' \/ \E j \in 1..Len(waiters') : waiters'[j] = d
    <3>1. CASE i <= k
      BY <2>1, <3>1
    <3>2. CASE ~(i <= k)
      <4>1. i - k \in 1..Len(waiters') /\ (i - k) + k = i
        BY <1>1, <3>2
      <4>2. waiters'[i - k] = d
        BY <1>1, <2>1, <4>1
      <4> QED  BY <4>1, <4>2
    <3> QED  BY <3>1, <3>2
  <2>2. ASSUME NEW i \in 1..Len(waiters'), waiters'[i] = d
        PROVE  \E j \in 1..Len(waiters) : waiters[j] = d
    BY <1>1, <2>2
  <2>3. d \in ready' => d \in ready \/ \E j \in 1..Len(waiters) : waiters[j] = d
    BY <1>1
  <2>4. d \in ready => d \in ready'
    OBVIOUS
  <2>5. pc[d] \in {"select", "drain"}
          <=> (d \in ready \/ \E i \in 1..Len(waiters) : waiters[i] = d)
    BY DEF IInv, QueueMatchesBlocked
  <2> QED  BY <2>1, <2>2, <2>3, <2>4, <2>5
<1> QED  BY <1>1, <1>2, <1>3, <1>4, <1>5 DEF QueueMatchesBlocked

\* Release: the caller's permit comes back, and goes to the oldest waiter if the semaphore is
\* below its size.  The panic is unreachable because the releasing caller is counted in used.
LEMMA ReleaseStep ==
  ASSUME IInv, NEW c \in Callers, Release(c)
  PROVE  IInv'
<1> DEFINE k == ReleaseWakes
<1>1. c \in Owners /\ c \notin ready
  BY DEF Release, Owners, IInv, TypeOK, QueueMatchesBlocked
<1>2. /\ IsFiniteSet(Owners \ {c})
      /\ Cardinality(Owners \ {c}) = used - 1
      /\ Cardinality(Owners \ {c}) \in Nat
  BY <1>1, OwnersFinite, FS_RemoveElement, FS_CardinalityType DEF IInv, PermitsConserved
<1>3. used > 0 /\ used \in Int
  BY <1>2 DEF IInv, TypeOK
<1>4. /\ k \in 0..Len(waiters)
      /\ Len(waiters) \in Nat
  BY DEF IInv, TypeOK, ReleaseWakes
<1>5. /\ used' = (used - 1) + k
      /\ waiters' = SubSeq(waiters, k + 1, Len(waiters))
      /\ ready' = ready \cup {waiters[i] : i \in 1..k}
      /\ pc' = [pc EXCEPT ![c] = "idle"]
      /\ UNCHANGED <<size, err, timed, done>>
  BY <1>3 DEF Release, WakeAndAcquire
<1> HIDE DEF k
<1>6. \A d \in Callers : pc'[d] \in {"select", "drain"} <=> pc[d] \in {"select", "drain"}
  BY <1>5 DEF IInv, TypeOK, Release
<1>7. /\ QueueMatchesBlocked'
      /\ waiters' \in Seq(Callers)
      /\ Len(waiters') = Len(waiters) - k
      /\ ready' \subseteq Callers
  BY <1>4, <1>5, <1>6, WakeKeepsQueue
<1>8. TypeOK'
  BY <1>3, <1>4, <1>5, <1>7 DEF IInv, TypeOK, PCs
<1>9. PermitsConserved'
  <2>1. \A i \in 1..k : waiters[i] \notin Owners \ {c}
    BY <1>4 DEF IInv, TypeOK, QueueMatchesBlocked, Owners
  <2>2. Cardinality((Owners \ {c}) \cup {waiters[i] : i \in 1..k}) = (used - 1) + k
    <3>1. waiters \in Seq(Callers) /\ \A i, j \in 1..Len(waiters) : waiters[i] = waiters[j] => i = j
      BY DEF IInv, TypeOK, QueueMatchesBlocked
    <3> DEFINE S == Owners \ {c}
    <3>2. IsFiniteSet(S) /\ \A i \in 1..k : waiters[i] \notin S
      BY <1>2, <2>1
    <3> HIDE DEF S
    <3>3. Cardinality(S \cup {waiters[i] : i \in 1..k}) = Cardinality(S) + k
      BY <1>4, <3>1, <3>2, WokenCardinality
    <3> QED  BY <1>2, <3>3 DEF S
  <2>3. Owners' = (Owners \ {c}) \cup {waiters[i] : i \in 1..k}
    <3>1. {d \in Callers : pc'[d] = "holding"} = {d \in Callers : pc[d] = "holding"} \ {c}
      BY <1>5 DEF IInv, TypeOK
    <3> QED  BY <1>1, <1>5, <3>1 DEF Owners
  <2> QED  BY <1>5, <2>2, <2>3 DEF PermitsConserved
<1>10. WaitersOnlyWhenFull'
  <2>1. CASE k = 0
    <3>1. used - 1 >= size \/ waiters = <<>>
      BY <1>3, <1>4, <2>1 DEF IInv, TypeOK, k, ReleaseWakes
    <3>2. CASE used - 1 >= size
      BY <1>3, <1>5, <2>1, <3>2 DEF WaitersOnlyWhenFull
    <3>3. CASE waiters = <<>>
      BY <1>7, <2>1, <3>3 DEF WaitersOnlyWhenFull
    <3> QED  BY <3>1, <3>2, <3>3
  <2>2. CASE k # 0
    <3>1. k = 1 /\ waiters # <<>>
      BY <1>4, <2>2 DEF k, ReleaseWakes
    <3> QED  BY <1>3, <1>5, <3>1 DEF IInv, WaitersOnlyWhenFull
  <2> QED  BY <2>1, <2>2
<1> QED  BY <1>7, <1>8, <1>9, <1>10 DEF IInv

\* SetSize: the loop wakes as many waiters as the new size has room for, and a smaller size
\* takes no permit away.
LEMMA SetSizeStep ==
  ASSUME IInv, NEW n \in Sizes, SetSize(n)
  PROVE  IInv'
<1> DEFINE k == SetSizeWakes(n)
<1>1. /\ k \in 0..Len(waiters)
      /\ Len(waiters) \in Nat
      /\ n \in Nat /\ size \in Nat /\ used \in Int
  BY DEF IInv, TypeOK, SetSizeWakes, AtMost
<1>2. /\ used' = used + k
      /\ waiters' = SubSeq(waiters, k + 1, Len(waiters))
      /\ ready' = ready \cup {waiters[i] : i \in 1..k}
      /\ size' = n
      /\ UNCHANGED <<pc, err, timed, done>>
  BY DEF SetSize, WakeAndAcquire
<1> HIDE DEF k
<1>3. /\ QueueMatchesBlocked'
      /\ waiters' \in Seq(Callers)
      /\ Len(waiters') = Len(waiters) - k
      /\ ready' \subseteq Callers
  BY <1>1, <1>2, WakeKeepsQueue
<1>4. TypeOK'
  BY <1>1, <1>2, <1>3 DEF IInv, TypeOK
<1>5. PermitsConserved'
  <2>1. \A i \in 1..k : waiters[i] \notin Owners
    BY <1>1 DEF IInv, TypeOK, QueueMatchesBlocked, Owners
  <2>2. Cardinality(Owners \cup {waiters[i] : i \in 1..k}) = used + k
    <3>1. /\ waiters \in Seq(Callers)
          /\ \A i, j \in 1..Len(waiters) : waiters[i] = waiters[j] => i = j
          /\ Cardinality(Owners) = used
          /\ IsFiniteSet(Owners)
      BY OwnersFinite DEF IInv, TypeOK, QueueMatchesBlocked, PermitsConserved
    <3> QED  BY <1>1, <2>1, <3>1, WokenCardinality
  <2>3. Owners' = Owners \cup {waiters[i] : i \in 1..k}
    BY <1>2 DEF Owners
  <2> QED  BY <1>2, <2>2, <2>3 DEF PermitsConserved
<1>6. WaitersOnlyWhenFull'
  <2> SUFFICES ASSUME waiters' # <<>> PROVE used' >= n
    BY <1>2 DEF WaitersOnlyWhenFull
  <2>1. Len(waiters') # 0
    BY <1>3
  <2>2. k < Len(waiters) /\ waiters # <<>>
    BY <1>1, <1>3, <2>1
  <2>3. used >= size
    BY <2>2 DEF IInv, WaitersOnlyWhenFull
  <2>4. CASE n > size /\ used < n
    BY <1>1, <1>2, <2>2, <2>4 DEF k, SetSizeWakes, AtMost
  <2>5. CASE ~(n > size /\ used < n)
    <3>1. k = 0
      BY <2>5 DEF k, SetSizeWakes
    <3> QED  BY <1>1, <1>2, <2>3, <2>5, <3>1
  <2> QED  BY <2>4, <2>5
<1> QED  BY <1>3, <1>4, <1>5, <1>6 DEF IInv

\* Every step keeps the invariant.
LEMMA NextIInv == IInv /\ [Next]_vars => IInv'
<1> SUFFICES ASSUME IInv, [Next]_vars PROVE IInv'
  OBVIOUS
<1>1. ASSUME NEW c \in Callers, Acquire(c) PROVE IInv'
  <2>1. timed \ {c} \subseteq Callers
    BY DEF IInv, TypeOK
  <2> QED  BY <1>1, <2>1, TakeStep, EnqueueStep DEF Acquire
<1>2. ASSUME NEW c \in Callers, AcquireWithMaxWait(c) PROVE IInv'
  <2>1. timed \cup {c} \subseteq Callers
    BY DEF IInv, TypeOK
  <2> QED  BY <1>2, <2>1, TakeStep, EnqueueStep DEF AcquireWithMaxWait
<1>3. ASSUME NEW c \in Callers, AcquireWithoutWait(c) PROVE IInv'
  <2>1. CASE Available /\ Take(c)
    BY <1>3, <2>1, TakeStep DEF AcquireWithoutWait
  <2>2. CASE /\ err' = [err EXCEPT ![c] = "ErrWaitExceeded"]
             /\ UNCHANGED <<used, waiters, pc, timed>>
    BY <1>3, <2>2 DEF AcquireWithoutWait, IInv, TypeOK, Errs, PermitsConserved, Owners,
                      WaitersOnlyWhenFull, QueueMatchesBlocked
  <2> QED  BY <1>3, <2>1, <2>2 DEF AcquireWithoutWait
<1>4. ASSUME NEW c \in Callers, TryAcquire(c) PROVE IInv'
  BY <1>4, TakeStep DEF TryAcquire
<1>5. ASSUME NEW c \in Callers, ReceiveFromWaiter(c) PROVE IInv'
  <2>1. err' \in [Callers -> Errs]
    BY <1>5 DEF ReceiveFromWaiter, IInv, TypeOK
  <2> QED  BY <1>5, <2>1, ReceiveStep DEF ReceiveFromWaiter
<1>6. ASSUME NEW c \in Callers, ContextDone(c) PROVE IInv'
  <2>1. err' \in [Callers -> Errs]
    BY <1>6 DEF ContextDone, IInv, TypeOK, Errs
  <2> QED  BY <1>6, <2>1, LeaveSelectStep DEF ContextDone
<1>7. ASSUME NEW c \in Callers, TimerFired(c) PROVE IInv'
  <2>1. err' \in [Callers -> Errs]
    BY <1>7 DEF TimerFired, IInv, TypeOK, Errs
  <2> QED  BY <1>7, <2>1, LeaveSelectStep DEF TimerFired
<1>8. ASSUME NEW c \in Callers, DrainWaiter(c) PROVE IInv'
  <2>1. CASE KeepGrantedPermit(c)
    <3>1. err' \in [Callers -> Errs]
      BY <2>1 DEF KeepGrantedPermit, IInv, TypeOK, Errs
    <3> QED  BY <1>8, <2>1, <3>1, ReceiveStep DEF DrainWaiter, KeepGrantedPermit
  <2>2. CASE RemoveWaiter(c)
    BY <1>8, <2>2, RemoveWaiterStep DEF DrainWaiter
  <2> QED  BY <1>8, <2>1, <2>2 DEF DrainWaiter
<1>9. ASSUME NEW c \in Callers, Release(c) PROVE IInv'
  BY <1>9, ReleaseStep
<1>10. ASSUME NEW c \in Callers, CancelContext(c) \/ FreshContext(c) PROVE IInv'
  <2>1. /\ UNCHANGED <<size, used, waiters, ready, pc, err, timed>>
        /\ done' \subseteq Callers
    BY <1>10 DEF CancelContext, FreshContext, IInv, TypeOK
  <2>2. TypeOK'
    BY <2>1 DEF IInv, TypeOK
  <2> QED  BY <2>1, <2>2 DEF IInv, PermitsConserved, Owners, WaitersOnlyWhenFull, QueueMatchesBlocked
<1>11. ASSUME NEW n \in Sizes, SetSize(n) PROVE IInv'
  BY <1>11, SetSizeStep
<1>12. CASE UNCHANGED vars
  BY <1>12 DEF vars, IInv, TypeOK, PermitsConserved, Owners, WaitersOnlyWhenFull, QueueMatchesBlocked
<1> QED  BY <1>1, <1>2, <1>3, <1>4, <1>5, <1>6, <1>7, <1>8, <1>9, <1>10, <1>11, <1>12 DEF Next

-----------------------------------------------------------------------------
\* The inductive invariant holds in every reachable state.
THEOREM Invariance == Spec => []IInv
<1>1. Init => IInv
  BY InitIInv
<1>2. IInv /\ [Next]_vars => IInv'
  BY NextIInv
<1> QED  BY <1>1, <1>2, PTL DEF Spec

\* Type correctness of the semaphore's state; Release called by a permit holder never panics.
THEOREM TypeCorrect == Spec => []TypeOK
<1>1. IInv => TypeOK
  BY DEF IInv
<1> QED  BY <1>1, Invariance, PTL

\* No permit is lost or handed out twice, for any number of callers racing grants against
\* timeouts, cancellations and resizes.
THEOREM PermitConservation == Spec => []PermitsConserved
<1>1. IInv => PermitsConserved
  BY DEF IInv
<1> QED  BY <1>1, Invariance, PTL

\* Nobody is left blocked while a permit is free.
THEOREM NoLostWakeup == Spec => []WaitersOnlyWhenFull
<1>1. IInv => WaitersOnlyWhenFull
  BY DEF IInv
<1> QED  BY <1>1, Invariance, PTL

\* wakeAndAcquire only grants permits to callers that still wait for one.
THEOREM QueueConsistency == Spec => []QueueMatchesBlocked
<1>1. IInv => QueueMatchesBlocked
  BY DEF IInv
<1> QED  BY <1>1, Invariance, PTL

\* No step hands out permits beyond the size, whatever the size was before.
THEOREM AdmissionBound == Spec => NeverOverAdmits
<1>1. ASSUME IInv, Next PROVE used' > used => used' <= size'
  <2> USE DEF IInv, TypeOK
  <2>1. ASSUME NEW c \in Callers,
               Acquire(c) \/ AcquireWithMaxWait(c) \/ AcquireWithoutWait(c) \/ TryAcquire(c)
        PROVE  used' > used => used' <= size'
    BY <1>1, <2>1 DEF Acquire, AcquireWithMaxWait, AcquireWithoutWait, TryAcquire, Take, Enqueue,
                      Available
  <2>2. ASSUME NEW c \in Callers,
               \/ ReceiveFromWaiter(c) \/ ContextDone(c) \/ TimerFired(c) \/ DrainWaiter(c)
               \/ CancelContext(c) \/ FreshContext(c)
        PROVE  used' = used
    BY <2>2 DEF ReceiveFromWaiter, ContextDone, TimerFired, DrainWaiter, CancelContext, FreshContext
  <2>3. ASSUME NEW c \in Callers, Release(c) PROVE used' <= used
    BY <1>1, <2>3 DEF Release, WakeAndAcquire, ReleaseWakes
  <2>4. ASSUME NEW n \in Sizes, SetSize(n) PROVE used' > used => used' <= size'
    <3>1. used \in Int /\ n \in Nat /\ size \in Nat /\ Len(waiters) \in Nat
      BY <1>1
    <3>2. used' = used + SetSizeWakes(n) /\ size' = n
      BY <2>4 DEF SetSize, WakeAndAcquire
    <3> QED  BY <3>1, <3>2 DEF SetSizeWakes, AtMost
  <2>5. used \in Int /\ used' \in Int
    BY <1>1, NextIInv
  <2> QED  BY <1>1, <2>1, <2>2, <2>3, <2>4, <2>5 DEF Next
<1>2. IInv /\ [Next]_vars => [used' > used => used' <= size']_vars
  BY <1>1 DEF vars
<1> QED  BY <1>2, Invariance, PTL DEF Spec, NeverOverAdmits
-----------------------------------------------------------------------------
(***************************************************************************)
(* The refinement: every step of the semaphore is one step of a PermitPool *)
(* or leaves it alone.                                                     *)
(***************************************************************************)
USE DEF Pool!Queued

\* The operators of the standard modules mean the same in the pool as here.
LEMMA SameOperators ==
  /\ \A S : Pool!Cardinality(S) = Cardinality(S)
  /\ \A s : Pool!ToSet(s) = ToSet(s)
  /\ \A s, i : Pool!RemoveAt(s, i) = RemoveAt(s, i)
<1>1. \A S : Pool!Cardinality(S) = Cardinality(S)
  BY Zenon DEF Pool!Cardinality, Cardinality
<1>2. \A s : Pool!ToSet(s) = ToSet(s)
  BY Zenon DEF Pool!ToSet, ToSet
<1>3. \A s, i : Pool!RemoveAt(s, i) = RemoveAt(s, i)
  BY Zenon DEF Pool!RemoveAt, RemoveAt
<1> QED  BY <1>1, <1>2, <1>3

\* The state of the pool in terms of the semaphore's invariant.
LEMMA PoolState ==
  ASSUME IInv
  PROVE  /\ Cardinality(Owners) = used /\ used \in Nat /\ size \in Nat
         /\ waiters \in Seq(Callers) /\ Len(waiters) \in Nat
         /\ ToSet(waiters) = {waiters[i] : i \in 1..Len(waiters)}
         /\ \A c \in Callers : pc[c] = "idle" => c \notin Owners \cup ToSet(waiters)
         /\ waiters # <<>> => used >= size
<1>1. Cardinality(Owners) = used /\ used \in Nat
  BY OwnersFinite DEF IInv, PermitsConserved
<1>2. size \in Nat /\ waiters \in Seq(Callers) /\ Len(waiters) \in Nat
  BY DEF IInv, TypeOK
<1>3. ToSet(waiters) = {waiters[i] : i \in 1..Len(waiters)}
  BY <1>2 DEF ToSet
<1>4. ASSUME NEW c \in Callers, pc[c] = "idle" PROVE c \notin Owners \cup ToSet(waiters)
  BY <1>3, <1>4 DEF IInv, QueueMatchesBlocked, Owners
<1> QED  BY <1>1, <1>2, <1>3, <1>4 DEF IInv, WaitersOnlyWhenFull

\* An acquire that finds a permit is the pool's Take: nobody can be waiting then.
LEMMA TakeRefines ==
  ASSUME IInv, NEW c \in Callers, pc[c] = "idle", Available, Take(c), UNCHANGED <<size, ready>>
  PROVE  Pool!Take(c)
<1>1. Owners' = Owners \cup {c}
  BY DEF Take, Owners, IInv, TypeOK
<1>2. Cardinality(Owners) < size /\ waiters = <<>>
  BY PoolState DEF Available
<1> QED  BY <1>1, <1>2, PoolState, SameOperators DEF Pool!Take, Take

\* An acquire that blocks is the pool's Join.
LEMMA EnqueueRefines ==
  ASSUME IInv, NEW c \in Callers, pc[c] = "idle", ~Available, Enqueue(c), UNCHANGED <<size, ready>>
  PROVE  Pool!Join(c)
<1>1. Owners' = Owners
  BY DEF Enqueue, Owners, IInv, TypeOK
<1>2. Cardinality(Owners) >= size
  BY PoolState DEF Available
<1> QED  BY <1>1, <1>2, PoolState, SameOperators DEF Pool!Join, Enqueue

\* A select that is left leaves the pool alone, and so does noticing a permit that was granted.
LEMMA SelectRefines ==
  ASSUME IInv, NEW c \in Callers,
         ReceiveFromWaiter(c) \/ ContextDone(c) \/ TimerFired(c)
           \/ (pc[c] = "drain" /\ KeepGrantedPermit(c) /\ UNCHANGED size)
  PROVE  UNCHANGED <<size, Owners, waiters>>
<1>1. Owners' = Owners
  BY DEF ReceiveFromWaiter, ContextDone, TimerFired, KeepGrantedPermit, Owners, IInv, TypeOK
<1> QED  BY <1>1 DEF ReceiveFromWaiter, ContextDone, TimerFired, KeepGrantedPermit

\* A caller that gives up before a permit was granted leaves the queue.
LEMMA DrainRefines ==
  ASSUME IInv, NEW c \in Callers, pc[c] = "drain", RemoveWaiter(c), UNCHANGED size
  PROVE  Pool!Leave(c)
<1>1. Owners' = Owners
  BY DEF RemoveWaiter, Owners, IInv, TypeOK
<1> QED  BY <1>1, SameOperators DEF RemoveWaiter, Pool!Leave

\* Release hands the permit over to the oldest waiter: there is room for one at most.
LEMMA ReleaseRefines ==
  ASSUME IInv, NEW c \in Callers, Release(c)
  PROVE  Pool!GiveBack(c)
<1> DEFINE held == Owners \ {c}
           k    == ReleaseWakes
<1>1. c \in Owners /\ c \notin ready /\ IsFiniteSet(Owners)
  BY OwnersFinite DEF Release, Owners, IInv, QueueMatchesBlocked
<1>2. used > 0
  BY <1>1, PoolState, FS_EmptySet
<1>3. Cardinality(held) = used - 1
  BY <1>1, <1>2, PoolState, FS_RemoveElement
<1>4. /\ waiters' = SubSeq(waiters, k + 1, Len(waiters))
      /\ ready' = ready \cup {waiters[i] : i \in 1..k}
      /\ pc' = [pc EXCEPT ![c] = "idle"]
      /\ size' = size
  BY <1>2, PoolState DEF Release, WakeAndAcquire
<1>5. Owners' = held \cup {waiters[i] : i \in 1..k}
  <2>1. \A i \in 1..k : waiters[i] # c
    <3>1. k \in {0, 1} /\ (k = 1 => Len(waiters) > 0)
      BY DEF ReleaseWakes
    <3>2. c \notin ToSet(waiters)
      BY DEF IInv, QueueMatchesBlocked, Release, TypeOK, ToSet
    <3> QED  BY <3>1, <3>2, PoolState
  <2>2. {d \in Callers : pc'[d] = "holding"} = {d \in Callers : pc[d] = "holding"} \ {c}
    BY <1>4 DEF IInv, TypeOK
  <2> HIDE DEF k
  <2> QED  BY <1>1, <1>4, <2>1, <2>2 DEF Owners
<1>6. k = IF Pool!Free(size, held) < Len(waiters) THEN Pool!Free(size, held) ELSE Len(waiters)
  <2>1. Len(waiters) > 0 => used >= size
    BY PoolState
  <2> HIDE DEF held
  <2> QED  BY <1>3, <2>1, PoolState, SameOperators DEF Pool!Free, ReleaseWakes
<1> HIDE DEF k, held
<1> QED  BY <1>1, <1>4, <1>5, <1>6 DEF Pool!GiveBack, Pool!HandOver, held

\* SetSize hands over as many permits as the new size has.
LEMMA SetSizeRefines ==
  ASSUME IInv, NEW n \in Sizes, SetSize(n)
  PROVE  Pool!Resize(n)
<1> DEFINE k == SetSizeWakes(n)
<1>1. /\ waiters' = SubSeq(waiters, k + 1, Len(waiters))
      /\ ready' = ready \cup {waiters[i] : i \in 1..k}
      /\ pc' = pc /\ size' = n
  BY DEF SetSize, WakeAndAcquire
<1>2. Owners' = Owners \cup {waiters[i] : i \in 1..k}
  <2> HIDE DEF k
  <2> QED  BY <1>1 DEF Owners
<1>3. k = IF Pool!Free(n, Owners) < Len(waiters) THEN Pool!Free(n, Owners) ELSE Len(waiters)
  <2>1. Len(waiters) > 0 => used >= size
    BY PoolState
  <2>2. n \in Nat
    OBVIOUS
  <2> QED  BY <2>1, <2>2, PoolState, SameOperators DEF Pool!Free, SetSizeWakes, AtMost
<1> HIDE DEF k
<1> QED  BY <1>1, <1>2, <1>3 DEF Pool!Resize, Pool!HandOver

\* A step of the semaphore is a step of the pool or a stutter.
LEMMA StepRefines == IInv /\ [Next]_vars => [Pool!Next]_(Pool!vars)
<1> SUFFICES ASSUME IInv, [Next]_vars
             PROVE  Pool!Next \/ UNCHANGED <<size, Owners, waiters>>
  BY DEF Pool!vars
<1> USE DEF Pool!Next
<1>1. ASSUME NEW c \in Callers, Acquire(c) \/ AcquireWithMaxWait(c) \/ TryAcquire(c)
      PROVE  Pool!Next
  BY <1>1, TakeRefines, EnqueueRefines DEF Acquire, AcquireWithMaxWait, TryAcquire
<1>2. ASSUME NEW c \in Callers, AcquireWithoutWait(c)
      PROVE  Pool!Next \/ UNCHANGED <<size, Owners, waiters>>
  <2>1. CASE Available /\ Take(c)
    BY <1>2, <2>1, TakeRefines DEF AcquireWithoutWait
  <2>2. CASE UNCHANGED <<used, waiters, pc, timed>>
    BY <1>2, <2>2 DEF AcquireWithoutWait, Owners
  <2> QED  BY <1>2, <2>1, <2>2 DEF AcquireWithoutWait
<1>3. ASSUME NEW c \in Callers, ReceiveFromWaiter(c) \/ ContextDone(c) \/ TimerFired(c)
      PROVE  UNCHANGED <<size, Owners, waiters>>
  BY <1>3, SelectRefines
<1>4. ASSUME NEW c \in Callers, DrainWaiter(c)
      PROVE  Pool!Next \/ UNCHANGED <<size, Owners, waiters>>
  BY <1>4, SelectRefines, DrainRefines DEF DrainWaiter
<1>5. ASSUME NEW c \in Callers, Release(c) PROVE Pool!Next
  BY <1>5, ReleaseRefines
<1>6. ASSUME NEW c \in Callers, CancelContext(c) \/ FreshContext(c)
      PROVE  UNCHANGED <<size, Owners, waiters>>
  BY <1>6 DEF CancelContext, FreshContext, Owners
<1>7. ASSUME NEW n \in Sizes, SetSize(n) PROVE Pool!Next
  BY <1>7, SetSizeRefines
<1>8. CASE UNCHANGED vars
  BY <1>8 DEF vars, Owners
<1> HIDE DEF Pool!Next
<1> QED  BY <1>1, <1>2, <1>3, <1>4, <1>5, <1>6, <1>7, <1>8 DEF Next

\* The semaphore implements the pool of permits: its users may reason with atomic grants, a queue
\* and no caller in between, for any number of callers and any sizes.
THEOREM SemaphoreImplementsPool == Spec => ImplementsPermitPool
<1>1. Init => Pool!Init
  BY DEF Init, Pool!Init, Owners
<1>2. IInv /\ [Next]_vars => [Pool!Next]_(Pool!vars)
  BY StepRefines
<1> QED  BY <1>1, <1>2, Invariance, PTL DEF Spec, ImplementsPermitPool, Pool!Spec
=============================================================================
