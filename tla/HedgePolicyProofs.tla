------------------------- MODULE HedgePolicyProofs -------------------------
(***************************************************************************)
(* Proofs about a hedged execution and the budget that it shares, for any  *)
(* number of hedges and of retrying executions, every budget and every     *)
(* choice of conditions.                                                   *)
(*                                                                         *)
(* The counters of the budget are changed without a lock, one at a time.   *)
(* That they still add up (BudgetBalanced) is nearly inductive: it needs   *)
(* that a user is inside TryAcquirePermit exactly when its executor waits  *)
(* for it (CallsMatch), that hedges start in order and that one is left    *)
(* when a permit is asked for (HedgesStartInOrder), and that the channel   *)
(* holds each sent result once (ChannelHoldsSent).                         *)
(***************************************************************************)
EXTENDS HedgePolicy, FiniteSetTheorems, TLAPS

CallsMatch ==
  /\ \A u \in RetryUsers : acquire[u] # "idle" <=> retry[u] = "acquiring"
  /\ acquire[Hedger] # "idle" <=> pc = "acquire"

\* The first attempt needs no permit and gives none back.  A timer, and with it another hedge, only while there is one left to start.
HedgesStartInOrder ==
  /\ Started = 0 .. Cardinality(Started) - 1
  /\ pc = "idle" <=> 0 \notin Started
  /\ attempt[0] # "released"
  /\ timed => maxHedges \notin Started
  /\ pc = "acquire" \/ (pc = "checkCanceled" /\ result = None) => timed

ChannelHoldsSent ==
  /\ \A k \in 1..Len(resultChan) : attempt[resultChan[k]] = "sent"
  /\ \A k, l \in 1..Len(resultChan) : resultChan[k] = resultChan[l] => k = l

AllIn == \A i \in Attempts : attempt[i] \in {"none", "received"}

ResultsReceived ==
  /\ lastResult # None <=> \E i \in Attempts : attempt[i] = "received"
  /\ lastResult # None => attempt[lastResult] = "received"
  /\ pc \in {"checkCanceled", "cancel"} /\ result # None =>
       attempt[result] = "received" /\ (value[result] \in Final \/ AllIn)
  /\ pc = "cancel" => result # None

CancelProgress ==
  /\ pc \notin {"cancel", "return", "done"} => cancelIdx = 0
  /\ pc = "cancel" => \A i \in Started : i < cancelIdx => AttemptDone(i)

IInv ==
  /\ TypeOK /\ CallsMatch /\ HedgesStartInOrder /\ ChannelHoldsSent /\ ResultsReceived
  /\ CancelProgress /\ NoAttemptOutlivesTheCall /\ BudgetBalanced

USE UserAssumption, BudgetAssumption, HedgeAssumption

-----------------------------------------------------------------------------
(***************************************************************************)
(* Counting.                                                               *)
(***************************************************************************)
Count(S, f, v) == Cardinality({x \in S : f[x] = v})
CountNot(S, f, v) == Cardinality({x \in S : f[x] # v})
Is(a, b) == IF a = b THEN 1 ELSE 0

\* Adding or removing one element of a finite set.
LEMMA SetMoves ==
  ASSUME NEW A, NEW B, NEW x, IsFiniteSet(A), \A y : y # x => (y \in A <=> y \in B)
  PROVE  /\ Cardinality(A) \in Nat /\ Cardinality(B) \in Nat
         /\ x \in A /\ x \notin B => Cardinality(B) = Cardinality(A) - 1
         /\ x \notin A /\ x \in B => Cardinality(B) = Cardinality(A) + 1
         /\ (x \in A <=> x \in B) => Cardinality(B) = Cardinality(A)
<1>1. CASE x \in A /\ x \notin B
  <2>1. B = A \ {x}
    BY <1>1
  <2> QED  BY <1>1, <2>1, FS_RemoveElement, FS_CardinalityType
<1>2. CASE x \notin A /\ x \in B
  <2>1. B = A \cup {x}
    BY <1>2
  <2> QED  BY <1>2, <2>1, FS_AddElement, FS_CardinalityType
<1>3. CASE x \in A <=> x \in B
  <2>1. A = B
    <3>1. \A y : y \in A <=> y \in B
      BY <1>3
    <3> QED  BY <3>1
  <2> QED  BY <1>3, <2>1, FS_CardinalityType
<1> QED  BY <1>1, <1>2, <1>3

\* What an update of one place does to the number of places with a value.
Moved(S, f, u, b, v) ==
  LET g == [f EXCEPT ![u] = b]
  IN /\ Count(S, f, v) \in Nat /\ CountNot(S, f, v) \in Nat
     /\ u \in S => /\ Count(S, g, v) = Count(S, f, v) + Is(b, v) - Is(f[u], v)
                   /\ CountNot(S, g, v) = CountNot(S, f, v) - Is(b, v) + Is(f[u], v)
     /\ u \notin S => Count(S, g, v) = Count(S, f, v)

LEMMA CountMoves ==
  ASSUME NEW D, NEW T, NEW f \in [D -> T], NEW S \in SUBSET D, IsFiniteSet(S),
         NEW u \in D, NEW b, NEW v
  PROVE  Moved(S, f, u, b, v)
<1> DEFINE g == [f EXCEPT ![u] = b]
           A == {x \in S : f[x] = v}
           B == {x \in S : g[x] = v}
           C == {x \in S : f[x] # v}
           E == {x \in S : g[x] # v}
<1>1. IsFiniteSet(A) /\ IsFiniteSet(C)
  BY FS_Subset
<1>2. \A y : y # u => (y \in A <=> y \in B) /\ (y \in C <=> y \in E)
  OBVIOUS
<1>3. /\ u \in A <=> u \in S /\ f[u] = v
      /\ u \in B <=> u \in S /\ b = v
      /\ u \in C <=> u \in S /\ f[u] # v
      /\ u \in E <=> u \in S /\ b # v
  OBVIOUS
<1>4. /\ Count(S, f, v) = Cardinality(A) /\ Count(S, g, v) = Cardinality(B)
      /\ CountNot(S, f, v) = Cardinality(C) /\ CountNot(S, g, v) = Cardinality(E)
  BY DEF Count, CountNot
<1> HIDE DEF A, B, C, E, g
<1>5. /\ Cardinality(A) \in Nat /\ Cardinality(B) \in Nat
      /\ u \in A /\ u \notin B => Cardinality(B) = Cardinality(A) - 1
      /\ u \notin A /\ u \in B => Cardinality(B) = Cardinality(A) + 1
      /\ (u \in A <=> u \in B) => Cardinality(B) = Cardinality(A)
  BY <1>1, <1>2, SetMoves
<1>6. /\ Cardinality(C) \in Nat /\ Cardinality(E) \in Nat
      /\ u \in C /\ u \notin E => Cardinality(E) = Cardinality(C) - 1
      /\ u \notin C /\ u \in E => Cardinality(E) = Cardinality(C) + 1
      /\ (u \in C <=> u \in E) => Cardinality(E) = Cardinality(C)
  BY <1>1, <1>2, SetMoves
<1>7. /\ Count(S, f, v) \in Nat /\ CountNot(S, f, v) \in Nat
      /\ u \in S => /\ Count(S, g, v) = Count(S, f, v) + Is(b, v) - Is(f[u], v)
                    /\ CountNot(S, g, v) = CountNot(S, f, v) - Is(b, v) + Is(f[u], v)
      /\ u \notin S => Count(S, g, v) = Count(S, f, v)
  BY <1>3, <1>4, <1>5, <1>6 DEF Is
<1> QED  BY <1>7 DEF Moved, g

LEMMA Finite ==
  /\ IsFiniteSet(Users) /\ IsFiniteSet(RetryUsers) /\ IsFiniteSet(Hedges) /\ IsFiniteSet(Attempts)
  /\ Hedges \subseteq Attempts /\ 0 \in Attempts \ Hedges /\ Hedger \in Users /\ RetryUsers \subseteq Users
  /\ \A i \in Attempts : i # 0 <=> i \in Hedges
<1>1. IsFiniteSet(Users) /\ IsFiniteSet(RetryUsers) /\ Hedger \in Users /\ RetryUsers \subseteq Users
  BY FS_AddElement DEF Users
<1>2. maxHedges \in Int /\ 0 \in Int /\ 1 \in Int
  OBVIOUS
<1>3. IsFiniteSet(Hedges) /\ IsFiniteSet(Attempts)
  BY <1>2, FS_Interval DEF Hedges, Attempts
<1>4. Hedges \subseteq Attempts /\ 0 \in Attempts \ Hedges
  BY DEF Hedges, Attempts
<1>5. \A i \in Attempts : i # 0 <=> i \in Hedges
  BY DEF Hedges, Attempts
<1> QED  BY <1>1, <1>3, <1>4, <1>5

-----------------------------------------------------------------------------
(***************************************************************************)
(* The budget is balanced after each step.                                 *)
(***************************************************************************)
retrying  == Count(RetryUsers, retry, "retrying")
releasing == Count(RetryUsers, retry, "releasing")
calls     == CountNot(RetryUsers, retry, "idle")
hedging   == Count(Hedges, attempt, "running")
released  == Count(Hedges, attempt, "released")
granted   == Count(Users, acquire, "granted")
adding    == Count(Users, acquire, "addExecutions")

\* BudgetBalanced, with the sets counted.
Balances ==
  /\ inflight = retrying + hedging + granted + adding
  /\ executions = retrying + hedging + granted + calls + (IF pc \in {"idle", "done"} THEN 0 ELSE 1)
                    + releasing + released

LEMMA BalancedCounts == (Balances <=> BudgetBalanced) /\ (Balances' <=> BudgetBalanced')
BY DEF retrying, releasing, calls, hedging, released, granted, adding, BudgetBalanced, Balances,
       Count, CountNot

LEMMA CountIsNat ==
  ASSUME NEW S, IsFiniteSet(S), NEW f, NEW v
  PROVE  Count(S, f, v) \in Nat /\ CountNot(S, f, v) \in Nat
<1>1. {x \in S : f[x] = v} \in SUBSET S /\ {x \in S : f[x] # v} \in SUBSET S
  OBVIOUS
<1> QED  BY <1>1, FS_Subset, FS_CardinalityType DEF Count, CountNot

LEMMA CountsAreNat ==
  /\ retrying \in Nat /\ releasing \in Nat /\ calls \in Nat
  /\ hedging \in Nat /\ released \in Nat /\ granted \in Nat /\ adding \in Nat
BY CountIsNat, Finite DEF retrying, releasing, calls, hedging, released, granted, adding

LEMMA NextCountsAreNat ==
  /\ retrying' \in Nat /\ releasing' \in Nat /\ calls' \in Nat
  /\ hedging' \in Nat /\ released' \in Nat /\ granted' \in Nat /\ adding' \in Nat
BY CountIsNat, Finite DEF retrying, releasing, calls, hedging, released, granted, adding

\* What is not changed is not counted differently.
LEMMA SameCounts ==
  /\ retry' = retry => retrying' = retrying /\ releasing' = releasing /\ calls' = calls
  /\ acquire' = acquire => granted' = granted /\ adding' = adding
  /\ attempt' = attempt => hedging' = hedging /\ released' = released
BY DEF retrying, releasing, calls, hedging, released, granted, adding, Count, CountNot

\* What a move of one retry executor, one TryAcquirePermit or one attempt does to the counts.
RetryCounted(u, b) ==
  /\ retrying' = retrying + Is(b, "retrying") - Is(retry[u], "retrying")
  /\ releasing' = releasing + Is(b, "releasing") - Is(retry[u], "releasing")
  /\ calls' = calls - Is(b, "idle") + Is(retry[u], "idle")

AcquireCounted(u, b) ==
  /\ granted' = granted + Is(b, "granted") - Is(acquire[u], "granted")
  /\ adding' = adding + Is(b, "addExecutions") - Is(acquire[u], "addExecutions")

AttemptCounted(i, b) ==
  /\ i = 0 => hedging' = hedging /\ released' = released
  /\ i # 0 => /\ hedging' = hedging + Is(b, "running") - Is(attempt[i], "running")
              /\ released' = released + Is(b, "released") - Is(attempt[i], "released")

LEMMA RetryMoves ==
  ASSUME TypeOK, NEW u \in RetryUsers, NEW b, retry' = [retry EXCEPT ![u] = b]
  PROVE  RetryCounted(u, b)
<1>1. ASSUME NEW v PROVE Moved(RetryUsers, retry, u, b, v)
  <2>1. retry \in [RetryUsers -> Retries] /\ RetryUsers \in SUBSET RetryUsers
    BY DEF TypeOK
  <2> QED  BY <2>1, Finite, CountMoves
<1> QED  BY <1>1 DEF Moved, retrying, releasing, calls, RetryCounted

LEMMA AcquireMoves ==
  ASSUME TypeOK, NEW u \in Users, NEW b, acquire' = [acquire EXCEPT ![u] = b]
  PROVE  AcquireCounted(u, b)
<1>1. ASSUME NEW v PROVE Moved(Users, acquire, u, b, v)
  <2>1. acquire \in [Users -> Acquires] /\ Users \in SUBSET Users
    BY DEF TypeOK
  <2> QED  BY <2>1, Finite, CountMoves
<1> QED  BY <1>1 DEF Moved, granted, adding, AcquireCounted

LEMMA AttemptMoves ==
  ASSUME TypeOK, NEW i \in Attempts, NEW b, attempt' = [attempt EXCEPT ![i] = b]
  PROVE  AttemptCounted(i, b)
<1>1. ASSUME NEW v PROVE Moved(Hedges, attempt, i, b, v)
  <2>1. attempt \in [Attempts -> AttemptStates] /\ Hedges \in SUBSET Attempts
    BY Finite DEF TypeOK
  <2> QED  BY <2>1, Finite, CountMoves
<1> QED  BY <1>1, Finite DEF Moved, hedging, released, AttemptCounted

\* TryAcquirePermit of any user.
LEMMA AcquireBalances ==
  ASSUME TypeOK, Balances, NEW u \in Users, TryAcquirePermit(u), UNCHANGED hedgeVars
  PROVE  Balances'
<1>1. /\ hedging' = hedging /\ released' = released
      /\ retrying' = retrying /\ releasing' = releasing /\ calls' = calls /\ pc' = pc
  BY SameCounts
     DEF hedgeVars, TryAcquirePermit, LoadExecutions, LoadRate, AddInflight, AddExecutions
<1> USE <1>1, CountsAreNat DEF Balances, AcquireCounted, Is
<1>2. CASE LoadExecutions(u)
  <2>1. AcquireCounted(u, "loadRate")
    BY <1>2, AcquireMoves DEF LoadExecutions
  <2> QED  BY <1>2, <2>1 DEF LoadExecutions
<1>3. CASE LoadRate(u)
  <2>1. AcquireCounted(u, "rejected") \/ AcquireCounted(u, "addInflight")
    BY <1>3, AcquireMoves DEF LoadRate
  <2> QED  BY <1>3, <2>1 DEF LoadRate
<1>4. CASE AddInflight(u)
  <2>1. AcquireCounted(u, "addExecutions")
    BY <1>4, AcquireMoves DEF AddInflight
  <2> QED  BY <1>4, <2>1 DEF AddInflight
<1>5. CASE AddExecutions(u)
  <2>1. AcquireCounted(u, "granted")
    BY <1>5, AcquireMoves DEF AddExecutions
  <2> QED  BY <1>5, <2>1 DEF AddExecutions, RecordExecution
<1> QED  BY <1>2, <1>3, <1>4, <1>5 DEF TryAcquirePermit

\* The steps of a retry executor, RetryStarts among them.
LEMMA RetryBalances ==
  ASSUME TypeOK, CallsMatch, Balances, NEW u \in RetryUsers, RetryStarts(u) \/ RetryStep(u),
         UNCHANGED hedgeVars
  PROVE  Balances'
<1>1. u \in Users /\ hedging' = hedging /\ released' = released /\ pc' = pc
  BY SameCounts DEF hedgeVars, Users
<1>2. acquire' = acquire => granted' = granted /\ adding' = adding
  BY SameCounts
<1> USE <1>1, CountsAreNat DEF Balances, AcquireCounted, RetryCounted, Is
<1>3. CASE RetryStarts(u)
  <2>1. RetryCounted(u, "execution")
    BY <1>3, RetryMoves DEF RetryStarts
  <2> QED  BY <1>2, <1>3, <2>1 DEF RetryStarts, RecordExecution
<1>4. CASE RetryAcquires(u)
  <2>1. RetryCounted(u, "acquiring")
    BY <1>4, RetryMoves DEF RetryAcquires
  <2>2. AcquireCounted(u, "addInflight") \/ AcquireCounted(u, "loadExecutions")
    BY <1>4, AcquireMoves DEF RetryAcquires, LoadInflight
  <2>3. acquire[u] = "idle"
    BY <1>4 DEF CallsMatch, RetryAcquires
  <2> QED  BY <1>4, <2>1, <2>2, <2>3 DEF RetryAcquires
<1>5. CASE RetryGranted(u)
  <2>1. RetryCounted(u, "retrying")
    BY <1>5, RetryMoves DEF RetryGranted
  <2>2. AcquireCounted(u, "idle")
    BY <1>5, AcquireMoves DEF RetryGranted
  <2> QED  BY <1>5, <2>1, <2>2 DEF RetryGranted
<1>6. CASE RetryReleases(u)
  <2>1. RetryCounted(u, "releasing")
    BY <1>6, RetryMoves DEF RetryReleases
  <2> QED  BY <1>2, <1>6, <2>1 DEF RetryReleases
<1>7. CASE RetryReleased(u)
  <2>1. RetryCounted(u, "execution")
    BY <1>7, RetryMoves DEF RetryReleased
  <2> QED  BY <1>2, <1>7, <2>1 DEF RetryReleased, ReleaseExecution
<1>8. CASE RetryEnds(u)
  <2>1. RetryCounted(u, "idle")
    BY <1>8, RetryMoves DEF RetryEnds
  <2>2. granted' = granted /\ adding' = adding
    <3>1. CASE acquire' = acquire
      BY <1>2, <3>1
    <3>2. CASE acquire[u] = "rejected" /\ acquire' = [acquire EXCEPT ![u] = "idle"]
      <4>1. AcquireCounted(u, "idle")
        BY <3>2, AcquireMoves
      <4> QED  BY <3>2, <4>1
    <3> QED  BY <1>8, <3>1, <3>2 DEF RetryEnds
  <2> QED  BY <1>8, <2>1, <2>2 DEF RetryEnds, ReleaseExecution
<1>9. CASE TryAcquirePermit(u)
  BY <1>9, AcquireBalances
<1> QED  BY <1>3, <1>4, <1>5, <1>6, <1>7, <1>8, <1>9 DEF RetryStep

\* The attempt that CopyForHedge counts is the first that was not started, and there is one.
LEMMA NextAttempt ==
  ASSUME IInv
  PROVE  /\ Cardinality(Started) \in Nat
         /\ pc = "acquire" => /\ Cardinality(Started) \in Hedges
                              /\ attempt[Cardinality(Started)] = "none"
         /\ pc = "idle" => Started = {} /\ Cardinality(Started) = 0
<1> DEFINE n == Cardinality(Started)
<1>1. n \in Nat
  <2>1. IsFiniteSet(Started)
    BY Finite, FS_Subset DEF Started
  <2> QED  BY <2>1, FS_CardinalityType
<1>2. Started = 0 .. n - 1 /\ Started \subseteq Attempts
  BY DEF IInv, HedgesStartInOrder, Started
<1> HIDE DEF n
<1>3. ASSUME pc = "acquire" PROVE n \in Hedges /\ attempt[n] = "none"
  <2>1. 0 \in Started /\ maxHedges \notin Started
    BY <1>3 DEF IInv, HedgesStartInOrder
  <2>2. n >= 1 /\ n <= maxHedges
    BY <1>1, <1>2, <2>1
  <2>3. n \in Attempts /\ n \notin Started
    BY <1>1, <1>2, <2>2 DEF Attempts
  <2> QED  BY <1>1, <2>2, <2>3 DEF Hedges, Started
<1>4. ASSUME pc = "idle" PROVE Started = {} /\ n = 0
  <2>1. 0 \notin Started
    BY <1>4 DEF IInv, HedgesStartInOrder
  <2>2. n = 0
    BY <1>1, <1>2, <2>1
  <2> QED  BY <1>2, <2>2
<1> QED  BY <1>1, <1>3, <1>4 DEF n

\* The steps of the hedged execution and its attempts.
LEMMA HedgeBalances ==
  ASSUME IInv, HedgeStep \/ (\E i \in Attempts : FnStep(i) \/ SendResult(i))
               \/ (\E r \in {"nil", "timeout.ErrExceeded"} : CancelParent(r))
  PROVE  Balances'
<1> USE DEF IInv
<1>1. Hedger \in Users /\ Balances /\ 0 \in Attempts
  BY Finite, BalancedCounts
<1>2. retry' = retry => retrying' = retrying /\ releasing' = releasing /\ calls' = calls
  BY SameCounts
<1>3. acquire' = acquire => granted' = granted /\ adding' = adding
  BY SameCounts
<1>4. attempt' = attempt => hedging' = hedging /\ released' = released
  BY SameCounts
<1> USE CountsAreNat DEF Balances, AcquireCounted, AttemptCounted, Is
<1>5. CASE Start
  <2>1. AttemptCounted(0, "running")
    BY <1>1, <1>5, AttemptMoves DEF Start, StartAttempt
  <2> QED  BY <1>1, <1>2, <1>3, <1>5, <2>1 DEF Start, StartAttempt, RecordExecution
<1>6. CASE StartHedge
  <2> DEFINE i == Cardinality(Started)
  <2>1. i \in Attempts /\ i # 0 /\ attempt[i] = "none"
    BY <1>6, NextAttempt, Finite DEF StartHedge, Hedges
  <2>2. AttemptCounted(i, "running")
    BY <1>6, <2>1, AttemptMoves DEF StartHedge, StartAttempt
  <2>3. AcquireCounted(Hedger, "idle")
    BY <1>1, <1>6, AcquireMoves DEF StartHedge
  <2> HIDE DEF i
  <2> QED  BY <1>1, <1>2, <1>6, <2>1, <2>2, <2>3 DEF StartHedge, StartAttempt
<1>7. CASE HedgeRejected
  <2>1. AcquireCounted(Hedger, "idle")
    BY <1>1, <1>7, AcquireMoves DEF HedgeRejected
  <2> QED  BY <1>1, <1>2, <1>4, <1>7, <2>1 DEF HedgeRejected
<1>8. CASE HedgeAcquires
  BY <1>1, <1>8, AcquireBalances DEF HedgeAcquires
<1>9. ASSUME NEW i \in Attempts, FnStep(i) PROVE Balances'
  <2>1. CASE i = 0
    <3>1. AttemptCounted(0, "sent")
      BY <1>1, <1>9, <2>1, AttemptMoves DEF FnStep, FnReturns
    <3> QED  BY <1>1, <1>2, <1>3, <1>9, <2>1, <3>1 DEF FnStep, FnReturns
  <2>2. CASE i # 0
    <3>1. AttemptCounted(i, "released")
      BY <1>1, <1>9, <2>2, AttemptMoves DEF FnStep, FnReturns
    <3>2. hedging' = hedging - 1 /\ released' = released + 1
      BY <1>9, <2>2, <3>1 DEF FnStep, FnReturns
    <3>3. /\ inflight' = inflight - 1 /\ executions' = executions
          /\ acquire' = acquire /\ retry' = retry /\ pc' = pc
      BY <1>9, <2>2 DEF FnStep, FnReturns
    <3> QED  BY <1>1, <1>2, <1>3, <3>2, <3>3
  <2> QED  BY <2>1, <2>2
<1>10. ASSUME NEW i \in Attempts, SendResult(i) PROVE Balances'
  <2>1. AttemptCounted(i, "sent")
    BY <1>1, <1>10, AttemptMoves DEF SendResult
  <2>2. i # 0 /\ attempt[i] = "released"
    BY <1>10 DEF SendResult, HedgesStartInOrder
  <2>3. released' = released - 1 /\ hedging' = hedging
    BY <2>1, <2>2
  <2>4. /\ executions' = executions - 1 /\ inflight' = inflight
        /\ acquire' = acquire /\ retry' = retry /\ pc' = pc
    BY <1>10 DEF SendResult, ReleaseExecution
  <2> QED  BY <1>1, <1>2, <1>3, <2>3, <2>4
<1>11. CASE Receive
  <2> DEFINE i == Head(resultChan)
  <2>1. i \in Attempts /\ attempt[i] = "sent"
    BY <1>11 DEF Receive, TypeOK, ChannelHoldsSent
  <2>2. AttemptCounted(i, "received")
    BY <1>11, <2>1, AttemptMoves DEF Receive
  <2>3. pc' \notin {"idle", "done"}
    BY <1>11 DEF Receive
  <2> HIDE DEF i
  <2> QED  BY <1>1, <1>2, <1>3, <1>11, <2>1, <2>2, <2>3 DEF Receive, budgetVars
<1>12. CASE TimerFires \/ AllReceived \/ CancelAttempt \/ AllCanceled
  BY <1>1, <1>2, <1>3, <1>4, <1>12 DEF TimerFires, AllReceived, CancelAttempt, AllCanceled, budgetVars
<1>13. CASE CheckCanceled
  <2>1. acquire[Hedger] = "idle"
    BY <1>13 DEF CheckCanceled, CallsMatch
  <2>2. granted' = granted /\ adding' = adding
    <3>1. CASE acquire' = acquire
      BY <1>3, <3>1
    <3>2. CASE LoadInflight(Hedger)
      <4>1. AcquireCounted(Hedger, "addInflight") \/ AcquireCounted(Hedger, "loadExecutions")
        BY <1>1, <3>2, AcquireMoves DEF LoadInflight
      <4> QED  BY <2>1, <4>1
    <3> QED  BY <1>13, <3>1, <3>2 DEF CheckCanceled
  <2> QED  BY <1>1, <1>2, <1>4, <1>13, <2>2 DEF CheckCanceled
<1>14. CASE Return
  BY <1>1, <1>2, <1>3, <1>4, <1>14 DEF Return, ReleaseExecution
<1>15. ASSUME NEW r, CancelParent(r) PROVE Balances'
  BY <1>1, <1>2, <1>3, <1>4, <1>15 DEF CancelParent, budgetVars
<1> QED  BY <1>5, <1>6, <1>7, <1>8, <1>9, <1>10, <1>11, <1>12, <1>13, <1>14, <1>15 DEF HedgeStep

-----------------------------------------------------------------------------
(***************************************************************************)
(* The control of the execution.                                           *)
(***************************************************************************)
\* TypeOK without the counters, whose types follow from the balance.
Typed ==
  /\ acquire \in [Users -> Acquires]
  /\ seen \in [Users -> Nat]
  /\ retry \in [RetryUsers -> Retries]
  /\ pc \in PCs
  /\ timed \in BOOLEAN
  /\ attempt \in [Attempts -> AttemptStates]
  /\ value \in [Attempts -> Values \cup {"nil"}]
  /\ ctxDone \subseteq Attempts
  /\ resultChan \in Seq(Attempts)
  /\ lastResult \in Attempts \cup {None}
  /\ result \in Attempts \cup {None}
  /\ cancelIdx \in 0..maxHedges + 1
  /\ parentDone \in BOOLEAN
  /\ canceledResult \in Values \cup {"nil"}
  /\ answer \in Values \cup {"nil"}

\* The part of the invariant that speaks of the hedged execution only.
Control ==
  /\ HedgesStartInOrder /\ ChannelHoldsSent /\ ResultsReceived
  /\ CancelProgress /\ NoAttemptOutlivesTheCall

LEMMA BudgetTyped ==
  ASSUME TypeOK, NEW u \in Users,
         TryAcquirePermit(u) \/ (u \in RetryUsers /\ (RetryStarts(u) \/ RetryStep(u))),
         UNCHANGED hedgeVars
  PROVE  Typed'
<1>1. /\ acquire \in [Users -> Acquires] /\ seen \in [Users -> Nat]
      /\ retry \in [RetryUsers -> Retries] /\ executions \in Nat
  BY DEF TypeOK
<1>2. acquire' \in [Users -> Acquires] /\ seen' \in [Users -> Nat] /\ retry' \in [RetryUsers -> Retries]
  <2> USE DEF Acquires, Retries
  <2>1. CASE TryAcquirePermit(u)
    BY <1>1, <2>1 DEF TryAcquirePermit, LoadExecutions, LoadRate, AddInflight, AddExecutions
  <2>2. CASE u \in RetryUsers /\ (RetryStarts(u) \/ RetryReleases(u) \/ RetryReleased(u))
    BY <1>1, <2>2 DEF RetryStarts, RetryReleases, RetryReleased
  <2>3. CASE u \in RetryUsers /\ (RetryAcquires(u) \/ RetryGranted(u))
    BY <1>1, <2>3 DEF RetryAcquires, RetryGranted, LoadInflight
  <2>4. CASE u \in RetryUsers /\ RetryEnds(u)
    BY <1>1, <2>4 DEF RetryEnds
  <2> QED  BY <2>1, <2>2, <2>3, <2>4 DEF RetryStep
<1> QED  BY <1>2 DEF Typed, TypeOK, hedgeVars

LEMMA BudgetCallsMatch ==
  ASSUME TypeOK, CallsMatch, NEW u \in Users,
         TryAcquirePermit(u) \/ (u \in RetryUsers /\ (RetryStarts(u) \/ RetryStep(u))),
         UNCHANGED hedgeVars
  PROVE  CallsMatch'
<1>1. /\ acquire \in [Users -> Acquires] /\ retry \in [RetryUsers -> Retries] /\ pc' = pc
      /\ Users = RetryUsers \cup {Hedger} /\ Hedger \notin RetryUsers
  BY DEF TypeOK, hedgeVars, Users
<1> USE <1>1 DEF CallsMatch
<1>2. CASE TryAcquirePermit(u)
  BY <1>2 DEF TryAcquirePermit, LoadExecutions, LoadRate, AddInflight, AddExecutions
<1>3. CASE u \in RetryUsers /\ (RetryStarts(u) \/ RetryReleases(u) \/ RetryReleased(u))
  BY <1>3 DEF RetryStarts, RetryReleases, RetryReleased
<1>4. CASE u \in RetryUsers /\ (RetryAcquires(u) \/ RetryGranted(u))
  BY <1>4 DEF RetryAcquires, RetryGranted, LoadInflight
<1>5. CASE u \in RetryUsers /\ RetryEnds(u)
  BY <1>5 DEF RetryEnds
<1> QED  BY <1>2, <1>3, <1>4, <1>5 DEF RetryStep

LEMMA SameControl ==
  ASSUME Control, UNCHANGED hedgeVars
  PROVE  Control'
BY DEF Control, hedgeVars, HedgesStartInOrder, ChannelHoldsSent, ResultsReceived, CancelProgress,
       NoAttemptOutlivesTheCall, Started, AttemptDone, AllIn

\* A started attempt is the next one in line.
LEMMA StartControl ==
  ASSUME IInv, pc \in {"idle", "acquire"}, NEW i, i = Cardinality(Started), i \in Attempts,
         attempt[i] = "none", StartAttempt(i),
         UNCHANGED <<value, ctxDone, resultChan, lastResult, result, cancelIdx, parentDone>>
  PROVE  Control'
<1> USE DEF IInv
<1>1. /\ attempt' = [attempt EXCEPT ![i] = "running"] /\ pc' = "await"
      /\ timed' => i # maxHedges
      /\ attempt \in [Attempts -> AttemptStates] /\ i \in Nat /\ i <= maxHedges
      /\ lastResult \in Attempts \cup {None} /\ resultChan \in Seq(Attempts)
  <2>1. timed' => i # maxHedges
    <3>1. i = maxHedges => ~(i < maxHedges)
      OBVIOUS
    <3>2. CASE i < maxHedges
      BY <3>1, <3>2
    <3>3. CASE ~(i < maxHedges)
      BY <3>3, Zenon DEF StartAttempt
    <3> QED  BY <3>2, <3>3
  <2> QED  BY <2>1 DEF StartAttempt, TypeOK, Attempts
<1>2. Started' = Started \cup {i} /\ Started = 0 .. i - 1
  BY <1>1 DEF Started, HedgesStartInOrder
<1>3. Started' = 0 .. i
  <2>1. \A j : j \in 0 .. i <=> j \in 0 .. i - 1 \/ j = i
    BY <1>1
  <2> QED  BY <1>2, <2>1
<1>4. Cardinality(0 .. i) = i + 1
  BY <1>1, FS_Interval
<1>5. HedgesStartInOrder'
  <2>1. 0 \in Started' /\ Started' = 0 .. Cardinality(Started)' - 1
    <3>1. Cardinality(Started') - 1 = i
      BY <1>1, <1>3, <1>4
    <3> QED  BY <1>1, <1>3, <3>1
  <2>2. attempt'[0] # "released"
    BY <1>1 DEF HedgesStartInOrder
  <2>3. timed' => maxHedges \notin Started'
    <3>1. i <= maxHedges - 1 => maxHedges \notin 0 .. i
      BY <1>1
    <3> QED  BY <1>1, <1>3, <3>1
  <2> QED  BY <1>1, <2>1, <2>2, <2>3 DEF HedgesStartInOrder
<1>6. ChannelHoldsSent'
  BY <1>1 DEF ChannelHoldsSent
<1>7. ResultsReceived'
  BY <1>1 DEF ResultsReceived, AllIn
<1>8. CancelProgress' /\ NoAttemptOutlivesTheCall'
  BY <1>1 DEF CancelProgress, NoAttemptOutlivesTheCall
<1> QED  BY <1>5, <1>6, <1>7, <1>8 DEF Control

\* An attempt that ends a phase: what was started stays started.
LEMMA AttemptControl ==
  ASSUME IInv, NEW i \in Attempts, FnStep(i) \/ SendResult(i)
  PROVE  Control'
<1> USE DEF IInv
<1>1. /\ attempt \in [Attempts -> AttemptStates] /\ resultChan \in Seq(Attempts)
      /\ value \in [Attempts -> Values \cup {"nil"}] /\ lastResult \in Attempts \cup {None}
      /\ result \in Attempts \cup {None}
  BY DEF TypeOK
<1>2. /\ attempt[i] \in {"running", "released"}
      /\ attempt' = [attempt EXCEPT ![i] = "sent"] \/ (i # 0 /\ attempt' = [attempt EXCEPT ![i] = "released"])
      /\ resultChan' = IF attempt'[i] = "sent" THEN Append(resultChan, i) ELSE resultChan
      /\ \A j \in Attempts : j # i => value'[j] = value[j]
      /\ UNCHANGED <<pc, timed, ctxDone, lastResult, result, cancelIdx, parentDone>>
  BY <1>1 DEF FnStep, FnReturns, SendResult, AttemptStates
<1>3. Started' = Started
  BY <1>1, <1>2 DEF Started
<1>4. HedgesStartInOrder'
  <2>1. attempt'[0] # "released"
    BY <1>1, <1>2, Finite DEF HedgesStartInOrder
  <2> QED  BY <1>2, <1>3, <2>1 DEF HedgesStartInOrder
<1>5. ChannelHoldsSent'
  <2>1. \A k \in 1..Len(resultChan) : resultChan[k] # i
    BY <1>1, <1>2 DEF ChannelHoldsSent
  <2>2. CASE attempt'[i] = "sent"
    <3>1. /\ Len(resultChan') = Len(resultChan) + 1 /\ resultChan'[Len(resultChan) + 1] = i
          /\ \A k \in 1..Len(resultChan) : resultChan'[k] = resultChan[k]
          /\ Len(resultChan) \in Nat
      BY <1>1, <1>2, <2>2
    <3>2. \A k \in 1..Len(resultChan) : attempt'[resultChan[k]] = "sent"
      BY <1>1, <1>2, <2>1 DEF ChannelHoldsSent
    <3> QED  BY <2>1, <2>2, <3>1, <3>2 DEF ChannelHoldsSent
  <2>3. CASE attempt'[i] # "sent"
    BY <1>1, <1>2, <2>1, <2>3 DEF ChannelHoldsSent
  <2> QED  BY <2>2, <2>3
<1>6. ResultsReceived'
  <2>1. \A j \in Attempts : attempt'[j] = "received" <=> attempt[j] = "received"
    BY <1>1, <1>2
  <2>2. attempt[i] \notin {"none", "received"} /\ ~AllIn
    BY <1>2 DEF AllIn
  <2>3. ASSUME pc \in {"checkCanceled", "cancel"}, result # None
        PROVE  attempt'[result] = "received" /\ value'[result] \in Final
    <3>1. result \in Attempts /\ attempt[result] = "received" /\ value[result] \in Final
      BY <1>1, <2>2, <2>3 DEF ResultsReceived
    <3>2. result # i
      BY <2>2, <3>1
    <3> QED  BY <1>2, <2>1, <3>1, <3>2
  <2> QED  BY <1>1, <1>2, <2>1, <2>3 DEF ResultsReceived
<1>7. CancelProgress' /\ NoAttemptOutlivesTheCall'
  BY <1>2, <1>3 DEF CancelProgress, NoAttemptOutlivesTheCall, AttemptDone
<1> QED  BY <1>4, <1>5, <1>6, <1>7 DEF Control

\* A result is taken out of the channel.
LEMMA ReceiveControl ==
  ASSUME IInv, Receive
  PROVE  Control'
<1> USE DEF IInv
<1> DEFINE i == Head(resultChan)
<1>1. /\ attempt \in [Attempts -> AttemptStates] /\ resultChan \in Seq(Attempts)
      /\ resultChan # <<>> /\ i \in Attempts /\ attempt[i] = "sent" /\ i = resultChan[1]
      /\ Len(resultChan) \in Nat \ {0} /\ i # None
  BY DEF TypeOK, Receive, ChannelHoldsSent, Attempts, None
<1>2. /\ attempt' = [attempt EXCEPT ![i] = "received"] /\ lastResult' = i
      /\ resultChan' = Tail(resultChan)
      /\ \/ value[i] \in Final /\ result' = i /\ pc' = "checkCanceled"
         \/ result' = result /\ pc' = pc
      /\ pc = "await"
      /\ UNCHANGED <<timed, value, ctxDone, cancelIdx, parentDone>>
  BY DEF Receive, EndsHedging
<1> HIDE DEF i
<1>3. Started' = Started
  BY <1>1, <1>2 DEF Started
<1>4. HedgesStartInOrder'
  BY <1>1, <1>2, <1>3 DEF HedgesStartInOrder
<1>5. ChannelHoldsSent'
  <2>1. /\ Len(resultChan') = Len(resultChan) - 1
        /\ \A k \in 1..Len(resultChan') : resultChan'[k] = resultChan[k + 1]
    BY <1>1, <1>2
  <2>2. \A k \in 1..Len(resultChan') : resultChan[k + 1] # i /\ resultChan[k + 1] \in Attempts
    BY <1>1, <2>1 DEF ChannelHoldsSent
  <2>3. \A k \in 1..Len(resultChan') : attempt'[resultChan'[k]] = "sent"
    BY <1>1, <1>2, <2>1, <2>2 DEF ChannelHoldsSent
  <2>4. \A k, l \in 1..Len(resultChan') : resultChan'[k] = resultChan'[l] => k = l
    BY <1>1, <2>1 DEF ChannelHoldsSent
  <2> QED  BY <2>3, <2>4 DEF ChannelHoldsSent
<1>6. ResultsReceived'
  BY <1>1, <1>2 DEF ResultsReceived
<1>7. CancelProgress' /\ NoAttemptOutlivesTheCall'
  BY <1>2, <1>3 DEF CancelProgress, NoAttemptOutlivesTheCall, AttemptDone
<1> QED  BY <1>4, <1>5, <1>6, <1>7 DEF Control

\* The steps of the goroutine that neither start an attempt nor take a result.
LEMMA GoroutineControl ==
  ASSUME IInv, HedgeRejected \/ TimerFires \/ AllReceived \/ CheckCanceled \/ CancelAttempt
               \/ AllCanceled \/ Return \/ (\E r \in {"nil", "timeout.ErrExceeded"} : CancelParent(r))
  PROVE  Control'
<1> USE DEF IInv
<1>1. /\ attempt' = attempt /\ value' = value /\ resultChan' = resultChan /\ lastResult' = lastResult
      /\ Started' = Started
  BY DEF HedgeRejected, TimerFires, AllReceived, CheckCanceled, CancelAttempt, AllCanceled, Return,
         CancelParent, Started
<1>2. ChannelHoldsSent'
  BY <1>1 DEF ChannelHoldsSent
<1>3. CASE HedgeRejected
  BY <1>1, <1>2, <1>3 DEF HedgeRejected, Control, HedgesStartInOrder, ResultsReceived, CancelProgress,
                          NoAttemptOutlivesTheCall, AttemptDone
<1>4. CASE TimerFires
  BY <1>1, <1>2, <1>4 DEF TimerFires, Control, HedgesStartInOrder, ResultsReceived, CancelProgress,
                          NoAttemptOutlivesTheCall, AttemptDone
<1>5. CASE AllReceived
  <2>1. 0 \in Started /\ Started \subseteq Attempts
    BY <1>5 DEF AllReceived, HedgesStartInOrder, Started
  <2>2. AllIn /\ attempt[0] = "received"
    BY <1>5, <2>1 DEF AllReceived, Outstanding, AllIn, Started
  <2>3. lastResult # None /\ attempt[lastResult] = "received"
    BY <2>1, <2>2 DEF ResultsReceived
  <2>4. ResultsReceived'
    BY <1>1, <1>5, <2>2, <2>3 DEF AllReceived, ResultsReceived, AllIn
  <2> QED  BY <1>1, <1>2, <1>5, <2>3, <2>4
           DEF AllReceived, Control, HedgesStartInOrder, CancelProgress, NoAttemptOutlivesTheCall, AttemptDone
<1>6. CASE CheckCanceled
  <2>1. HedgesStartInOrder' /\ CancelProgress' /\ NoAttemptOutlivesTheCall'
    BY <1>1, <1>6 DEF CheckCanceled, HedgesStartInOrder, CancelProgress, NoAttemptOutlivesTheCall,
                      AttemptDone, TypeOK, Started, Attempts
  <2>2. ResultsReceived'
    BY <1>1, <1>6 DEF CheckCanceled, ResultsReceived, AllIn
  <2> QED  BY <1>2, <2>1, <2>2 DEF Control
<1>7. CASE CancelAttempt
  <2>1. HedgesStartInOrder' /\ ResultsReceived'
    BY <1>1, <1>7 DEF CancelAttempt, HedgesStartInOrder, ResultsReceived, AllIn
  <2>2. CancelProgress' /\ NoAttemptOutlivesTheCall'
    <3>1. ASSUME NEW j \in Started, j < cancelIdx + 1 PROVE AttemptDone(j)'
      <4>1. j < cancelIdx \/ j = cancelIdx
        BY <3>1 DEF TypeOK, Started, Attempts
      <4>2. CASE j < cancelIdx
        BY <1>7, <3>1, <4>2 DEF CancelAttempt, CancelProgress, AttemptDone
      <4>3. CASE j = cancelIdx
        BY <1>7, <3>1, <4>3 DEF CancelAttempt, AttemptDone
      <4> QED  BY <4>1, <4>2, <4>3
    <3> QED  BY <1>1, <1>7, <3>1 DEF CancelAttempt, CancelProgress, NoAttemptOutlivesTheCall
  <2> QED  BY <1>2, <2>1, <2>2 DEF Control
<1>8. CASE AllCanceled
  <2>1. \A j \in Started : j < cancelIdx
    BY <1>8 DEF AllCanceled, LastToCancel, Started, Attempts, TypeOK
  <2> QED  BY <1>1, <1>2, <1>8, <2>1
           DEF AllCanceled, Control, HedgesStartInOrder, ResultsReceived, CancelProgress,
               NoAttemptOutlivesTheCall, AttemptDone
<1>9. CASE Return
  BY <1>1, <1>2, <1>9 DEF Return, Control, HedgesStartInOrder, ResultsReceived, CancelProgress,
                          NoAttemptOutlivesTheCall, AttemptDone
<1>10. CASE \E r \in {"nil", "timeout.ErrExceeded"} : CancelParent(r)
  BY <1>1, <1>2, <1>10 DEF CancelParent, Control, HedgesStartInOrder, ResultsReceived, CancelProgress,
                           NoAttemptOutlivesTheCall, AttemptDone, AllIn
<1> QED  BY <1>3, <1>4, <1>5, <1>6, <1>7, <1>8, <1>9, <1>10

\* The types of what a hedged execution changes, and its calls of TryAcquirePermit.
LEMMA HedgeTyped ==
  ASSUME IInv, HedgeStep \/ (\E i \in Attempts : FnStep(i) \/ SendResult(i))
               \/ (\E r \in {"nil", "timeout.ErrExceeded"} : CancelParent(r))
  PROVE  Typed' /\ CallsMatch'
<1> USE DEF IInv
<1>1. /\ acquire \in [Users -> Acquires] /\ Users = RetryUsers \cup {Hedger} /\ Hedger \notin RetryUsers
      /\ attempt \in [Attempts -> AttemptStates] /\ pc \in PCs
  BY DEF TypeOK, Users
<1> USE DEF Acquires, AttemptStates, PCs
<1>2. ASSUME NEW i \in Attempts, StartAttempt(i)
      PROVE  /\ attempt' \in [Attempts -> AttemptStates] /\ timed' \in BOOLEAN /\ pc' = "await"
  BY <1>1, <1>2 DEF StartAttempt
<1>3. CASE Start
  <2>1. /\ attempt' \in [Attempts -> AttemptStates] /\ timed' \in BOOLEAN /\ pc' = "await"
    BY <1>2, <1>3, Finite DEF Start
  <2> QED  BY <1>1, <1>3, <2>1 DEF Start, Typed, TypeOK, CallsMatch
<1>4. CASE StartHedge
  <2>1. Cardinality(Started) \in Attempts
    BY <1>4, NextAttempt, Finite DEF StartHedge
  <2>2. /\ attempt' \in [Attempts -> AttemptStates] /\ timed' \in BOOLEAN /\ pc' = "await"
    BY <1>2, <1>4, <2>1 DEF StartHedge
  <2> QED  BY <1>1, <1>4, <2>2 DEF StartHedge, Typed, TypeOK, CallsMatch
<1>5. CASE HedgeRejected
  BY <1>1, <1>5 DEF HedgeRejected, Typed, TypeOK, CallsMatch
<1>6. CASE HedgeAcquires
  BY <1>1, <1>6, BudgetTyped, BudgetCallsMatch DEF HedgeAcquires
<1>7. ASSUME NEW i \in Attempts, FnStep(i) \/ SendResult(i) PROVE Typed' /\ CallsMatch'
  <2>1. attempt' \in [Attempts -> AttemptStates] /\ resultChan' \in Seq(Attempts)
    <3>1. resultChan \in Seq(Attempts) /\ Append(resultChan, i) \in Seq(Attempts)
      BY DEF TypeOK
    <3> QED  BY <1>1, <1>7, <3>1 DEF FnStep, FnReturns, SendResult
  <2>2. value' \in [Attempts -> Values \cup {"nil"}]
    BY <1>7 DEF FnStep, FnReturns, SendResult, TypeOK, Values, FnValues
  <2>3. UNCHANGED <<acquire, seen, retry, pc, timed, ctxDone, lastResult, result, cancelIdx, parentDone,
                    canceledResult, answer>>
    BY <1>7 DEF FnStep, FnReturns, SendResult
  <2> QED  BY <2>1, <2>2, <2>3 DEF Typed, TypeOK, CallsMatch
<1>8. CASE Receive
  <2> DEFINE i == Head(resultChan)
  <2>1. i \in Attempts /\ Tail(resultChan) \in Seq(Attempts)
    BY <1>8 DEF TypeOK, Receive
  <2>2. /\ attempt' = [attempt EXCEPT ![i] = "received"] /\ lastResult' = i
        /\ resultChan' = Tail(resultChan)
        /\ (result' = i /\ pc' = "checkCanceled") \/ UNCHANGED <<result, pc>>
        /\ pc = "await"
        /\ UNCHANGED <<budgetVars, timed, value, ctxDone, cancelIdx, parentDone, canceledResult, answer>>
    BY <1>8 DEF Receive
  <2> HIDE DEF i
  <2>3. attempt' \in [Attempts -> AttemptStates]
    BY <1>1, <2>1, <2>2
  <2> QED  BY <1>1, <2>1, <2>2, <2>3 DEF Typed, TypeOK, CallsMatch, budgetVars
<1>9. CASE TimerFires \/ AllReceived
  BY <1>1, <1>9 DEF TimerFires, AllReceived, Typed, TypeOK, CallsMatch, budgetVars
<1>10. CASE CheckCanceled
  <2>1. /\ executions' = executions
        /\ UNCHANGED <<seen, retry, timed, attempt, value, ctxDone, resultChan, lastResult, result,
                       cancelIdx, parentDone, canceledResult>>
    BY <1>10 DEF CheckCanceled
  <2>2. answer' \in Values \cup {"nil"} /\ pc' \in PCs
    BY <1>10 DEF CheckCanceled, TypeOK, Values
  <2>3. acquire' \in [Users -> Acquires] /\ CallsMatch'
    BY <1>1, <1>10, <2>1 DEF CheckCanceled, LoadInflight, CallsMatch
  <2> QED  BY <2>1, <2>2, <2>3 DEF Typed, TypeOK
<1>11. CASE CancelAttempt
  <2>1. result \in Attempts /\ value[result] \in Values \cup {"nil"}
    BY <1>11 DEF CancelAttempt, ResultsReceived, TypeOK
  <2>2. cancelIdx' \in 0..maxHedges + 1 /\ ctxDone' \subseteq Attempts
    BY <1>11 DEF CancelAttempt, LastToCancel, Started, TypeOK
  <2>3. canceledResult' \in Values \cup {"nil"}
    BY <1>11, <2>1 DEF CancelAttempt, TypeOK
  <2> QED  BY <1>11, <2>2, <2>3 DEF CancelAttempt, Typed, TypeOK, CallsMatch, budgetVars
<1>12. CASE AllCanceled
  <2>1. result \in Attempts /\ value[result] \in Values \cup {"nil"}
    BY <1>12 DEF AllCanceled, ResultsReceived, TypeOK
  <2> QED  BY <1>12, <2>1 DEF AllCanceled, Typed, TypeOK, CallsMatch, budgetVars
<1>13. CASE Return
  BY <1>13 DEF Return, Typed, TypeOK, CallsMatch
<1>14. ASSUME NEW r \in {"nil", "timeout.ErrExceeded"}, CancelParent(r) PROVE Typed' /\ CallsMatch'
  BY <1>14 DEF CancelParent, Typed, TypeOK, CallsMatch, budgetVars, Values
<1> QED  BY <1>3, <1>4, <1>5, <1>6, <1>7, <1>8, <1>9, <1>10, <1>11, <1>12, <1>13, <1>14 DEF HedgeStep

LEMMA HedgeControl ==
  ASSUME IInv, HedgeStep \/ (\E i \in Attempts : FnStep(i) \/ SendResult(i))
               \/ (\E r \in {"nil", "timeout.ErrExceeded"} : CancelParent(r))
  PROVE  Control'
<1>1. CASE Start
  BY <1>1, StartControl, NextAttempt, Finite DEF Start, Started
<1>2. CASE StartHedge
  BY <1>2, StartControl, NextAttempt, Finite DEF StartHedge
<1>3. CASE HedgeAcquires
  BY <1>3, SameControl DEF HedgeAcquires, IInv, Control
<1>4. CASE Receive
  BY <1>4, ReceiveControl
<1> QED  BY <1>1, <1>2, <1>3, <1>4, AttemptControl, GoroutineControl DEF HedgeStep

-----------------------------------------------------------------------------
(***************************************************************************)
(* The invariant.                                                          *)
(***************************************************************************)
LEMMA InitIInv == Init => IInv
<1> SUFFICES ASSUME Init PROVE IInv
  OBVIOUS
<1> USE DEF Init, BudgetInit
<1>1. TypeOK
  <2>1. /\ acquire \in [Users -> Acquires] /\ seen \in [Users -> Nat]
        /\ retry \in [RetryUsers -> Retries]
    BY DEF Acquires, Retries
  <2>2. attempt \in [Attempts -> AttemptStates] /\ value \in [Attempts -> Values \cup {"nil"}]
    BY DEF AttemptStates
  <2>3. cancelIdx \in 0..maxHedges + 1
    OBVIOUS
  <2>4. resultChan \in Seq(Attempts)
    OBVIOUS
  <2> QED  BY <2>1, <2>2, <2>3, <2>4 DEF TypeOK, PCs
<1>2. CallsMatch
  BY DEF CallsMatch, Users
<1>3. HedgesStartInOrder
  <2>1. Started = {} /\ 0 .. -1 = {} /\ 0 \in Attempts
    BY DEF Started, Attempts
  <2>2. Cardinality(Started) = 0
    BY <2>1, FS_EmptySet
  <2> QED  BY <2>1, <2>2 DEF HedgesStartInOrder
<1>4. ChannelHoldsSent /\ CancelProgress /\ NoAttemptOutlivesTheCall
  BY DEF ChannelHoldsSent, CancelProgress, NoAttemptOutlivesTheCall
<1>5. ResultsReceived
  BY DEF ResultsReceived
<1>6. BudgetBalanced
  <2>1. /\ {u \in RetryUsers : retry[u] = "retrying"} = {}
        /\ {u \in RetryUsers : retry[u] = "releasing"} = {}
        /\ {u \in RetryUsers : retry[u] # "idle"} = {}
        /\ {i \in Hedges : attempt[i] = "running"} = {}
        /\ {i \in Hedges : attempt[i] = "released"} = {}
        /\ {u \in Users : acquire[u] = "addExecutions"} = {}
        /\ {u \in Users : acquire[u] = "granted"} = {}
    BY Finite
  <2>2. /\ retrying = 0 /\ releasing = 0 /\ calls = 0 /\ hedging = 0 /\ released = 0
        /\ granted = 0 /\ adding = 0
    BY <2>1, FS_EmptySet
       DEF retrying, releasing, calls, hedging, released, granted, adding, Count, CountNot
  <2> QED  BY <2>2, BalancedCounts DEF Balances
<1> QED  BY <1>1, <1>2, <1>3, <1>4, <1>5, <1>6 DEF IInv

\* The counters are numbers because they balance.
LEMMA BalancedTyped == Balances' /\ Typed' => TypeOK'
<1> SUFFICES ASSUME Balances', Typed' PROVE TypeOK'
  OBVIOUS
<1>1. ASSUME NEW a \in Nat, NEW b \in Nat PROVE a + b \in Nat
  OBVIOUS
<1>2. inflight' \in Nat
  BY <1>1, NextCountsAreNat, Zenon DEF Balances
<1>3. (IF pc' \in {"idle", "done"} THEN 0 ELSE 1) \in Nat
  OBVIOUS
<1>4. executions' \in Nat
  BY <1>1, <1>3, NextCountsAreNat, Zenon DEF Balances
<1> QED  BY <1>2, <1>4 DEF Typed, TypeOK

LEMMA StepIInv == IInv /\ [Next]_vars => IInv'
<1> SUFFICES ASSUME IInv, [Next]_vars PROVE IInv'
  OBVIOUS
<1>1. Balances' /\ Typed' /\ CallsMatch' /\ Control'
  <2>1. CASE HedgeStep \/ (\E i \in Attempts : FnStep(i) \/ SendResult(i))
             \/ (\E r \in {"nil", "timeout.ErrExceeded"} : CancelParent(r))
    BY <2>1, HedgeBalances, HedgeTyped, HedgeControl
  <2>2. ASSUME NEW u \in RetryUsers, OtherStarts(u) \/ OtherStep(u)
        PROVE  Balances' /\ Typed' /\ CallsMatch' /\ Control'
    <3>1. u \in Users /\ TypeOK /\ CallsMatch /\ Balances /\ Control
      BY Finite, BalancedCounts DEF IInv, Control
    <3> QED  BY <2>2, <3>1, RetryBalances, BudgetTyped, BudgetCallsMatch, SameControl
             DEF OtherStarts, OtherStep
  <2>3. CASE UNCHANGED vars
    <3>1. Balances /\ Control
      BY BalancedCounts DEF IInv, Control
    <3>2. Control'
      BY <2>3, <3>1, SameControl DEF vars
    <3>3. Balances'
      BY <2>3, <3>1, SameCounts DEF vars, budgetVars, hedgeVars, Balances
    <3> QED  BY <2>3, <3>2, <3>3 DEF vars, budgetVars, hedgeVars, IInv, TypeOK, Typed, CallsMatch
  <2> QED  BY <2>1, <2>2, <2>3 DEF Next
<1>2. TypeOK' /\ BudgetBalanced'
  BY <1>1, BalancedTyped, BalancedCounts
<1> QED  BY <1>1, <1>2 DEF IInv, Control

LEMMA Invariance == Spec => []IInv
BY InitIInv, StepIInv, PTL DEF Spec

\* Types for any number of hedges and retrying executions; no release of the budget takes a
\* counter below zero.
THEOREM TypeCorrect == Spec => []TypeOK
<1>1. IInv => TypeOK
  BY DEF IInv
<1> QED  BY <1>1, Invariance, PTL

\* No interleaving of RecordExecution, TryAcquirePermit, ReleasePermit and ReleaseExecution, of any
\* number of executions, loses or leaks a count of the budget.
THEOREM BudgetConservation == Spec => []BudgetBalanced
<1>1. IInv => BudgetBalanced
  BY DEF IInv
<1> QED  BY <1>1, Invariance, PTL

\* awaitResult gives up on a better answer only when every started attempt's result was received,
\* whatever conditions end hedging.
THEOREM NoBetterAnswerLost == Spec => []NonFinalAnswerOnlyWhenAllIn
<1>1. IInv => NonFinalAnswerOnlyWhenAllIn
  BY DEF IInv, ResultsReceived, AllIn, NonFinalAnswerOnlyWhenAllIn
<1> QED  BY <1>1, Invariance, PTL

\* When the hedge executor returns, all the attempts it started are canceled, however many there
\* are and whichever won.
THEOREM AttemptsEndWithTheCall == Spec => []NoAttemptOutlivesTheCall
<1>1. IInv => NoAttemptOutlivesTheCall
  BY DEF IInv
<1> QED  BY <1>1, Invariance, PTL

-----------------------------------------------------------------------------
(***************************************************************************)
(* The bound on the overshoot is a second invariant on top: whoever passed *)
(* the check of TryAcquirePermit counts before it adds itself, and what it *)
(* saw is at most all the executions there can be, its own among them.     *)
(***************************************************************************)
MostExecutions == Cardinality(Users) + Cardinality(RetryUsers) + maxHedges

Budgeted ==
  LET byRate == (maxRate * MostExecutions) \div 100 + 1
  IN IF minConcurrency > byRate THEN minConcurrency ELSE byRate

passed == Count(Users, acquire, "addInflight")

SeenIsPossible == \A u \in Users : acquire[u] = "loadRate" => seen[u] \in 1..MostExecutions

Overshoots == inflight + passed <= Budgeted + Cardinality(Users) - 1

LEMMA ThreeParts ==
  ASSUME NEW S, IsFiniteSet(S), NEW A \in SUBSET S, NEW B \in SUBSET S, NEW C \in SUBSET S,
         A \cap B = {}, (A \cup B) \cap C = {}
  PROVE  Cardinality(A) + Cardinality(B) + Cardinality(C) <= Cardinality(S)
<1>1. IsFiniteSet(A) /\ IsFiniteSet(B) /\ IsFiniteSet(C)
  BY FS_Subset
<1>2. IsFiniteSet(A \cup B) /\ Cardinality(A \cup B) = Cardinality(A) + Cardinality(B) - Cardinality(A \cap B)
  BY <1>1, FS_Union
<1>3. Cardinality((A \cup B) \cup C)
        = Cardinality(A \cup B) + Cardinality(C) - Cardinality((A \cup B) \cap C)
  BY <1>1, <1>2, FS_Union
<1>4. Cardinality((A \cup B) \cup C) <= Cardinality(S)
  <2>1. (A \cup B) \cup C \subseteq S
    OBVIOUS
  <2> QED  BY <2>1, FS_Subset
<1>5. Cardinality(A \cap B) = 0 /\ Cardinality((A \cup B) \cap C) = 0
  BY FS_EmptySet
<1>6. Cardinality(A) \in Nat /\ Cardinality(B) \in Nat /\ Cardinality(C) \in Nat
  BY <1>1, FS_CardinalityType
<1> HIDE DEF Cardinality
<1> QED  BY <1>2, <1>3, <1>4, <1>5, <1>6

\* |Users|, and the number of attempts that a permit is needed for.
LEMMA Sizes ==
  /\ Cardinality(RetryUsers) \in Nat /\ Cardinality(Users) = Cardinality(RetryUsers) + 1
  /\ Cardinality(Hedges) = maxHedges /\ maxHedges \in Nat
  /\ \A n \in Hedges : IsFiniteSet(Hedges \ {n}) /\ Cardinality(Hedges \ {n}) = maxHedges - 1
<1>1. Cardinality(RetryUsers) \in Nat
  BY FS_CardinalityType
<1>2. Cardinality(Users) = Cardinality(RetryUsers) + 1
  BY FS_AddElement DEF Users
<1>3. Cardinality(Hedges) = maxHedges
  <2>1. Cardinality(1..maxHedges) = IF 1 > maxHedges THEN 0 ELSE maxHedges - 1 + 1
    BY FS_Interval
  <2> QED  BY <2>1 DEF Hedges
<1>4. ASSUME NEW n \in Hedges
      PROVE  IsFiniteSet(Hedges \ {n}) /\ Cardinality(Hedges \ {n}) = maxHedges - 1
  BY <1>3, Finite, FS_RemoveElement
<1> QED  BY <1>1, <1>2, <1>3, <1>4

\* A permit granted to the hedge policy belongs to an attempt that is not started, one granted
\* to a retry policy to an execution that neither retries nor gives back.
LEMMA FewExecutions ==
  ASSUME IInv
  PROVE  executions <= MostExecutions
<1> DEFINE A == {u \in RetryUsers : retry[u] = "retrying"}
           B == {u \in RetryUsers : retry[u] = "releasing"}
           G == {u \in Users : acquire[u] = "granted"}
           C == {i \in Hedges : attempt[i] = "running"}
           D == {i \in Hedges : attempt[i] = "released"}
           R == Cardinality(RetryUsers)
<1>1. A \cap B = {} /\ C \cap D = {} /\ (C \cup D) \cap {} = {}
  OBVIOUS
<1>2. (A \cup B) \cap G = {}
  BY DEF IInv, CallsMatch
<1>3. calls <= R
  <2>1. {u \in RetryUsers : retry[u] # "idle"} \subseteq RetryUsers
    OBVIOUS
  <2> QED  BY <2>1, FS_Subset DEF calls, CountNot
<1>4. /\ retrying = Cardinality(A) /\ releasing = Cardinality(B) /\ granted = Cardinality(G)
      /\ hedging = Cardinality(C) /\ released = Cardinality(D) /\ Cardinality({}) = 0
  BY FS_EmptySet DEF retrying, releasing, granted, hedging, released, Count
<1>5. \/ acquire[Hedger] = "granted" /\ retrying + releasing + granted <= R + 1 
          /\ hedging + released <= maxHedges - 1
      \/ retrying + releasing + granted <= R /\ hedging + released <= maxHedges
  <2>1. CASE acquire[Hedger] = "granted"
    <3>1. A \in SUBSET Users /\ B \in SUBSET Users /\ G \in SUBSET Users
      BY Finite
    <3>2. Cardinality(A) + Cardinality(B) + Cardinality(G) <= Cardinality(Users)
      BY <1>1, <1>2, <3>1, Finite, ThreeParts
    <3>3. PICK n \in Hedges : attempt[n] = "none"
      BY <2>1, NextAttempt DEF IInv, CallsMatch
    <3>4. C \in SUBSET (Hedges \ {n}) /\ D \in SUBSET (Hedges \ {n}) /\ {} \in SUBSET (Hedges \ {n})
      BY <3>3
    <3>5. IsFiniteSet(Hedges \ {n}) /\ Cardinality(Hedges \ {n}) = maxHedges - 1
      BY Sizes
    <3>6. Cardinality(C) + Cardinality(D) + Cardinality({}) <= Cardinality(Hedges \ {n})
      BY <1>1, <3>4, <3>5, ThreeParts
    <3> HIDE DEF A, B, C, D, G, R
    <3>7. retrying + releasing + granted <= R + 1
      BY <1>4, <3>2, Sizes DEF R
    <3>8. hedging + released <= maxHedges - 1
      BY <1>4, <3>5, <3>6, CountsAreNat
    <3> QED  BY <2>1, <3>7, <3>8
  <2>2. CASE acquire[Hedger] # "granted"
    <3>1. A \in SUBSET RetryUsers /\ B \in SUBSET RetryUsers /\ G \in SUBSET RetryUsers
      BY <2>2 DEF Users
    <3>2. Cardinality(A) + Cardinality(B) + Cardinality(G) <= Cardinality(RetryUsers)
      BY <1>1, <1>2, <3>1, Finite, ThreeParts
    <3>3. C \in SUBSET Hedges /\ D \in SUBSET Hedges /\ {} \in SUBSET Hedges
      OBVIOUS
    <3>4. Cardinality(C) + Cardinality(D) + Cardinality({}) <= Cardinality(Hedges)
      BY <1>1, <3>3, Finite, ThreeParts
    <3> HIDE DEF A, B, C, D, G
    <3>5. retrying + releasing + granted <= R
      BY <1>4, <3>2
    <3>6. hedging + released <= maxHedges
      BY <1>4, <3>4, Sizes, CountsAreNat
    <3> QED  BY <3>5, <3>6
  <2> QED  BY <2>1, <2>2
<1> HIDE DEF A, B, C, D, G, R
<1>6. PICK one \in {0, 1} :
        executions = retrying + hedging + granted + calls + one + releasing + released
  BY BalancedCounts DEF IInv, Balances
<1>7. R \in Nat /\ MostExecutions = R + 1 + R + maxHedges
  BY Sizes DEF R, MostExecutions
<1> QED  BY <1>3, <1>5, <1>6, <1>7, CountsAreNat

\* An execution that asks for a permit is itself counted.
LEMMA OwnExecution ==
  ASSUME IInv, NEW u \in Users, acquire[u] # "idle"
  PROVE  executions \in 1..MostExecutions
<1>1. PICK one \in {0, 1} :
        /\ executions = retrying + hedging + granted + calls + one + releasing + released
        /\ pc = "acquire" => one = 1
  BY BalancedCounts DEF IInv, Balances
<1>2. calls >= 1 \/ one = 1
  <2>1. CASE u = Hedger
    BY <1>1, <2>1 DEF IInv, CallsMatch
  <2>2. CASE u \in RetryUsers
    <3>1. u \in {w \in RetryUsers : retry[w] # "idle"}
      BY <2>2 DEF IInv, CallsMatch
    <3>2. IsFiniteSet({w \in RetryUsers : retry[w] # "idle"})
      BY FS_Subset
    <3>3. Cardinality({w \in RetryUsers : retry[w] # "idle"}) # 0
      BY <3>1, <3>2, FS_EmptySet
    <3> QED  BY <3>3, CountsAreNat DEF calls, CountNot
  <2> QED  BY <2>1, <2>2 DEF Users
<1>3. executions >= 1 /\ executions \in Nat
  BY <1>1, <1>2, CountsAreNat
<1>4. MostExecutions \in Nat
  BY Sizes DEF MostExecutions
<1> QED  BY <1>3, <1>4, FewExecutions

LEMMA BudgetedIsNat == Budgeted \in Nat /\ Budgeted >= minConcurrency
                       /\ Budgeted >= (maxRate * MostExecutions) \div 100 + 1
<1>1. MostExecutions \in Nat /\ maxRate \in Nat /\ minConcurrency \in Nat
  BY Sizes DEF MostExecutions
<1>2. maxRate * MostExecutions \in Nat
  BY <1>1
<1>3. ASSUME NEW n \in Nat PROVE n \div 100 \in Nat
  BY <1>3
<1>4. (maxRate * MostExecutions) \div 100 \in Nat
  BY <1>2, <1>3
<1> QED  BY <1>1, <1>4 DEF Budgeted

\* A check that lets a user pass found the budget not used up.
LEMMA RateChecked ==
  ASSUME IInv, NEW n \in 1..MostExecutions, ~RateExceeded(n)
  PROVE  inflight <= Budgeted - 1
<1>1. inflight \in Nat /\ MostExecutions \in Nat /\ maxRate \in Nat
  BY Sizes DEF IInv, TypeOK, MostExecutions
<1>2. 100 * inflight <= maxRate * n
  BY <1>1 DEF RateExceeded
<1>3. maxRate * n <= maxRate * MostExecutions
  BY <1>1
<1>4. maxRate * n \in Nat /\ maxRate * MostExecutions \in Nat
  BY <1>1
<1>5. ASSUME NEW a \in Nat, NEW b \in Nat, 100 * a <= b PROVE a <= b \div 100
  BY <1>5
<1>6. 100 * inflight <= maxRate * MostExecutions
  BY <1>1, <1>2, <1>3, <1>4
<1>7. inflight <= (maxRate * MostExecutions) \div 100
  BY <1>1, <1>4, <1>5, <1>6
<1>8. (maxRate * MostExecutions) \div 100 \in Int
  BY <1>4
<1> QED  BY <1>1, <1>7, <1>8, BudgetedIsNat

\* The steps as the overshoot sees them.
Passes(u) ==
  \/ LoadInflight(u) /\ inflight' = inflight /\ seen' = seen
  \/ LoadExecutions(u) \/ LoadRate(u) \/ AddInflight(u)
  \/ /\ acquire' = [acquire EXCEPT ![u] = "idle"] \/ acquire' = [acquire EXCEPT ![u] = "granted"]
     /\ inflight' = inflight /\ seen' = seen

Leaves == acquire' = acquire /\ seen' = seen /\ inflight' \in {inflight, inflight - 1}

LEMMA StepsSeen ==
  ASSUME IInv, [Next]_vars
  PROVE  Leaves \/ \E u \in Users : Passes(u)
<1>1. Hedger \in Users /\ RetryUsers \subseteq Users
  BY Finite
<1>2. ASSUME NEW u \in Users, TryAcquirePermit(u) PROVE Passes(u)
  BY <1>2 DEF TryAcquirePermit, AddExecutions, Passes
<1>3. CASE Start \/ TimerFires \/ Receive \/ AllReceived \/ CancelAttempt \/ AllCanceled \/ Return
  BY <1>3 DEF Leaves, Start, TimerFires, Receive, AllReceived, CancelAttempt, AllCanceled, Return, budgetVars
<1>4. CASE StartHedge \/ HedgeRejected
  BY <1>1, <1>4 DEF Passes, StartHedge, HedgeRejected
<1>5. CASE HedgeAcquires
  BY <1>1, <1>2, <1>5 DEF HedgeAcquires
<1>6. CASE CheckCanceled
  BY <1>1, <1>6 DEF CheckCanceled, Leaves, Passes
<1>7. ASSUME NEW i \in Attempts, FnStep(i) \/ SendResult(i) PROVE Leaves
  BY <1>7 DEF FnStep, FnReturns, SendResult, Leaves
<1>8. ASSUME NEW r \in {"nil", "timeout.ErrExceeded"}, CancelParent(r) PROVE Leaves
  BY <1>8 DEF CancelParent, Leaves, budgetVars
<1>9. ASSUME NEW u \in RetryUsers, OtherStarts(u) \/ OtherStep(u) PROVE Leaves \/ Passes(u)
  <2>1. CASE RetryStarts(u) \/ RetryReleases(u) \/ RetryReleased(u)
    BY <2>1 DEF RetryStarts, RetryReleases, RetryReleased, Leaves
  <2>2. CASE RetryAcquires(u) \/ RetryGranted(u)
    BY <2>2 DEF RetryAcquires, RetryGranted, Passes
  <2>3. CASE RetryEnds(u)
    BY <2>3 DEF RetryEnds, Leaves, Passes
  <2> QED  BY <1>1, <1>2, <1>9, <2>1, <2>2, <2>3 DEF OtherStarts, OtherStep, RetryStep
<1>10. CASE UNCHANGED vars
  BY <1>10 DEF vars, budgetVars, Leaves
<1> QED  BY <1>1, <1>3, <1>4, <1>5, <1>6, <1>7, <1>8, <1>9, <1>10 DEF Next, HedgeStep

PassedCounted(u, b) ==
  /\ passed' = passed + Is(b, "addInflight") - Is(acquire[u], "addInflight")
  /\ passed' <= Cardinality(Users)

LEMMA PassedMoves ==
  ASSUME TypeOK, NEW u \in Users, NEW b, acquire' = [acquire EXCEPT ![u] = b]
  PROVE  PassedCounted(u, b)
<1>1. Moved(Users, acquire, u, b, "addInflight")
  <2>1. acquire \in [Users -> Acquires] /\ Users \in SUBSET Users
    BY DEF TypeOK
  <2> QED  BY <2>1, Finite, CountMoves
<1>2. passed' = passed + Is(b, "addInflight") - Is(acquire[u], "addInflight")
  BY <1>1 DEF Moved, passed
<1>3. passed' <= Cardinality(Users)
  <2>1. {w \in Users : acquire'[w] = "addInflight"} \subseteq Users
    OBVIOUS
  <2> QED  BY <2>1, Finite, FS_Subset DEF passed, Count
<1> QED  BY <1>2, <1>3 DEF PassedCounted

LEMMA StepSeen == ASSUME IInv, SeenIsPossible, [Next]_vars PROVE SeenIsPossible'
<1>1. CASE Leaves
  BY <1>1 DEF Leaves, SeenIsPossible
<1>2. ASSUME NEW u \in Users, Passes(u) PROVE SeenIsPossible'
  <2>1. acquire \in [Users -> Acquires] /\ seen \in [Users -> Nat]
    BY DEF IInv, TypeOK
  <2>2. CASE LoadExecutions(u)
    <3>1. executions \in 1..MostExecutions
      BY <2>2, OwnExecution DEF LoadExecutions
    <3> QED  BY <2>1, <2>2, <3>1 DEF LoadExecutions, SeenIsPossible
  <2>3. CASE LoadRate(u)
    BY <2>1, <2>3 DEF LoadRate, SeenIsPossible
  <2>4. CASE ~LoadExecutions(u) /\ ~LoadRate(u)
    BY <1>2, <2>1, <2>4 DEF Passes, LoadInflight, AddInflight, SeenIsPossible
  <2> QED  BY <2>2, <2>3, <2>4
<1> QED  BY <1>1, <1>2, StepsSeen

LEMMA StepOvershoots == ASSUME IInv, SeenIsPossible, Overshoots, [Next]_vars PROVE Overshoots'
<1>1. inflight \in Nat /\ minConcurrency \in Nat
  BY DEF IInv, TypeOK
<1>2. PICK p \in Nat, q \in Nat, U \in Nat, B \in Nat :
        p = passed /\ q = passed' /\ U = Cardinality(Users) /\ B = Budgeted
  BY Finite, CountIsNat, Sizes, BudgetedIsNat DEF passed
<1>3. SUFFICES inflight' + q <= B + U - 1
  BY <1>2 DEF Overshoots, Budgeted, MostExecutions
<1>4. inflight + p <= B + U - 1
  BY <1>2 DEF Overshoots
<1>5. CASE Leaves
  <2>1. q = p
    BY <1>2, <1>5 DEF Leaves, passed, Count
  <2> QED  BY <1>1, <1>2, <1>4, <1>5, <2>1 DEF Leaves
<1>6. ASSUME NEW u \in Users, Passes(u) PROVE inflight' + q <= B + U - 1
  <2>1. TypeOK
    BY DEF IInv
  <2>2. ASSUME NEW b, acquire' = [acquire EXCEPT ![u] = b], inflight' = inflight, b # "addInflight"
        PROVE  inflight' + q <= B + U - 1
    <3>1. PassedCounted(u, b)
      BY <2>1, <2>2, PassedMoves
    <3>2. q = p - Is(acquire[u], "addInflight")
      BY <1>2, <2>2, <3>1 DEF PassedCounted, Is
    <3> QED  BY <1>1, <1>2, <1>4, <2>2, <3>2 DEF Is
  <2>3. ASSUME NEW b, acquire' = [acquire EXCEPT ![u] = b], inflight' = inflight, inflight <= B - 1
        PROVE  inflight' + q <= B + U - 1
    <3>1. PassedCounted(u, b)
      BY <2>1, <2>3, PassedMoves
    <3>2. q <= U
      BY <1>2, <3>1 DEF PassedCounted
    <3> QED  BY <1>1, <1>2, <2>3, <3>2
  <2>4. CASE LoadInflight(u) /\ inflight' = inflight
    <3>1. BelowMinConcurrency => inflight <= B - 1
      BY <1>1, <1>2, BudgetedIsNat DEF BelowMinConcurrency
    <3> QED  BY <2>2, <2>3, <2>4, <3>1 DEF LoadInflight
  <2>5. CASE LoadExecutions(u)
    BY <2>2, <2>5 DEF LoadExecutions
  <2>6. CASE LoadRate(u)
    <3>1. ~RateExceeded(seen[u]) => inflight <= B - 1
      BY <1>2, <2>6, RateChecked DEF LoadRate, SeenIsPossible
    <3> QED  BY <2>2, <2>3, <2>6, <3>1 DEF LoadRate
  <2>7. CASE AddInflight(u)
    <3>1. PassedCounted(u, "addExecutions")
      BY <2>1, <2>7, PassedMoves DEF AddInflight
    <3>2. q = p - 1 /\ inflight' = inflight + 1
      BY <1>2, <2>7, <3>1 DEF PassedCounted, AddInflight, Is
    <3> QED  BY <1>1, <1>2, <1>4, <3>2
  <2> QED  BY <1>6, <2>2, <2>4, <2>5, <2>6, <2>7 DEF Passes
<1> QED  BY <1>5, <1>6, StepsSeen

LEMMA InitOvershoots == Init => SeenIsPossible /\ Overshoots
<1> SUFFICES ASSUME Init PROVE SeenIsPossible /\ Overshoots
  OBVIOUS
<1>1. SeenIsPossible
  BY DEF Init, BudgetInit, SeenIsPossible
<1>2. {u \in Users : acquire[u] = "addInflight"} = {}
  BY DEF Init, BudgetInit
<1>3. passed = 0 /\ inflight = 0
  BY <1>2, FS_EmptySet DEF passed, Count, Init, BudgetInit
<1>4. Cardinality(Users) \in Nat /\ Cardinality(Users) >= 1 /\ Budgeted \in Nat
  BY Sizes, BudgetedIsNat
<1> QED  BY <1>1, <1>3, <1>4 DEF Overshoots

\* The unlocked check of TryAcquirePermit lets any number of executions through at once, but
\* the retries and hedges in flight exceed the budget by no more than one for each other user.
THEOREM OvershootIsBounded == Spec => []BudgetOvershootBounded
<1>1. IInv /\ Overshoots => BudgetOvershootBounded
  <2> SUFFICES ASSUME IInv, Overshoots PROVE BudgetOvershootBounded
    OBVIOUS
  <2>1. passed \in Nat /\ inflight \in Nat /\ Budgeted \in Nat /\ Cardinality(Users) \in Nat
    BY Finite, CountIsNat, Sizes, BudgetedIsNat DEF passed, IInv, TypeOK
  <2>2. inflight <= Budgeted + Cardinality(Users) - 1
    BY <2>1 DEF Overshoots
  <2> QED  BY <2>2 DEF BudgetOvershootBounded, Budgeted, MostExecutions
<1>2. IInv /\ SeenIsPossible /\ Overshoots /\ [Next]_vars => SeenIsPossible' /\ Overshoots'
  BY StepSeen, StepOvershoots
<1> QED  BY <1>1, <1>2, InitOvershoots, Invariance, PTL DEF Spec

=============================================================================
