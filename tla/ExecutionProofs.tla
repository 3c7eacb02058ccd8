--------------------------- MODULE ExecutionProofs ---------------------------
(***************************************************************************)
(* Proofs about Execution, for every stack of policies: type correctness   *)
(* with the shape of the context tree, what Attempts() counts, that no     *)
(* retry begins below a canceled context, that the answer of a timeout     *)
(* agrees with its listeners, that no timeout leaks its context, and that  *)
(* nested retry policies make no more attempts than the sum of their       *)
(* retries.                                                                *)
(***************************************************************************)
EXTENDS Execution, SequenceTheorems, WellFoundedInduction, TLAPS

USE ConfigAssumption

(***************************************************************************)
(* The context tree.  A context's ancestors include their own ancestors,   *)
(* which is what makes a cancellation reach all descendants in one step.   *)
(***************************************************************************)
CtxTree(cs) ==
    /\ cs \in Seq(Contexts)
    /\ \A i \in 1..Len(cs) : i \in cs[i].ancestors /\ cs[i].ancestors \subseteq 1..i
    /\ \A i, j \in 1..Len(cs) : i \in cs[j].ancestors => cs[i].ancestors \subseteq cs[j].ancestors
    /\ \A i, j \in 1..Len(cs) : i \in cs[j].ancestors /\ cs[i].done => cs[j].done

\* Two trees with the same contexts, which differ in timers and cancellations only.
SameShape(cs, ds) ==
    /\ Len(ds) = Len(cs)
    /\ \A i \in 1..Len(cs) : ds[i].ancestors = cs[i].ancestors

\* Canceling a context keeps the tree.
LEMMA CancelCtxTree ==
  ASSUME NEW cs, CtxTree(cs), NEW id
  PROVE  CtxTree(CancelCtx(cs, id)) /\ SameShape(cs, CancelCtx(cs, id))
<1> DEFINE ds == CancelCtx(cs, id)
<1>1. cs \in Seq(Contexts) /\ Len(cs) \in Nat /\ DOMAIN cs = 1..Len(cs)
  BY DEF CtxTree
<1>2. \A i \in 1..Len(cs) : cs[i] \in Contexts
  BY <1>1
<1>3. \A i \in 1..Len(cs) : /\ ds[i] \in Contexts
                            /\ ds[i].ancestors = cs[i].ancestors
                            /\ ds[i].done = (cs[i].done \/ id \in cs[i].ancestors)
  BY <1>1, <1>2 DEF CancelCtx, Contexts
<1>4. ds \in [1..Len(cs) -> Contexts]
  BY <1>1, <1>3 DEF CancelCtx
<1>5. ds \in Seq(Contexts) /\ Len(ds) = Len(cs)
  BY <1>1, <1>4
<1> HIDE DEF ds
<1>6. CtxTree(ds)
  BY <1>3, <1>5 DEF CtxTree
<1> QED  BY <1>3, <1>5, <1>6 DEF SameShape, ds

\* So does a change of a timer.
LEMMA SetTimerTree ==
  ASSUME NEW cs, CtxTree(cs), NEW id \in 1..Len(cs), NEW t \in Timers
  PROVE  CtxTree([cs EXCEPT ![id].timer = t]) /\ SameShape(cs, [cs EXCEPT ![id].timer = t])
<1> DEFINE ds == [cs EXCEPT ![id].timer = t]
<1>1. cs \in Seq(Contexts) /\ Len(cs) \in Nat /\ DOMAIN cs = 1..Len(cs)
  BY DEF CtxTree
<1>2. \A i \in 1..Len(cs) : cs[i] \in Contexts
  BY <1>1
<1>3. \A i \in 1..Len(cs) : /\ ds[i] \in Contexts
                            /\ ds[i].ancestors = cs[i].ancestors
                            /\ ds[i].done = cs[i].done
  BY <1>1, <1>2 DEF Contexts
<1>4. ds \in [1..Len(cs) -> Contexts]
  BY <1>1, <1>3
<1>5. ds \in Seq(Contexts) /\ Len(ds) = Len(cs)
  BY <1>1, <1>4
<1> HIDE DEF ds
<1>6. CtxTree(ds)
  BY <1>3, <1>5 DEF CtxTree
<1> QED  BY <1>3, <1>5, <1>6 DEF SameShape, ds

\* A child context that is added to the tree.
LEMMA ChildCtxTree ==
  ASSUME CtxTree(ctxs), NEW p \in 1..Len(ctxs)
  PROVE  LET ds == Append(ctxs, ChildCtx(p))
         IN  /\ CtxTree(ds)
             /\ Len(ds) = Len(ctxs) + 1
             /\ \A i \in 1..Len(ctxs) : ds[i] = ctxs[i]
             /\ ds[Len(ctxs) + 1].ancestors = ctxs[p].ancestors \cup {Len(ctxs) + 1}
<1> DEFINE n  == Len(ctxs)
           c  == ChildCtx(p)
           ds == Append(ctxs, c)
<1>1. ctxs \in Seq(Contexts) /\ n \in Nat
  BY DEF CtxTree
<1>2. \A i \in 1..n : ctxs[i] \in Contexts
  BY <1>1
<1>3. ctxs[p].ancestors \subseteq 1..n /\ ctxs[p].done \in BOOLEAN
  BY <1>1, <1>2 DEF CtxTree, Contexts
<1>4. c.ancestors = ctxs[p].ancestors \cup {n + 1} /\ c.done = ctxs[p].done
  BY DEF ChildCtx
<1>5. c.ancestors \subseteq 1..(n + 1)
  BY <1>1, <1>3, <1>4
<1>6. c \in Contexts
  <2>1. c.ancestors \in SUBSET Nat
    BY <1>1, <1>5
  <2> QED  BY <2>1, <1>3, <1>4 DEF ChildCtx, Contexts, Timers
<1> HIDE DEF c
<1>7. /\ ds \in Seq(Contexts) /\ Len(ds) = n + 1
      /\ \A i \in 1..n : ds[i] = ctxs[i]
      /\ ds[n + 1] = c
  BY <1>1, <1>6
<1> HIDE DEF ds
<1>8. CtxTree(ds)
  <2>1. \A i \in 1..Len(ds) : i \in ds[i].ancestors /\ ds[i].ancestors \subseteq 1..i
    BY <1>1, <1>4, <1>5, <1>7 DEF CtxTree
  <2>2. \A i \in 1..n : i \in c.ancestors => ctxs[i].ancestors \subseteq c.ancestors
    BY <1>1, <1>4 DEF CtxTree
  <2>3. \A i \in 1..n : i \in c.ancestors /\ ctxs[i].done => c.done
    BY <1>1, <1>4 DEF CtxTree
  <2>4. \A j \in 1..n : n + 1 \notin ctxs[j].ancestors
    BY <1>1 DEF CtxTree
  <2>5. \A i, j \in 1..Len(ds) : i \in ds[j].ancestors => ds[i].ancestors \subseteq ds[j].ancestors
    <3> SUFFICES ASSUME NEW i \in 1..(n + 1), NEW j \in 1..(n + 1), i \in ds[j].ancestors
                 PROVE  ds[i].ancestors \subseteq ds[j].ancestors
      BY <1>7
    <3>1. CASE i \in 1..n /\ j \in 1..n
      BY <1>7, <3>1 DEF CtxTree
    <3>2. CASE i \in 1..n /\ j = n + 1
      BY <1>7, <2>2, <3>2
    <3>3. CASE i = n + 1
      BY <1>1, <1>7, <2>4, <3>3
    <3> QED  BY <1>1, <3>1, <3>2, <3>3
  <2>6. \A i, j \in 1..Len(ds) : i \in ds[j].ancestors /\ ds[i].done => ds[j].done
    <3> SUFFICES ASSUME NEW i \in 1..(n + 1), NEW j \in 1..(n + 1),
                        i \in ds[j].ancestors, ds[i].done
                 PROVE  ds[j].done
      BY <1>7
    <3>1. CASE i \in 1..n /\ j \in 1..n
      BY <1>7, <3>1 DEF CtxTree
    <3>2. CASE i \in 1..n /\ j = n + 1
      BY <1>7, <2>3, <3>2
    <3>3. CASE i = n + 1
      BY <1>1, <1>7, <2>4, <3>3
    <3> QED  BY <1>1, <3>1, <3>2, <3>3
  <2> QED  BY <1>7, <2>1, <2>5, <2>6 DEF CtxTree
<1> QED  BY <1>4, <1>7, <1>8 DEF ds, c

-----------------------------------------------------------------------------
(***************************************************************************)
(* PolicyResults.                                                          *)
(***************************************************************************)
\* Every operation on results returns a result.
LEMMA ResultTypes ==
  /\ \A v \in Values : FnResult(v) \in Results /\ FailureResult(v) \in Results
  /\ \A v \in {"fallbackOk", "fallbackFail"} : FallbackResult(v) \in Results
  /\ \A r \in Results : WithFailure(r) \in Results
  /\ \A r \in Results, d \in BOOLEAN, s \in BOOLEAN : WithDone(r, d, s) \in Results
<1>1. \A v \in Values : FnResult(v) \in Results /\ FailureResult(v) \in Results
  BY DEF Results, FnResult, FailureResult
<1>2. \A v \in {"fallbackOk", "fallbackFail"} : FallbackResult(v) \in Results
  BY DEF Results, Values, FallbackResult
<1>3. \A r \in Results : WithFailure(r) \in Results
  BY DEF Results, WithFailure
<1>4. \A r \in Results, d \in BOOLEAN, s \in BOOLEAN : WithDone(r, d, s) \in Results
  BY DEF Results, WithDone
<1> QED  BY <1>1, <1>2, <1>3, <1>4

\* The result of a cancellation.
LEMMA CancelResultType ==
  ASSUME canceledResult \in Values \cup {"nil"}
  PROVE  CancelResult \in Results
BY ResultTypes DEF CancelResult, Values

-----------------------------------------------------------------------------
(***************************************************************************)
(* The inductive invariant.  Chain: along the levels that the goroutine    *)
(* has gone down, every context is an ancestor of the ones further down.   *)
(* PassedOn: a policy other than a timeout has passed its context on, so a *)
(* retry goes down again with the context that it checks.                  *)
(***************************************************************************)
CtxOK ==
    /\ policies \in Seq(Policies) /\ mode \in Modes
    /\ CtxTree(ctxs)
    /\ levelCtx \in [1..Depth + 1 -> 1..Len(ctxs)]
    /\ deferred \subseteq 1..Len(ctxs)
    /\ cancelling \subseteq 1..Len(ctxs)

FlowOK ==
    /\ at \in 0..Depth + 1
    /\ step \in Steps
    /\ result \in Results
    /\ canceledResult \in Values \cup {"nil"}

ActorsOK ==
    /\ failedAttempts \in [1..Depth -> Nat]
    /\ retriesExceeded \in [1..Depth -> BOOLEAN]
    /\ deferCancel \in BOOLEAN
    /\ cancelPc \in {"idle", "resultSet", "returned"}

CountsOK ==
    /\ attempts \in Nat /\ retries \in Nat /\ executions \in Nat /\ blocked \in Nat
    /\ AttemptsMatchExecutions

Chain ==
    \A i, j \in 1..Depth + 1 :
        i <= j /\ j <= at => levelCtx[i] \in ctxs[levelCtx[j]].ancestors

PassedOn ==
    \A l \in 1..Depth :
        policies[l].kind # "timeout" /\ (l < at \/ (l = at /\ step # "enter")) =>
            levelCtx[l + 1] = levelCtx[l]

IInv == CtxOK /\ FlowOK /\ ActorsOK /\ CountsOK /\ Chain /\ PassedOn

\* The depth of a stack.
LEMMA DepthType == ASSUME policies \in Seq(Policies) PROVE Depth \in Nat
BY LenProperties DEF Depth

\* The invariant includes the type invariant.
LEMMA IInvTypeOK == IInv => TypeOK
BY DEF IInv, CtxOK, CtxTree, FlowOK, ActorsOK, CountsOK, TypeOK

\* The start of an execution.
LEMMA InitIInv == Init => IInv
<1> SUFFICES ASSUME Init PROVE IInv
  OBVIOUS
<1>1. policies \in Seq(Policies) /\ mode \in Modes /\ Depth \in Nat
  BY DepthType DEF Init
<1>2. CtxTree(ctxs) /\ RootCtx \in 1..Len(ctxs) /\ RootCtx \in ctxs[RootCtx].ancestors
  <2>1. CASE mode.async
    <3>1. ctxs = <<[ancestors |-> {1}, done |-> FALSE, timer |-> "none"],
                   [ancestors |-> {1, 2}, done |-> FALSE, timer |-> "none"]>>
      BY <2>1 DEF Init
    <3>2. ctxs \in Seq(Contexts) /\ Len(ctxs) = 2
      BY <3>1 DEF Contexts, Timers
    <3>3. \A i \in 1..2 : ctxs[i].ancestors = 1..i /\ ctxs[i].done = FALSE
      <4>1. ctxs[1].ancestors = 1..1 /\ ctxs[2].ancestors = 1..2
        BY <3>1
      <4>2. ctxs[1].done = FALSE /\ ctxs[2].done = FALSE
        BY <3>1
      <4>3. \A i \in 1..2 : i = 1 \/ i = 2
        OBVIOUS
      <4> QED  BY <4>1, <4>2, <4>3
    <3> QED  BY <2>1, <3>2, <3>3 DEF CtxTree, RootCtx
  <2>2. CASE ~mode.async
    <3>1. ctxs = <<[ancestors |-> {1}, done |-> FALSE, timer |-> "none"]>>
      BY <2>2 DEF Init
    <3>2. ctxs \in Seq(Contexts) /\ Len(ctxs) = 1
      BY <3>1 DEF Contexts, Timers
    <3> QED  BY <2>2, <3>1, <3>2 DEF CtxTree, RootCtx
  <2> QED  BY <2>1, <2>2
<1>3. levelCtx \in [1..Depth + 1 -> 1..Len(ctxs)] /\ \A l \in 1..Depth + 1 : levelCtx[l] = RootCtx
  BY <1>2 DEF Init, Depth
<1>4. CtxOK
  BY <1>1, <1>2, <1>3 DEF Init, CtxOK
<1>5. FlowOK
  BY <1>1, ResultTypes DEF Init, FlowOK, Steps, Values
<1>6. ActorsOK
  BY DEF Init, ActorsOK, Depth
<1>7. CountsOK
  BY DEF Init, CountsOK, AttemptsMatchExecutions
<1>8. Chain /\ PassedOn
  BY <1>1, <1>2, <1>3 DEF Chain, PassedOn
<1> QED  BY <1>4, <1>5, <1>6, <1>7, <1>8 DEF IInv

(***************************************************************************)
(* Steps that stay at a level or go up.                                    *)
(***************************************************************************)
\* The levels' contexts and the chain, when the goroutine does not go down.
LEMMA LevelsKept ==
  ASSUME IInv, policies' = policies, mode' = mode, levelCtx' = levelCtx, CtxTree(ctxs'), SameShape(ctxs, ctxs'),
         deferred' \subseteq 1..Len(ctxs), cancelling' \subseteq 1..Len(ctxs),
         at' \in 0..Depth + 1,
         at' < at \/ (at' = at /\ (step' = step \/ step # "enter"))
  PROVE  CtxOK' /\ Chain' /\ PassedOn'
<1>1. Depth' = Depth /\ Depth \in Nat /\ at \in 0..Depth + 1
  BY DepthType DEF IInv, CtxOK, FlowOK, Depth
<1>2. CtxOK'
  BY <1>1 DEF IInv, CtxOK, SameShape
<1>3. Chain'
  <2> SUFFICES ASSUME NEW i \in 1..Depth + 1, NEW j \in 1..Depth + 1, i <= j, j <= at'
               PROVE  levelCtx[i] \in ctxs'[levelCtx[j]].ancestors
    BY <1>1 DEF Chain
  <2>1. levelCtx[i] \in ctxs[levelCtx[j]].ancestors
    <3>1. j <= at
      BY <1>1
    <3> QED  BY <3>1 DEF IInv, Chain
  <2>2. levelCtx[j] \in 1..Len(ctxs)
    BY DEF IInv, CtxOK
  <2> QED  BY <2>1, <2>2 DEF SameShape
<1>4. PassedOn'
  BY <1>1 DEF IInv, PassedOn
<1> QED  BY <1>2, <1>3, <1>4

\* A policy that answers.
LEMMA ExitKept ==
  ASSUME IInv, NEW r \in Results, Exit(r), at \in 1..Depth + 1,
         policies' = policies, mode' = mode, levelCtx' = levelCtx,
         CtxTree(ctxs'), SameShape(ctxs, ctxs'),
         deferred' \subseteq 1..Len(ctxs), cancelling' \subseteq 1..Len(ctxs),
         canceledResult' \in Values \cup {"nil"}
  PROVE  CtxOK' /\ FlowOK' /\ Chain' /\ PassedOn' /\ step' = "exit"
<1>1. Depth' = Depth /\ Depth \in Nat
  BY DepthType DEF IInv, CtxOK, Depth
<1>2. at' \in 0..Depth + 1 /\ at' < at
  BY <1>1 DEF Exit
<1>3. FlowOK'
  BY <1>1, <1>2 DEF Exit, FlowOK, Steps
<1>4. CtxOK' /\ Chain' /\ PassedOn'
  BY <1>2, LevelsKept
<1> QED  BY <1>3, <1>4 DEF Exit

\* The tree of contexts is one that has its own shape.
LEMMA SameTree == ASSUME IInv, UNCHANGED ctxs PROVE CtxTree(ctxs') /\ SameShape(ctxs, ctxs')
BY DEF IInv, CtxOK, SameShape

\* A policy, and any other actor, that does not touch what the invariant says of the others.
LEMMA ActorsKept ==
  ASSUME IInv, policies' = policies, mode' = mode,
         UNCHANGED <<failedAttempts, retriesExceeded>>, deferCancel' \in BOOLEAN,
         cancelPc' \in {"idle", "resultSet", "returned"}
  PROVE  ActorsOK'
BY DEF IInv, ActorsOK, Depth

-----------------------------------------------------------------------------
(***************************************************************************)
(* The way in.                                                             *)
(***************************************************************************)
\* A policy that passes its execution on.
LEMMA EnterPolicyStep == IInv /\ EnterPolicy => IInv'
<1> SUFFICES ASSUME IInv, EnterPolicy PROVE IInv'
  OBVIOUS
<1>1. Depth' = Depth /\ Depth \in Nat /\ at \in 1..Depth
  BY DepthType DEF IInv, CtxOK, Depth, EnterPolicy
<1>2. CtxOK'
  BY <1>1 DEF IInv, CtxOK, EnterPolicy, deferVars
<1>3. FlowOK'
  BY <1>1 DEF IInv, FlowOK, EnterPolicy
<1>4. ActorsOK' /\ CountsOK'
  BY <1>1 DEF IInv, ActorsOK, CountsOK, AttemptsMatchExecutions, EnterPolicy, retryVars, counters,
              deferVars
<1>5. /\ levelCtx' \in [1..Depth + 1 -> 1..Len(ctxs)]
      /\ levelCtx'[at + 1] = levelCtx[at]
      /\ \A l \in 1..at : levelCtx'[l] = levelCtx[l]
  BY <1>1 DEF IInv, CtxOK, EnterPolicy
<1>6. Chain'
  <2>1. \A i, j \in 1..at : i <= j => levelCtx'[i] \in ctxs[levelCtx'[j]].ancestors
    BY <1>1, <1>5 DEF IInv, Chain
  <2>2. levelCtx[at] \in ctxs[levelCtx[at]].ancestors
    BY <1>1 DEF IInv, Chain
  <2> QED  BY <1>1, <1>5, <2>1, <2>2 DEF Chain, EnterPolicy
<1>7. PassedOn'
  BY <1>1, <1>5 DEF IInv, PassedOn, EnterPolicy
<1> QED  BY <1>2, <1>3, <1>4, <1>6, <1>7 DEF IInv

\* A timeout that makes a child context.
LEMMA EnterTimeoutStep == IInv /\ EnterTimeout => IInv'
<1> SUFFICES ASSUME IInv, EnterTimeout PROVE IInv'
  OBVIOUS
<1>1. Depth' = Depth /\ Depth \in Nat /\ at \in 1..Depth /\ step = "enter"
  BY DepthType DEF IInv, CtxOK, Depth, EnterTimeout, AtPolicy
<1>2. levelCtx[at] \in 1..Len(ctxs) /\ Len(ctxs) \in Nat
  <2>1. ctxs \in Seq(Contexts)
    BY DEF IInv, CtxOK, CtxTree
  <2>2. at \in 1..Depth + 1
    BY <1>1
  <2> QED  BY <2>1, <2>2, LenProperties DEF IInv, CtxOK
<1>3. /\ CtxTree(ctxs')
      /\ Len(ctxs') = Len(ctxs) + 1
      /\ \A i \in 1..Len(ctxs) : ctxs'[i] = ctxs[i]
      /\ ctxs'[Len(ctxs) + 1].ancestors = ctxs[levelCtx[at]].ancestors \cup {Len(ctxs) + 1}
  BY <1>2, ChildCtxTree DEF IInv, CtxOK, EnterTimeout
<1>4. /\ levelCtx' \in [1..Depth + 1 -> 1..Len(ctxs')]
      /\ levelCtx'[at + 1] = Len(ctxs) + 1
      /\ \A l \in 1..at : levelCtx'[l] = levelCtx[l] /\ levelCtx[l] \in 1..Len(ctxs)
  <2>1. levelCtx \in [1..Depth + 1 -> 1..Len(ctxs)]
    BY DEF IInv, CtxOK
  <2>2. levelCtx' = [levelCtx EXCEPT ![at + 1] = Len(ctxs) + 1]
    BY DEF EnterTimeout
  <2>3. at + 1 \in 1..Depth + 1 /\ at \in Nat
    BY <1>1
  <2>4. 1..Len(ctxs) \subseteq 1..Len(ctxs') /\ Len(ctxs) + 1 \in 1..Len(ctxs')
    BY <1>2, <1>3
  <2>5. levelCtx' \in [1..Depth + 1 -> 1..Len(ctxs')]
    BY <2>1, <2>2, <2>4
  <2>6. \A l \in 1..at : l \in 1..Depth + 1 /\ l # at + 1
    BY <1>1
  <2> QED  BY <2>1, <2>2, <2>3, <2>5, <2>6
<1>5. CtxOK'
  BY <1>1, <1>2, <1>3, <1>4 DEF IInv, CtxOK, EnterTimeout, deferVars
<1>6. FlowOK'
  BY <1>1 DEF IInv, FlowOK, EnterTimeout
<1>7. ActorsOK' /\ CountsOK'
  BY <1>1 DEF IInv, ActorsOK, CountsOK, AttemptsMatchExecutions, EnterTimeout, retryVars, counters,
              deferVars
<1>8. Chain'
  <2>1. \A i, j \in 1..at : i <= j => levelCtx'[i] \in ctxs'[levelCtx'[j]].ancestors
    <3>1. \A i, j \in 1..at : i <= j => levelCtx[i] \in ctxs[levelCtx[j]].ancestors
      BY <1>1 DEF IInv, Chain
    <3> QED  BY <1>3, <1>4, <3>1
  <2>2. \A i \in 1..at : levelCtx[i] \in ctxs[levelCtx[at]].ancestors
    BY <1>1 DEF IInv, Chain
  <2>3. \A i \in 1..at : levelCtx'[i] \in ctxs'[levelCtx'[at + 1]].ancestors
    BY <1>3, <1>4, <2>2
  <2>4. levelCtx'[at + 1] \in ctxs'[levelCtx'[at + 1]].ancestors
    BY <1>3, <1>4
  <2>5. \A i, j \in 1..(at + 1) : i <= j => levelCtx'[i] \in ctxs'[levelCtx'[j]].ancestors
    <3> SUFFICES ASSUME NEW i \in 1..(at + 1), NEW j \in 1..(at + 1), i <= j
                 PROVE  levelCtx'[i] \in ctxs'[levelCtx'[j]].ancestors
      OBVIOUS
    <3>1. CASE j \in 1..at
      BY <1>1, <2>1, <3>1
    <3>2. CASE j = at + 1 /\ i \in 1..at
      BY <2>3, <3>2
    <3>3. CASE j = at + 1 /\ i = at + 1
      BY <2>4, <3>3
    <3> QED  BY <1>1, <3>1, <3>2, <3>3
  <2>6. at' = at + 1
    BY DEF EnterTimeout
  <2> QED  BY <1>1, <2>5, <2>6 DEF Chain
<1>9. PassedOn'
  BY <1>1, <1>4 DEF IInv, PassedOn, EnterTimeout, AtPolicy
<1> QED  BY <1>5, <1>6, <1>7, <1>8, <1>9 DEF IInv

\* An attempt that a policy keeps from being executed.
LEMMA BlockedStep == IInv /\ Blocked => IInv'
<1> SUFFICES ASSUME IInv, Blocked PROVE IInv'
  OBVIOUS
<1>1. Depth \in Nat /\ at \in 1..Depth + 1
  BY DepthType DEF IInv, CtxOK, Blocked
<1>2. PreExecute \in Results
  BY ResultTypes, CancelResultType
     DEF IInv, FlowOK, Blocked, PreExecute, BulkheadPreExecute, CachePreExecute, Values
<1>3. CtxOK' /\ FlowOK' /\ Chain' /\ PassedOn' /\ step' = "exit"
  BY <1>1, <1>2, SameTree, ExitKept DEF IInv, CtxOK, FlowOK, Blocked, deferVars
<1>4. ActorsOK'
  BY ActorsKept DEF IInv, ActorsOK, Blocked, retryVars, deferVars
<1>5. CountsOK'
  BY <1>3 DEF IInv, CountsOK, AttemptsMatchExecutions, Blocked
<1> QED  BY <1>3, <1>4, <1>5 DEF IInv

\* The user's function.
LEMMA FnStepInv == IInv /\ FnStep => IInv'
<1> SUFFICES ASSUME IInv, NEW v \in FnValues \cup {"ctx.Err"}, NEW defers \in BOOLEAN, FnReturns(v, defers)
             PROVE  IInv'
  BY DEF FnStep
<1>1. Depth \in Nat /\ at \in 1..Depth + 1
  BY DepthType DEF IInv, CtxOK, FnReturns
<1>2. FnResult(v) \in Results
  BY ResultTypes DEF Values
<1>3. deferred' \subseteq 1..Len(ctxs) /\ cancelling' \subseteq 1..Len(ctxs)
  BY <1>1 DEF IInv, CtxOK, FnReturns, FnCtx
<1>4. CtxOK' /\ FlowOK' /\ Chain' /\ PassedOn' /\ step' = "exit"
  BY <1>1, <1>2, <1>3, SameTree, ExitKept DEF IInv, FlowOK, FnReturns
<1>5. ActorsOK'
  BY ActorsKept DEF IInv, ActorsOK, FnReturns, retryVars
<1>6. CountsOK'
  BY <1>4 DEF IInv, CountsOK, AttemptsMatchExecutions, FnReturns
<1> QED  BY <1>4, <1>5, <1>6 DEF IInv

-----------------------------------------------------------------------------
(***************************************************************************)
(* Timers and the timeout executor.                                        *)
(***************************************************************************)
\* Steps that change the contexts, and perhaps canceledResult and deferVars, of a goroutine that
\* stays where it is.
LEMMA GoroutineStays ==
  ASSUME IInv, UNCHANGED <<policies, mode, levelCtx, at, result, failedAttempts, retriesExceeded>>,
         UNCHANGED <<attempts, retries, executions, blocked>>,
         step' = step \/ (step = "exit" /\ step' = "done"),
         CtxTree(ctxs'), SameShape(ctxs, ctxs'),
         deferred' \subseteq 1..Len(ctxs), cancelling' \subseteq 1..Len(ctxs),
         deferCancel' \in BOOLEAN, cancelPc' \in {"idle", "resultSet", "returned"},
         canceledResult' \in Values \cup {"nil"}
  PROVE  IInv'
<1>1. Depth' = Depth /\ Depth \in Nat /\ at \in 0..Depth + 1
  BY DepthType DEF IInv, CtxOK, FlowOK, Depth
<1>2. CtxOK' /\ Chain' /\ PassedOn'
  BY <1>1, LevelsKept
<1>3. FlowOK'
  BY <1>1 DEF IInv, FlowOK, Steps
<1>4. ActorsOK'
  BY ActorsKept
<1>5. CountsOK'
  BY DEF IInv, CountsOK, AttemptsMatchExecutions
<1> QED  BY <1>2, <1>3, <1>4, <1>5 DEF IInv

\* A policy that answers without counting anything.
LEMMA PolicyAnswers ==
  ASSUME IInv, NEW r \in Results, Exit(r), at \in 1..Depth, step # "enter",
         UNCHANGED <<policies, mode, levelCtx, attempts, retries, executions, blocked>>,
         CtxTree(ctxs'), SameShape(ctxs, ctxs'),
         UNCHANGED <<deferCancel, deferred, cancelling, cancelPc, canceledResult>>,
         ActorsOK'
  PROVE  IInv'
<1>1. Depth \in Nat /\ at \in 1..Depth + 1
  BY DepthType DEF IInv, CtxOK
<1>2. CtxOK' /\ FlowOK' /\ Chain' /\ PassedOn' /\ step' = "exit"
  BY <1>1, ExitKept DEF IInv, CtxOK, FlowOK
<1>3. CountsOK'
  BY <1>2 DEF IInv, CountsOK, AttemptsMatchExecutions
<1> QED  BY <1>2, <1>3 DEF IInv

\* The timer's callback, in its two steps.
LEMMA TimerStepInv == IInv /\ TimerStep => IInv'
<1> SUFFICES ASSUME IInv, NEW id \in 1..Len(ctxs), TimerWins(id) \/ TimerCancels(id)
             PROVE  IInv'
  BY DEF TimerStep
<1>1. CtxTree(ctxs) /\ "won" \in Timers /\ "fired" \in Timers
  BY DEF IInv, CtxOK, Timers
<1>2. CASE TimerWins(id)
  <2>1. CtxTree(ctxs') /\ SameShape(ctxs, ctxs')
    BY <1>1, <1>2, SetTimerTree DEF TimerWins
  <2> QED  BY <1>2, <2>1, GoroutineStays
           DEF IInv, CtxOK, FlowOK, ActorsOK, TimerWins, retryVars, counters, deferVars
<1>3. CASE TimerCancels(id)
  <2> DEFINE cs == [ctxs EXCEPT ![id].timer = "fired"]
  <2>1. CtxTree(cs) /\ SameShape(ctxs, cs)
    BY <1>1, SetTimerTree
  <2>2. CtxTree(CancelCtx(cs, id)) /\ SameShape(cs, CancelCtx(cs, id))
    BY <2>1, CancelCtxTree
  <2>3. ctxs' = cs \/ ctxs' = CancelCtx(cs, id)
    BY <1>3 DEF TimerCancels
  <2> HIDE DEF cs
  <2>4. CtxTree(ctxs') /\ SameShape(ctxs, ctxs')
    BY <2>1, <2>2, <2>3 DEF SameShape
  <2>5. canceledResult' \in Values \cup {"nil"}
    BY <1>3 DEF IInv, FlowOK, TimerCancels, Values
  <2> QED  BY <1>3, <2>4, <2>5, GoroutineStays
           DEF IInv, CtxOK, ActorsOK, TimerCancels, retryVars, counters, deferVars
<1> QED  BY <1>2, <1>3

\* Cancel(nil) keeps the tree, whether it cancels or not.
LEMMA CancelWithoutResultTree ==
  ASSUME NEW cs, CtxTree(cs), NEW id
  PROVE  CtxTree(CancelWithoutResult(cs, id)) /\ SameShape(cs, CancelWithoutResult(cs, id))
BY CancelCtxTree DEF CancelWithoutResult, SameShape

\* A timeout that answers.
LEMMA ExitTimeoutStep == IInv /\ ExitTimeout => IInv'
<1> SUFFICES ASSUME IInv, ExitTimeout PROVE IInv'
  OBVIOUS
<1> DEFINE id == levelCtx[at + 1]
           cs == [ctxs EXCEPT ![id].timer = "stopped"]
           r  == TimeoutPostExecute(TimeoutAnswer(id))
<1>1. Depth \in Nat /\ at \in 1..Depth /\ step # "enter"
  BY DepthType DEF IInv, CtxOK, ExitTimeout, AtPolicy
<1>2. id \in 1..Len(ctxs)
  BY <1>1 DEF IInv, CtxOK
<1>3. TimeoutAnswer(id) \in Results
  BY ResultTypes DEF IInv, FlowOK, TimeoutAnswer, Values
<1>4. r \in Results
  BY <1>3, ResultTypes DEF TimeoutPostExecute
<1>5. CtxTree(cs) /\ SameShape(ctxs, cs)
  BY <1>2, SetTimerTree DEF IInv, CtxOK, Timers
<1>6. ctxs' = CancelWithoutResult(cs, id) \/ ctxs' = ctxs
  BY DEF ExitTimeout
<1>7. Exit(r)
  BY DEF ExitTimeout
<1> HIDE DEF cs, r, id
<1>8. CtxTree(ctxs') /\ SameShape(ctxs, ctxs')
  BY <1>5, <1>6, CancelWithoutResultTree, SameTree DEF SameShape
<1>9. ActorsOK'
  BY ActorsKept DEF IInv, ActorsOK, ExitTimeout, retryVars, deferVars
<1> QED  BY <1>1, <1>4, <1>7, <1>8, <1>9, PolicyAnswers DEF ExitTimeout, counters, deferVars

-----------------------------------------------------------------------------
(***************************************************************************)
(* The other executors.                                                    *)
(***************************************************************************)
\* The retry executor, after the inner function.
LEMMA ExitRetryStep == IInv /\ ExitRetry => IInv'
<1> SUFFICES ASSUME IInv, ExitRetry PROVE IInv'
  OBVIOUS
<1>1. Depth' = Depth /\ Depth \in Nat /\ at \in 1..Depth /\ at \in 0..Depth + 1 /\ step = "exit"
  BY DepthType DEF IInv, CtxOK, ExitRetry, AtPolicy, Depth
<1>2. result \in Results /\ CancelResult \in Results /\ WithDone(result, TRUE, TRUE) \in Results
  BY ResultTypes, CancelResultType DEF IInv, FlowOK
<1>3. UNCHANGED <<policies, mode, ctxs, levelCtx, canceledResult, attempts, retries, executions, blocked,
                  deferCancel, deferred, cancelling, cancelPc>>
  BY DEF ExitRetry, counters, deferVars
<1>4. CtxTree(ctxs') /\ SameShape(ctxs, ctxs')
  BY <1>3, SameTree
<1>5. CASE UNCHANGED retryVars /\ \E r \in Results : Exit(r)
  <2>1. ActorsOK'
    BY <1>3, <1>5, ActorsKept DEF IInv, ActorsOK, retryVars
  <2> QED  BY <1>1, <1>3, <1>4, <1>5, <2>1, PolicyAnswers
<1>6. CASE \E tooLong \in BOOLEAN : RetryOnFailure(tooLong)
  <2>1. PICK tooLong \in BOOLEAN : RetryOnFailure(tooLong)
    BY <1>6
  <2> DEFINE p         == policies[at]
             failed    == failedAttempts[at] + 1
             exceeded  == RetriesUsedUp(failed, p) \/ tooLong
             done      == result.val \in p.abortOn \/ exceeded \/ p.maxRetries = 0
             answer    == IF exceeded /\ ~p.returnLastFailure
                          THEN FailureResult("retrypolicy.ExceededError")
                          ELSE WithDone(result, done, FALSE)
  <2>2. /\ failedAttempts' = [failedAttempts EXCEPT ![at] = failed]
        /\ retriesExceeded' = [retriesExceeded EXCEPT ![at] = exceeded]
        /\ Exit(answer) \/ (result' = answer /\ step' = "retryRecord" /\ at' = at)
    BY <2>1 DEF RetryOnFailure
  <2>3. failed \in Nat
    BY <1>1 DEF IInv, ActorsOK
  <2>4. exceeded \in BOOLEAN /\ done \in BOOLEAN
    BY DEF RetriesUsedUp
  <2>5. answer \in Results
    BY <1>2, <2>4, ResultTypes DEF Values
  <2> HIDE DEF failed, exceeded, done, answer
  <2>6. ActorsOK'
    BY <1>1, <1>3, <2>2, <2>3, <2>4 DEF IInv, ActorsOK
  <2>7. CASE Exit(answer)
    BY <1>1, <1>3, <1>4, <2>5, <2>6, <2>7, PolicyAnswers
  <2>8. CASE result' = answer /\ step' = "retryRecord" /\ at' = at
    <3>1. CtxOK' /\ Chain' /\ PassedOn'
      BY <1>1, <1>3, <1>4, <2>8, LevelsKept DEF IInv, CtxOK
    <3>2. FlowOK'
      BY <1>1, <1>3, <2>5, <2>8 DEF IInv, FlowOK, Steps
    <3>3. CountsOK'
      BY <1>1, <1>3, <2>8 DEF IInv, CountsOK, AttemptsMatchExecutions
    <3> QED  BY <2>6, <3>1, <3>2, <3>3 DEF IInv
  <2> QED  BY <2>2, <2>7, <2>8
<1> QED  BY <1>2, <1>5, <1>6 DEF ExitRetry

\* RecordResult.
LEMMA RecordResultStep == IInv /\ RecordResult => IInv'
<1> SUFFICES ASSUME IInv, RecordResult PROVE IInv'
  OBVIOUS
<1>1. /\ Depth' = Depth /\ Depth \in Nat /\ at \in 1..Depth /\ at \in 0..Depth + 1
      /\ step = "retryRecord"
  BY DepthType DEF IInv, CtxOK, RecordResult, AtPolicy, Depth
<1>2. CancelResult \in Results
  BY CancelResultType DEF IInv, FlowOK
<1>3. UNCHANGED <<policies, mode, ctxs, levelCtx, canceledResult, attempts, retries, executions, blocked,
                  failedAttempts, retriesExceeded, deferCancel, deferred, cancelling, cancelPc>>
  BY DEF RecordResult, counters, deferVars, retryVars
<1>4. CtxTree(ctxs') /\ SameShape(ctxs, ctxs')
  BY <1>3, SameTree
<1>5. ActorsOK'
  BY <1>3, ActorsKept DEF IInv, ActorsOK
<1>6. CASE Exit(CancelResult)
  BY <1>1, <1>2, <1>3, <1>4, <1>5, <1>6, PolicyAnswers
<1>7. CASE step' = "retryDelay" /\ UNCHANGED <<at, result>>
  <2>1. CtxOK' /\ Chain' /\ PassedOn'
    BY <1>1, <1>3, <1>4, <1>7, LevelsKept DEF IInv, CtxOK
  <2>2. FlowOK'
    BY <1>1, <1>3, <1>7 DEF IInv, FlowOK, Steps
  <2>3. CountsOK'
    BY <1>1, <1>3, <1>7 DEF IInv, CountsOK, AttemptsMatchExecutions
  <2> QED  BY <1>5, <2>1, <2>2, <2>3 DEF IInv
<1> QED  BY <1>6, <1>7 DEF RecordResult

\* InitializeRetry.  The next attempt goes down with the context that was passed on the first time.
LEMMA InitializeRetryStep == IInv /\ InitializeRetry => IInv'
<1> SUFFICES ASSUME IInv, InitializeRetry PROVE IInv'
  OBVIOUS
<1>1. /\ Depth' = Depth /\ Depth \in Nat /\ at \in 1..Depth /\ at \in 1..Depth + 1
      /\ step = "retryDelay" /\ policies[at].kind = "retry"
  BY DepthType DEF IInv, CtxOK, InitializeRetry, AtPolicy, Depth
<1>2. CancelResult \in Results /\ FailureResult("budget.ErrExceeded") \in Results
  BY CancelResultType, ResultTypes DEF IInv, FlowOK, Values
<1>3. UNCHANGED <<policies, mode, ctxs, levelCtx, executions, failedAttempts, retriesExceeded,
                  deferCancel, deferred, cancelling, cancelPc>>
  BY DEF InitializeRetry, deferVars, retryVars
<1>4. CtxTree(ctxs') /\ SameShape(ctxs, ctxs')
  BY <1>3, SameTree
<1>5. ActorsOK'
  BY <1>3, ActorsKept DEF IInv, ActorsOK
<1>6. CASE Exit(CancelResult) /\ UNCHANGED <<canceledResult, attempts, retries, blocked>>
  BY <1>1, <1>2, <1>3, <1>4, <1>5, <1>6, PolicyAnswers
<1>7. CASE CountRetry /\ BudgetExceeded
  <2>1. CtxOK' /\ FlowOK' /\ Chain' /\ PassedOn' /\ step' = "exit"
    BY <1>1, <1>2, <1>3, <1>4, <1>7, ExitKept DEF IInv, CtxOK, CountRetry, BudgetExceeded
  <2>2. CountsOK'
    BY <1>1, <1>3, <1>7, <2>1 DEF IInv, CountsOK, AttemptsMatchExecutions, CountRetry, BudgetExceeded
  <2> QED  BY <1>5, <2>1, <2>2 DEF IInv
<1>8. CASE CountRetry /\ StartAttempt
  <2>1. at' = at + 1 /\ step' = "enter" /\ result' = result
    BY <1>8 DEF StartAttempt
  <2>2. CtxOK'
    BY <1>1, <1>3 DEF IInv, CtxOK
  <2>3. FlowOK'
    BY <1>1, <1>8, <2>1 DEF IInv, FlowOK, Steps, CountRetry
  <2>4. CountsOK'
    BY <1>1, <1>3, <1>8, <2>1 DEF IInv, CountsOK, AttemptsMatchExecutions, CountRetry, StartAttempt
  <2>5. levelCtx[at + 1] = levelCtx[at]
    BY <1>1 DEF IInv, PassedOn
  <2>6. \A i, j \in 1..at : i <= j => levelCtx[i] \in ctxs[levelCtx[j]].ancestors
    BY <1>1 DEF IInv, Chain
  <2>7. Chain'
    <3> SUFFICES ASSUME NEW i \in 1..(at + 1), NEW j \in 1..(at + 1), i <= j
                 PROVE  levelCtx[i] \in ctxs[levelCtx[j]].ancestors
      BY <1>1, <1>3, <2>1 DEF Chain
    <3>1. CASE j \in 1..at
      BY <1>1, <2>6, <3>1
    <3>2. CASE j = at + 1 /\ i \in 1..at
      BY <1>1, <2>5, <2>6, <3>2
    <3>3. CASE j = at + 1 /\ i = at + 1
      BY <1>1, <2>5, <2>6, <3>3
    <3> QED  BY <1>1, <3>1, <3>2, <3>3
  <2>8. PassedOn'
    BY <1>1, <1>3, <2>1 DEF IInv, PassedOn
  <2> QED  BY <1>5, <2>2, <2>3, <2>4, <2>7, <2>8 DEF IInv
<1> QED  BY <1>6, <1>7, <1>8 DEF InitializeRetry

\* Breakers, bulkheads and caches, when the inner function has returned.
LEMMA ExitOthersStep == IInv /\ (ExitBreaker \/ ExitBulkheadOrCache) => IInv'
<1> SUFFICES ASSUME IInv, ExitBreaker \/ ExitBulkheadOrCache PROVE IInv'
  OBVIOUS
<1>1. at \in 1..Depth /\ step # "enter"
  BY DEF ExitBreaker, ExitBulkheadOrCache, AtPolicy
<1>2. \E r \in Results : Exit(r)
  BY ResultTypes DEF IInv, FlowOK, ExitBreaker, ExitBulkheadOrCache
<1>3. UNCHANGED <<policies, mode, ctxs, levelCtx, canceledResult, attempts, retries, executions, blocked,
                  failedAttempts, retriesExceeded, deferCancel, deferred, cancelling, cancelPc>>
  BY DEF ExitBreaker, ExitBulkheadOrCache, counters, deferVars, retryVars
<1>4. ActorsOK'
  BY <1>3, ActorsKept DEF IInv, ActorsOK
<1> QED  BY <1>1, <1>2, <1>3, <1>4, SameTree, PolicyAnswers

\* The fallback executor.
LEMMA FallbackStep ==
  IInv /\ (ExitFallback \/ \E v \in {"fallbackOk", "fallbackFail"} : FallbackReturns(v)) => IInv'
<1> SUFFICES ASSUME IInv, ExitFallback \/ \E v \in {"fallbackOk", "fallbackFail"} : FallbackReturns(v)
             PROVE  IInv'
  OBVIOUS
<1>1. /\ Depth' = Depth /\ Depth \in Nat /\ at \in 1..Depth /\ at \in 0..Depth + 1
      /\ step \in {"exit", "fallback"}
  <2>1. at \in 1..Depth /\ step \in {"exit", "fallback"} /\ policies' = policies /\ mode' = mode
    BY DEF ExitFallback, FallbackReturns, AtPolicy
  <2> QED  BY <2>1, DepthType DEF IInv, CtxOK, Depth
<1>2. UNCHANGED <<policies, mode, ctxs, levelCtx, canceledResult, attempts, retries, executions, blocked,
                  failedAttempts, retriesExceeded, deferCancel, deferred, cancelling, cancelPc>>
  BY DEF ExitFallback, FallbackReturns, counters, deferVars, retryVars
<1>3. ActorsOK'
  BY <1>2, ActorsKept DEF IInv, ActorsOK
<1>4. CtxTree(ctxs') /\ SameShape(ctxs, ctxs')
  BY <1>2, SameTree
<1>5. result \in Results /\ CancelResult \in Results
  BY CancelResultType DEF IInv, FlowOK
<1>6. \/ \E r \in Results : Exit(r)
      \/ result' = WithFailure(result) /\ step' = "fallback" /\ at' = at
  BY <1>5, ResultTypes DEF ExitFallback, FallbackReturns
<1>7. CASE \E r \in Results : Exit(r)
  BY <1>1, <1>2, <1>3, <1>4, <1>7, PolicyAnswers
<1>8. CASE result' = WithFailure(result) /\ step' = "fallback" /\ at' = at
  <2>1. CtxOK' /\ Chain' /\ PassedOn'
    BY <1>1, <1>2, <1>4, <1>8, LevelsKept DEF IInv, CtxOK
  <2>2. FlowOK'
    BY <1>1, <1>2, <1>5, <1>8, ResultTypes DEF IInv, FlowOK, Steps
  <2>3. CountsOK'
    BY <1>1, <1>2, <1>8 DEF IInv, CountsOK, AttemptsMatchExecutions
  <2> QED  BY <1>3, <2>1, <2>2, <2>3 DEF IInv
<1> QED  BY <1>6, <1>7, <1>8

-----------------------------------------------------------------------------
(***************************************************************************)
(* The end of the execution, cancellation from outside and DeferCancel.    *)
(***************************************************************************)
\* The result is recorded.
LEMMA FinishStep == IInv /\ Finish => IInv'
<1> SUFFICES ASSUME IInv, Finish PROVE IInv'
  OBVIOUS
<1>1. CtxTree(ctxs') /\ SameShape(ctxs, ctxs')
  BY CancelCtxTree, SameTree DEF IInv, CtxOK, Finish
<1> QED  BY <1>1, GoroutineStays
         DEF IInv, CtxOK, FlowOK, ActorsOK, Finish, retryVars, counters, deferVars

\* ExecutionResult.Cancel, and the owner of the configured context.
LEMMA CancelStep ==
  IInv /\ (CancelSetsResult \/ CancelCancelsContext \/ CancelConfiguredContext) => IInv'
<1> SUFFICES ASSUME IInv, CancelSetsResult \/ CancelCancelsContext \/ CancelConfiguredContext
             PROVE  IInv'
  OBVIOUS
<1>1. CtxTree(ctxs') /\ SameShape(ctxs, ctxs')
  BY CancelCtxTree, SameTree
  DEF IInv, CtxOK, CancelSetsResult, CancelCancelsContext, CancelConfiguredContext
<1>2. canceledResult' \in Values \cup {"nil"}
  BY DEF IInv, FlowOK, Values, CancelSetsResult, CancelCancelsContext, CancelConfiguredContext
<1>3. cancelPc' \in {"idle", "resultSet", "returned"}
  BY DEF IInv, ActorsOK, CancelSetsResult, CancelCancelsContext, CancelConfiguredContext
<1> QED  BY <1>1, <1>2, <1>3, GoroutineStays
         DEF IInv, CtxOK, ActorsOK, CancelSetsResult, CancelCancelsContext, CancelConfiguredContext,
             retryVars, counters, deferVars

\* The functions that DeferCancel returned.
LEMMA DeferStepInv == IInv /\ DeferStep => IInv'
<1> SUFFICES ASSUME IInv, NEW id \in 1..Len(ctxs), CallDeferred(id) \/ DeferredCancels(id)
             PROVE  IInv'
  BY DEF DeferStep
<1>1. CtxTree(ctxs') /\ SameShape(ctxs, ctxs')
  BY CancelWithoutResultTree, SameTree DEF IInv, CtxOK, CallDeferred, DeferredCancels
<1>2. deferred' \subseteq 1..Len(ctxs) /\ cancelling' \subseteq 1..Len(ctxs)
  BY DEF IInv, CtxOK, CallDeferred, DeferredCancels
<1>3. deferCancel' \in BOOLEAN
  BY DEF IInv, ActorsOK, CallDeferred, DeferredCancels
<1> QED  BY <1>1, <1>2, <1>3, GoroutineStays
         DEF IInv, FlowOK, ActorsOK, CallDeferred, DeferredCancels, retryVars, counters

-----------------------------------------------------------------------------
(***************************************************************************)
(* The theorems.                                                           *)
(***************************************************************************)
\* The invariant is inductive: one step per action.
LEMMA NextIInv == IInv /\ [Next]_vars => IInv'
<1> SUFFICES ASSUME IInv, [Next]_vars PROVE IInv'
  OBVIOUS
<1>1. CASE PolicyStep
  BY <1>1, EnterPolicyStep, EnterTimeoutStep, BlockedStep, ExitTimeoutStep, ExitOthersStep,
     ExitRetryStep, RecordResultStep, InitializeRetryStep, FallbackStep, FinishStep
  DEF PolicyStep
<1>2. CASE FnStep
  BY <1>2, FnStepInv
<1>3. CASE TimerStep
  BY <1>3, TimerStepInv
<1>4. CASE DeferStep
  BY <1>4, DeferStepInv
<1>5. CASE CancelSetsResult \/ CancelCancelsContext \/ CancelConfiguredContext
  BY <1>5, CancelStep
<1>6. CASE UNCHANGED vars
  <2>1. CtxTree(ctxs') /\ SameShape(ctxs, ctxs')
    BY <1>6, SameTree DEF vars
  <2> QED  BY <1>6, <2>1, GoroutineStays
           DEF IInv, CtxOK, FlowOK, ActorsOK, vars, retryVars, counters, deferVars
<1> QED  BY <1>1, <1>2, <1>3, <1>4, <1>5, <1>6 DEF Next, Terminated

\* The inductive invariant holds throughout every execution through every stack of policies.
THEOREM Invariance == Spec => []IInv
BY InitIInv, NextIInv, PTL DEF Spec

\* Type correctness, and the context tree: whoever cancels, and however deep the policies are nested,
\* a canceled context never has a descendant that is not canceled.
THEOREM TypeCorrect == Spec => []TypeOK
BY Invariance, IInvTypeOK, PTL

\* Attempts() counts the completed, the blocked and the running executions, each once, for every
\* stack of policies: no cancellation, rejection or exhausted budget makes the retry executor and
\* the policies below it disagree about the number of attempts.
THEOREM AttemptsAccounted == Spec => []AttemptsMatchExecutions
<1>1. IInv => AttemptsMatchExecutions
  BY DEF IInv, CountsOK
<1> QED  BY <1>1, Invariance, PTL

\* The retry executor checks one context only, that of its own level; because that is a descendant
\* of the contexts of all levels above, and a cancellation reaches descendants at once, no retry
\* begins below any canceled context.
THEOREM RetriesStopWhenCanceled == Spec => NoRetryWhenCanceled
<1> DEFINE A == attempts' > attempts => \A l \in 1..at : ~ctxs[levelCtx[l]].done
<1>1. IInv /\ [Next]_vars => [A]_vars
  <2> SUFFICES ASSUME IInv, Next, attempts' > attempts, NEW l \in 1..at
               PROVE  ~ctxs[levelCtx[l]].done
    BY DEF vars
  <2>1. attempts \in Nat
    BY DEF IInv, CountsOK
  <2>2. attempts' # attempts
    BY <2>1
  <2>3. InitializeRetry
    BY <2>2 DEF Next, PolicyStep, FnStep, TimerStep, DeferStep, Terminated, vars, counters,
         EnterPolicy, EnterTimeout, Blocked, ExitTimeout, ExitBreaker, ExitBulkheadOrCache, ExitRetry,
         RecordResult, ExitFallback, FallbackReturns, Finish, FnReturns, TimerWins, TimerCancels,
         CallDeferred, DeferredCancels, CancelSetsResult, CancelCancelsContext, CancelConfiguredContext
  <2>4. RetryMayStart
    BY <2>2, <2>3 DEF InitializeRetry
  <2>5. Depth \in Nat /\ at \in 1..Depth
    BY <2>3, DepthType DEF IInv, CtxOK, InitializeRetry, AtPolicy
  <2>6. levelCtx[l] \in ctxs[levelCtx[at]].ancestors
    BY <2>5 DEF IInv, Chain
  <2>7. levelCtx[l] \in 1..Len(ctxs) /\ levelCtx[at] \in 1..Len(ctxs)
    BY <2>5 DEF IInv, CtxOK
  <2> QED  BY <2>4, <2>6, <2>7 DEF IInv, CtxOK, CtxTree, RetryMayStart, Done
<1> QED  BY <1>1, Invariance, PTL DEF Spec, NoRetryWhenCanceled

-----------------------------------------------------------------------------
(***************************************************************************)
(* The answers of timeouts.  A timer that won the race never loses it      *)
(* again, so that whatever reports ErrExceeded later, the callback did win.*)
(* The context that a timeout made stays its own while the goroutine is    *)
(* below it: contexts grow along the levels, strictly where a timeout is   *)
(* passed, so that no inner timeout stops an outer one's timer.            *)
(***************************************************************************)
Entered(l) == l < at \/ (l = at /\ step # "enter")

TimeoutCtxs ==
    \A l \in 1..Depth : policies[l].kind = "timeout" /\ Entered(l) =>
        /\ levelCtx[l] < levelCtx[l + 1]
        /\ ctxs[levelCtx[l + 1]].timer \in {"armed", "won", "fired"}

SomeTimerWon == \E i \in 1..Len(ctxs) : ctxs[i].timer \in {"won", "fired"}

AnswersOfTimers ==
    /\ result.val = "timeout.ErrExceeded" => SomeTimerWon
    /\ canceledResult = "timeout.ErrExceeded" => SomeTimerWon

\* Once the outermost policy, a timeout, has answered: its timer cannot win any more.
OutermostAnswer ==
    /\ step = "done" => at = 0
    /\ at = 0 /\ Depth > 0 /\ policies[1].kind = "timeout" =>
         /\ ctxs[levelCtx[2]].timer # "armed"
         /\ ctxs[levelCtx[2]].timer \in {"won", "fired"} => result.val = "timeout.ErrExceeded"

AnswerInv == TimeoutCtxs /\ AnswersOfTimers /\ OutermostAnswer

\* What CancelCtx and a change of a timer do, context by context.
CanceledFrom(cs, ds, id) ==
    /\ Len(ds) = Len(cs)
    /\ \A i \in 1..Len(cs) : /\ ds[i].timer = cs[i].timer
                             /\ ds[i].done = (cs[i].done \/ id \in cs[i].ancestors)

TimerSet(cs, ds, id, t) ==
    /\ Len(ds) = Len(cs)
    /\ \A i \in 1..Len(cs) : /\ ds[i].timer = IF i = id THEN t ELSE cs[i].timer
                             /\ ds[i].done = cs[i].done

\* Canceling a context leaves the timers alone.
LEMMA CancelCtxEffect ==
  ASSUME NEW cs, CtxTree(cs), NEW id
  PROVE  CanceledFrom(cs, CancelCtx(cs, id), id)
<1>1. cs \in Seq(Contexts) /\ Len(cs) \in Nat /\ DOMAIN cs = 1..Len(cs)
  BY DEF CtxTree
<1>2. \A i \in 1..Len(cs) : cs[i] \in Contexts
  BY <1>1
<1>3. Len(CancelCtx(cs, id)) = Len(cs)
  BY CancelCtxTree DEF SameShape
<1>4. \A i \in 1..Len(cs) : /\ CancelCtx(cs, id)[i].timer = cs[i].timer
                            /\ CancelCtx(cs, id)[i].done = (cs[i].done \/ id \in cs[i].ancestors)
  BY <1>1, <1>2 DEF CancelCtx, Contexts
<1> QED  BY <1>3, <1>4 DEF CanceledFrom

\* A change of one timer leaves the others, and all cancellations, alone.
LEMMA SetTimerEffect ==
  ASSUME NEW cs, CtxTree(cs), NEW id \in 1..Len(cs), NEW t \in Timers
  PROVE  TimerSet(cs, [cs EXCEPT ![id].timer = t], id, t)
<1>1. cs \in Seq(Contexts) /\ Len(cs) \in Nat /\ DOMAIN cs = 1..Len(cs)
  BY DEF CtxTree
<1>2. \A i \in 1..Len(cs) : cs[i] \in Contexts
  BY <1>1
<1>3. Len([cs EXCEPT ![id].timer = t]) = Len(cs)
  BY SetTimerTree DEF SameShape
<1>4. \A i \in 1..Len(cs) : /\ [cs EXCEPT ![id].timer = t][i].timer = IF i = id THEN t ELSE cs[i].timer
                            /\ [cs EXCEPT ![id].timer = t][i].done = cs[i].done
  BY <1>1, <1>2 DEF Contexts
<1> QED  BY <1>3, <1>4 DEF TimerSet

(***************************************************************************)
(* Kinds of steps.  Waits: the goroutine stays where it is, or has ended;  *)
(* others cancel contexts, and timers run.  Answers: a policy other than a *)
(* timeout goes on at its level, or up, with a result it was given, one of *)
(* its own, or that of a cancellation.                                     *)
(***************************************************************************)
TimersRun ==
    /\ Len(ctxs') = Len(ctxs)
    /\ \A i \in 1..Len(ctxs) :
          \/ ctxs'[i].timer = ctxs[i].timer
          \/ ctxs[i].timer = "armed" /\ ctxs'[i].timer = "won"
          \/ ctxs[i].timer = "won" /\ ctxs'[i].timer = "fired"

Waits ==
    /\ UNCHANGED <<policies, mode, levelCtx, at, result>>
    /\ step' = step \/ (step = "exit" /\ at = 0 /\ step' = "done")
    /\ TimersRun
    /\ canceledResult' = "timeout.ErrExceeded" =>
          canceledResult = "timeout.ErrExceeded" \/ SomeTimerWon'

NoNewTimeout(r) ==
    r.val = "timeout.ErrExceeded" =>
        result.val = "timeout.ErrExceeded" \/ canceledResult = "timeout.ErrExceeded"

Answers ==
    /\ at \in 1..Depth /\ policies[at].kind # "timeout"
    /\ UNCHANGED <<policies, mode, levelCtx, ctxs>>
    /\ \/ at' = at - 1 /\ step' = "exit"
       \/ at' = at /\ step # "enter" /\ step' \notin {"enter", "done"}
    /\ NoNewTimeout(result')
    /\ canceledResult' \in {canceledResult, "nil"}

\* The types that the steps below need.
LEMMA Shapes ==
  ASSUME IInv
  PROVE  /\ Depth \in Nat /\ at \in 0..Depth + 1 /\ Len(ctxs) \in Nat
         /\ \A l \in 1..Depth + 1 : levelCtx[l] \in 1..Len(ctxs)
         /\ CtxTree(ctxs)
         /\ \A i \in 1..Len(ctxs) : ctxs[i].done \in BOOLEAN /\ ctxs[i].timer \in Timers
                                    /\ i \in ctxs[i].ancestors
<1>1. Depth \in Nat /\ at \in 0..Depth + 1 /\ CtxTree(ctxs)
  BY DepthType DEF IInv, CtxOK, FlowOK
<1>2. ctxs \in Seq(Contexts) /\ Len(ctxs) \in Nat
  BY <1>1, LenProperties DEF CtxTree
<1>3. \A i \in 1..Len(ctxs) : ctxs[i] \in Contexts
  BY <1>2
<1>4. \A i \in 1..Len(ctxs) : ctxs[i].done \in BOOLEAN /\ ctxs[i].timer \in Timers
  BY <1>3 DEF Contexts
<1> QED  BY <1>1, <1>2, <1>4 DEF IInv, CtxOK, CtxTree

\* The operations on results keep what they are a result of.
LEMMA ResultValues ==
  /\ \A v \in Values : FnResult(v).val = v /\ FailureResult(v).val = v
  /\ \A r \in Results : WithFailure(r).val = r.val
  /\ \A r \in Results, d \in BOOLEAN, s \in BOOLEAN : WithDone(r, d, s).val = r.val
<1>1. \A v \in Values : FnResult(v).val = v /\ FailureResult(v).val = v
  BY DEF FnResult, FailureResult
<1>2. \A r \in Results : WithFailure(r).val = r.val
  BY DEF Results, WithFailure
<1>3. \A r \in Results, d \in BOOLEAN, s \in BOOLEAN : WithDone(r, d, s).val = r.val
  BY DEF Results, WithDone
<1> QED  BY <1>1, <1>2, <1>3

\* The result of a cancellation says that a timeout was exceeded only if the cancellation does.
LEMMA CancelResultValue == ASSUME IInv PROVE NoNewTimeout(CancelResult)
<1>1. canceledResult \in Values \cup {"nil"} /\ "ctx.Err" \in Values
  BY DEF IInv, FlowOK, Values
<1>2. CASE canceledResult = "nil"
  BY <1>1, <1>2, ResultValues DEF CancelResult, NoNewTimeout
<1>3. CASE canceledResult # "nil"
  BY <1>1, <1>3, ResultValues DEF CancelResult, NoNewTimeout
<1> QED  BY <1>2, <1>3

\* Others act while the goroutine stays where it is.
LEMMA WaitsAnswers == ASSUME IInv, AnswerInv, Waits PROVE AnswerInv'
<1>1. Depth' = Depth
  BY DEF Waits, Depth
<1>2. TimeoutCtxs'
  <2> SUFFICES ASSUME NEW l \in 1..Depth, policies[l].kind = "timeout", Entered(l)'
               PROVE  /\ levelCtx[l] < levelCtx[l + 1]
                      /\ ctxs'[levelCtx[l + 1]].timer \in {"armed", "won", "fired"}
    BY <1>1 DEF TimeoutCtxs, Waits
  <2>1. Entered(l)
    BY DEF Entered, Waits
  <2>2. levelCtx[l] < levelCtx[l + 1] /\ ctxs[levelCtx[l + 1]].timer \in {"armed", "won", "fired"}
    BY <2>1 DEF AnswerInv, TimeoutCtxs
  <2>3. levelCtx[l + 1] \in 1..Len(ctxs)
    BY Shapes
  <2> QED  BY <2>2, <2>3 DEF Waits, TimersRun
<1>3. SomeTimerWon => SomeTimerWon'
  BY DEF SomeTimerWon, Waits, TimersRun
<1>4. AnswersOfTimers'
  BY <1>3 DEF AnswerInv, AnswersOfTimers, Waits
<1>5. OutermostAnswer'
  <2>1. step' = "done" => at' = 0
    BY DEF AnswerInv, OutermostAnswer, Waits
  <2>2. ASSUME at = 0, Depth > 0, policies[1].kind = "timeout"
        PROVE  /\ ctxs'[levelCtx[2]].timer # "armed"
               /\ ctxs'[levelCtx[2]].timer \in {"won", "fired"} => result.val = "timeout.ErrExceeded"
    <3>1. levelCtx[2] \in 1..Len(ctxs)
      BY <2>2, Shapes
    <3> QED  BY <2>2, <3>1 DEF AnswerInv, OutermostAnswer, Waits, TimersRun
  <2> QED  BY <1>1, <2>1, <2>2 DEF OutermostAnswer, Waits
<1> QED  BY <1>2, <1>4, <1>5 DEF AnswerInv

\* A policy other than a timeout goes on with a result, or answers.
LEMMA AnswersAnswers == ASSUME IInv, AnswerInv, Answers PROVE AnswerInv'
<1>1. Depth' = Depth /\ Depth \in Nat
  BY Shapes DEF Answers, Depth
<1>2. TimeoutCtxs'
  BY <1>1 DEF AnswerInv, TimeoutCtxs, Entered, Answers
<1>3. AnswersOfTimers'
  BY DEF AnswerInv, AnswersOfTimers, Answers, NoNewTimeout, SomeTimerWon
<1>4. OutermostAnswer'
  BY <1>1 DEF OutermostAnswer, Answers
<1> QED  BY <1>2, <1>3, <1>4 DEF AnswerInv

\* A policy passes its execution on, or a retry goes down again.
LEMMA GoesDownAnswers ==
  ASSUME IInv, AnswerInv, EnterPolicy \/ (InitializeRetry /\ CountRetry /\ StartAttempt)
  PROVE  AnswerInv'
<1>1. Depth' = Depth /\ Depth \in Nat /\ at \in 1..Depth /\ policies[at].kind # "timeout"
  BY Shapes DEF EnterPolicy, InitializeRetry, AtPolicy, Depth
<1>2. UNCHANGED <<policies, ctxs, result>> /\ at' = at + 1 /\ step' = "enter"
  BY DEF EnterPolicy, InitializeRetry, StartAttempt
<1>3. \A l \in 1..at : levelCtx'[l] = levelCtx[l]
  <2>1. CASE EnterPolicy
    BY <1>1, <2>1 DEF IInv, CtxOK, EnterPolicy
  <2>2. CASE InitializeRetry
    BY <2>2 DEF InitializeRetry
  <2> QED  BY <2>1, <2>2
<1>4. TimeoutCtxs'
  <2> SUFFICES ASSUME NEW l \in 1..Depth, policies[l].kind = "timeout", Entered(l)'
               PROVE  /\ levelCtx'[l] < levelCtx'[l + 1]
                      /\ ctxs[levelCtx'[l + 1]].timer \in {"armed", "won", "fired"}
    BY <1>1, <1>2 DEF TimeoutCtxs
  <2>1. l < at
    BY <1>1, <1>2 DEF Entered
  <2>2. levelCtx[l] < levelCtx[l + 1] /\ ctxs[levelCtx[l + 1]].timer \in {"armed", "won", "fired"}
    BY <2>1 DEF AnswerInv, TimeoutCtxs, Entered
  <2> QED  BY <1>1, <1>3, <2>1, <2>2
<1>5. canceledResult' \in {canceledResult, "nil"}
  BY DEF EnterPolicy, CountRetry
<1>6. AnswersOfTimers'
  BY <1>2, <1>5 DEF AnswerInv, AnswersOfTimers, SomeTimerWon
<1>7. OutermostAnswer'
  BY <1>1, <1>2 DEF OutermostAnswer
<1> QED  BY <1>4, <1>6, <1>7 DEF AnswerInv

\* A timeout makes a context of its own, below those of the levels above.
LEMMA EnterTimeoutAnswers == ASSUME IInv, AnswerInv, EnterTimeout PROVE AnswerInv'
<1>1. Depth' = Depth /\ Depth \in Nat /\ at \in 1..Depth /\ step = "enter"
  BY Shapes DEF EnterTimeout, AtPolicy, Depth
<1>2. /\ UNCHANGED <<policies, result, canceledResult>> /\ at' = at + 1 /\ step' = "enter"
      /\ levelCtx[at] \in 1..Len(ctxs) /\ Len(ctxs) \in Nat
  <2>1. at \in 1..Depth + 1
    BY <1>1
  <2> QED  BY <1>1, <2>1, Shapes DEF EnterTimeout
<1>3. /\ Len(ctxs') = Len(ctxs) + 1
      /\ \A i \in 1..Len(ctxs) : ctxs'[i] = ctxs[i]
  BY <1>2, ChildCtxTree DEF IInv, CtxOK, EnterTimeout
<1>4. ctxs'[Len(ctxs) + 1].timer = "armed"
  <2>1. ctxs \in Seq(Contexts)
    BY DEF IInv, CtxOK, CtxTree
  <2>2. ctxs' = Append(ctxs, ChildCtx(levelCtx[at]))
    BY DEF EnterTimeout
  <2>3. ctxs'[Len(ctxs) + 1] = ChildCtx(levelCtx[at])
    BY <2>1, <2>2
  <2> QED  BY <2>3 DEF ChildCtx
<1>5. levelCtx'[at + 1] = Len(ctxs) + 1 /\ \A l \in 1..at : levelCtx'[l] = levelCtx[l]
  BY <1>1 DEF IInv, CtxOK, EnterTimeout
<1>6. TimeoutCtxs'
  <2> SUFFICES ASSUME NEW l \in 1..Depth, policies[l].kind = "timeout", Entered(l)'
               PROVE  /\ levelCtx'[l] < levelCtx'[l + 1]
                      /\ ctxs'[levelCtx'[l + 1]].timer \in {"armed", "won", "fired"}
    BY <1>1, <1>2 DEF TimeoutCtxs
  <2>1. l \in 1..at
    BY <1>1, <1>2 DEF Entered
  <2>2. CASE l = at
    BY <1>2, <1>4, <1>5, <2>1, <2>2
  <2>3. CASE l < at
    <3>1. levelCtx[l] < levelCtx[l + 1] /\ ctxs[levelCtx[l + 1]].timer \in {"armed", "won", "fired"}
      BY <2>3 DEF AnswerInv, TimeoutCtxs, Entered
    <3>2. l + 1 \in 1..at /\ l + 1 \in 1..Depth + 1
      BY <1>1, <2>1, <2>3
    <3>3. levelCtx[l + 1] \in 1..Len(ctxs)
      BY <3>2, Shapes
    <3> QED  BY <1>3, <1>5, <2>1, <3>1, <3>2, <3>3
  <2> QED  BY <1>1, <2>1, <2>2, <2>3
<1>7. SomeTimerWon => SomeTimerWon'
  BY <1>2, <1>3 DEF SomeTimerWon
<1>8. AnswersOfTimers'
  BY <1>2, <1>7 DEF AnswerInv, AnswersOfTimers
<1>9. OutermostAnswer'
  BY <1>1, <1>2 DEF OutermostAnswer
<1> QED  BY <1>6, <1>8, <1>9 DEF AnswerInv

\* The user's function returns.
LEMMA FnAnswers == ASSUME IInv, AnswerInv, FnStep PROVE AnswerInv'
<1>1. PICK v \in FnValues \cup {"ctx.Err"}, defers \in BOOLEAN : FnReturns(v, defers)
  BY DEF FnStep
<1>2. Depth' = Depth /\ Depth \in Nat /\ at = Depth + 1 /\ at' = at - 1 /\ step' = "exit"
  BY <1>1, Shapes DEF FnReturns, Exit, Depth
<1>3. UNCHANGED <<policies, ctxs, levelCtx, canceledResult>> /\ result' = FnResult(v)
  BY <1>1 DEF FnReturns, Exit
<1>4. result'.val # "timeout.ErrExceeded"
  BY <1>3, ResultValues DEF FnValues, Values
<1>5. TimeoutCtxs'
  BY <1>2, <1>3 DEF AnswerInv, TimeoutCtxs, Entered
<1>6. AnswersOfTimers'
  BY <1>3, <1>4 DEF AnswerInv, AnswersOfTimers, SomeTimerWon
<1>7. OutermostAnswer'
  BY <1>2 DEF OutermostAnswer
<1> QED  BY <1>5, <1>6, <1>7 DEF AnswerInv

\* What ExitTimeout does to the contexts: without a winner, the timer is stopped and the context
\* canceled unless that is deferred.
StopsTimer(id) ==
    /\ ctxs[id].timer = "armed"
    /\ \A i \in 1..Len(ctxs) :
          /\ ctxs'[i].timer = IF i = id THEN "stopped" ELSE ctxs[i].timer
          /\ ctxs'[i].done = (ctxs[i].done \/ (~deferCancel /\ ~ctxs[id].done /\ id \in ctxs[i].ancestors))

\* The two ways in which the race ends.
LEMMA TimeoutOutcomes ==
  ASSUME IInv, ExitTimeout
  PROVE  /\ levelCtx[at + 1] \in 1..Len(ctxs) /\ Len(ctxs') = Len(ctxs)
         /\ StopsTimer(levelCtx[at + 1]) \/ (ctxs[levelCtx[at + 1]].timer # "armed" /\ ctxs' = ctxs)
<1> DEFINE id == levelCtx[at + 1]
           cs == [ctxs EXCEPT ![id].timer = "stopped"]
<1>1. Depth \in Nat /\ at \in 1..Depth
  BY Shapes DEF ExitTimeout, AtPolicy
<1>2. id \in 1..Len(ctxs) /\ CtxTree(ctxs) /\ "stopped" \in Timers
  BY <1>1, Shapes DEF Timers
<1>3. CtxTree(cs) /\ SameShape(ctxs, cs) /\ TimerSet(ctxs, cs, id, "stopped")
  BY <1>2, SetTimerTree, SetTimerEffect
<1>4. CanceledFrom(cs, CancelCtx(cs, id), id)
  BY <1>3, CancelCtxEffect
<1>5. CASE ctxs[id].timer = "armed"
  <2>1. ctxs' = CancelWithoutResult(cs, id)
    BY <1>5 DEF ExitTimeout
  <2> HIDE DEF cs, id
  <2>2. CASE cs[id].done \/ deferCancel
    <3>1. ctxs' = cs
      BY <2>1, <2>2 DEF CancelWithoutResult
    <3>2. ctxs[id].done \/ deferCancel
      BY <1>2, <1>3, <2>2 DEF TimerSet
    <3>3. StopsTimer(id) /\ Len(ctxs') = Len(ctxs)
      BY <1>3, <1>5, <3>1, <3>2, Shapes DEF TimerSet, StopsTimer
    <3> QED  BY <1>2, <3>3 DEF id
  <2>3. CASE ~(cs[id].done \/ deferCancel)
    <3>1. ctxs' = CancelCtx(cs, id)
      BY <2>1, <2>3 DEF CancelWithoutResult
    <3>2. ~ctxs[id].done /\ ~deferCancel
      BY <1>2, <1>3, <2>3 DEF TimerSet
    <3>3. StopsTimer(id) /\ Len(ctxs') = Len(ctxs)
      BY <1>3, <1>4, <1>5, <3>1, <3>2 DEF TimerSet, CanceledFrom, SameShape, StopsTimer
    <3> QED  BY <1>2, <3>3 DEF id
  <2> QED  BY <2>2, <2>3
<1>6. CASE ctxs[id].timer # "armed"
  BY <1>2, <1>6 DEF ExitTimeout
<1> QED  BY <1>5, <1>6

\* A timeout answers.  Its timer, if it is not armed, has won: nobody else stops it.
LEMMA ExitTimeoutAnswers == ASSUME IInv, AnswerInv, ExitTimeout PROVE AnswerInv'
<1> DEFINE id == levelCtx[at + 1]
<1>1. /\ Depth' = Depth /\ Depth \in Nat /\ at \in 1..Depth /\ step = "exit"
      /\ policies[at].kind = "timeout" /\ at' = at - 1 /\ step' = "exit"
      /\ UNCHANGED <<policies, levelCtx, canceledResult>>
  BY Shapes DEF ExitTimeout, AtPolicy, Exit, Depth
<1>2. /\ id \in 1..Len(ctxs) /\ Len(ctxs') = Len(ctxs)
      /\ StopsTimer(id) \/ (ctxs[id].timer # "armed" /\ ctxs' = ctxs)
  BY TimeoutOutcomes
<1>3. ctxs[id].timer \in {"armed", "won", "fired"} /\ levelCtx[at] < id
  BY <1>1 DEF AnswerInv, TimeoutCtxs, Entered
<1>4. \A l \in 1..at : levelCtx[l] < id
  <2> SUFFICES ASSUME NEW l \in 1..at PROVE levelCtx[l] < id
    OBVIOUS
  <2>1. l \in 1..Depth + 1 /\ at \in 1..Depth + 1 /\ l <= at
    BY <1>1
  <2>2. levelCtx[l] \in ctxs[levelCtx[at]].ancestors
    BY <2>1 DEF IInv, Chain
  <2>3. levelCtx[l] \in 1..Len(ctxs) /\ levelCtx[at] \in 1..Len(ctxs) /\ Len(ctxs) \in Nat
    BY <2>1, Shapes
  <2>4. ctxs[levelCtx[at]].ancestors \subseteq 1..levelCtx[at]
    BY <2>3 DEF IInv, CtxOK, CtxTree
  <2> HIDE DEF id
  <2> QED  BY <1>2, <1>3, <2>2, <2>3, <2>4
<1>5. \A i \in 1..Len(ctxs) : i # id => ctxs'[i].timer = ctxs[i].timer
  BY <1>2 DEF StopsTimer
<1>6. TimeoutCtxs'
  <2> SUFFICES ASSUME NEW l \in 1..Depth, policies[l].kind = "timeout", Entered(l)'
               PROVE  /\ levelCtx[l] < levelCtx[l + 1]
                      /\ ctxs'[levelCtx[l + 1]].timer \in {"armed", "won", "fired"}
    BY <1>1 DEF TimeoutCtxs
  <2>1. l < at
    BY <1>1 DEF Entered
  <2>2. levelCtx[l] < levelCtx[l + 1] /\ ctxs[levelCtx[l + 1]].timer \in {"armed", "won", "fired"}
    BY <2>1 DEF AnswerInv, TimeoutCtxs, Entered
  <2>3. l + 1 \in 1..at /\ l + 1 \in 1..Depth + 1
    BY <1>1, <2>1
  <2>4. levelCtx[l + 1] # id /\ levelCtx[l + 1] \in 1..Len(ctxs)
    <3>1. levelCtx[l + 1] < id /\ levelCtx[l + 1] \in 1..Len(ctxs)
      BY <1>4, <2>3, Shapes
    <3> HIDE DEF id
    <3> QED  BY <1>2, <3>1
  <2> QED  BY <1>5, <2>2, <2>4
<1>7. result \in Results /\ FailureResult("timeout.ErrExceeded") \in Results
      /\ FailureResult("timeout.ErrExceeded").val = "timeout.ErrExceeded"
  BY ResultTypes, ResultValues DEF IInv, FlowOK, Values
<1>8. result'.val = IF ctxs[id].timer = "armed" THEN result.val ELSE "timeout.ErrExceeded"
  <2>1. result' = TimeoutPostExecute(TimeoutAnswer(id))
    BY DEF ExitTimeout, Exit
  <2>2. \A r \in Results : TimeoutPostExecute(r).val = r.val
    BY ResultValues DEF TimeoutPostExecute
  <2> HIDE DEF id
  <2> QED  BY <1>7, <2>1, <2>2 DEF TimeoutAnswer
<1>9. SomeTimerWon => SomeTimerWon'
  <2> SUFFICES ASSUME NEW i \in 1..Len(ctxs), ctxs[i].timer \in {"won", "fired"}
               PROVE  SomeTimerWon'
    BY DEF SomeTimerWon
  <2>1. ctxs'[i].timer = ctxs[i].timer
    BY <1>2 DEF StopsTimer
  <2> QED  BY <1>2, <2>1 DEF SomeTimerWon
<1>10. ctxs[id].timer # "armed" => SomeTimerWon
  BY <1>2, <1>3 DEF SomeTimerWon
<1>11. AnswersOfTimers'
  BY <1>1, <1>8, <1>9, <1>10 DEF AnswerInv, AnswersOfTimers
<1>12. OutermostAnswer'
  <2>1. CASE at = 1
    <3>1. id = levelCtx[2]
      BY <2>1
    <3>2. ctxs'[id].timer # "armed"
      BY <1>2 DEF StopsTimer
    <3>3. ctxs'[id].timer \in {"won", "fired"} => result'.val = "timeout.ErrExceeded"
      BY <1>2, <1>8 DEF StopsTimer
    <3> QED  BY <1>1, <3>1, <3>2, <3>3 DEF OutermostAnswer
  <2>2. CASE at # 1
    BY <1>1, <2>2 DEF OutermostAnswer
  <2> QED  BY <2>1, <2>2
<1> QED  BY <1>6, <1>11, <1>12 DEF AnswerInv

\* Steps that cancel a context from outside, and the end of the execution, leave the timers alone.
LEMMA CancellingWaits ==
  ASSUME IInv,
         \/ CancelSetsResult \/ CancelCancelsContext \/ CancelConfiguredContext
         \/ Finish \/ DeferStep \/ UNCHANGED vars
  PROVE  Waits
<1>1. CtxTree(ctxs)
  BY Shapes
<1>2. UNCHANGED <<policies, mode, levelCtx, at, result>>
  BY DEF CancelSetsResult, CancelCancelsContext, CancelConfiguredContext, Finish, DeferStep,
         CallDeferred, DeferredCancels, vars
<1>3. step' = step \/ (step = "exit" /\ at = 0 /\ step' = "done")
  BY DEF CancelSetsResult, CancelCancelsContext, CancelConfiguredContext, Finish, DeferStep,
         CallDeferred, DeferredCancels, vars
<1>4. canceledResult' \in {canceledResult, "ErrExecutionCanceled"}
  BY DEF CancelSetsResult, CancelCancelsContext, CancelConfiguredContext, Finish, DeferStep,
         CallDeferred, DeferredCancels, vars
<1>5. ctxs' = ctxs \/ \E id : ctxs' = CancelCtx(ctxs, id)
  BY DEF CancelSetsResult, CancelCancelsContext, CancelConfiguredContext, Finish, DeferStep,
         CallDeferred, DeferredCancels, CancelWithoutResult, vars
<1>6. TimersRun
  <2>1. CASE ctxs' = ctxs
    BY <2>1 DEF TimersRun
  <2>2. CASE \E id : ctxs' = CancelCtx(ctxs, id)
    <3>1. PICK id : ctxs' = CancelCtx(ctxs, id)
      BY <2>2
    <3>2. CanceledFrom(ctxs, ctxs', id)
      BY <1>1, <3>1, CancelCtxEffect
    <3> QED  BY <3>2 DEF CanceledFrom, TimersRun
  <2> QED  BY <1>5, <2>1, <2>2
<1> QED  BY <1>2, <1>3, <1>4, <1>6 DEF Waits

\* What the two steps of a timer's callback do: it wins, and later cancels unless that was done.
TimerFires(id) ==
    /\ Len(ctxs') = Len(ctxs)
    /\ \A i \in 1..Len(ctxs) :
          /\ ctxs'[i].timer = IF i = id THEN "fired" ELSE ctxs[i].timer
          /\ ctxs'[i].done = (ctxs[i].done \/ (~ctxs[id].done /\ id \in ctxs[i].ancestors))

\* The second step, context by context.
LEMMA TimerCancelsEffect ==
  ASSUME IInv, NEW id \in 1..Len(ctxs), TimerCancels(id)
  PROVE  TimerFires(id)
<1> DEFINE cs == [ctxs EXCEPT ![id].timer = "fired"]
<1>1. CtxTree(ctxs) /\ "fired" \in Timers
  BY Shapes DEF Timers
<1>2. CtxTree(cs) /\ SameShape(ctxs, cs) /\ TimerSet(ctxs, cs, id, "fired")
  BY <1>1, SetTimerTree, SetTimerEffect
<1>3. CanceledFrom(cs, CancelCtx(cs, id), id)
  BY <1>2, CancelCtxEffect
<1>4. ctxs' = IF ctxs[id].done THEN cs ELSE CancelCtx(cs, id)
  BY DEF TimerCancels, Done
<1> HIDE DEF cs
<1>5. CASE ctxs[id].done
  BY <1>2, <1>4, <1>5, Shapes DEF TimerSet, TimerFires
<1>6. CASE ~ctxs[id].done
  BY <1>2, <1>3, <1>4, <1>6, Shapes DEF TimerSet, SameShape, CanceledFrom, TimerFires
<1> QED  BY <1>5, <1>6

\* A timer's callback reports ErrExceeded after it has won.
LEMMA TimerWaits == ASSUME IInv, TimerStep PROVE Waits
<1>1. PICK id \in 1..Len(ctxs) : TimerWins(id) \/ TimerCancels(id)
  BY DEF TimerStep
<1>2. UNCHANGED <<policies, mode, levelCtx, at, step, result>>
  BY <1>1 DEF TimerWins, TimerCancels
<1>3. CASE TimerWins(id)
  <2>1. TimerSet(ctxs, ctxs', id, "won") /\ ctxs[id].timer = "armed"
    BY <1>3, Shapes, SetTimerEffect DEF TimerWins, Timers
  <2>2. TimersRun
    BY <2>1 DEF TimerSet, TimersRun
  <2> QED  BY <1>2, <1>3, <2>2 DEF Waits, TimerWins
<1>4. CASE TimerCancels(id)
  <2>1. TimerFires(id) /\ ctxs[id].timer = "won"
    BY <1>4, TimerCancelsEffect DEF TimerCancels
  <2>2. TimersRun /\ SomeTimerWon'
    BY <2>1 DEF TimerFires, TimersRun, SomeTimerWon
  <2> QED  BY <1>2, <2>2 DEF Waits
<1> QED  BY <1>1, <1>3, <1>4

\* Policies that block or answer without a retry.
LEMMA BlockedAnswers == ASSUME IInv, Blocked PROVE Answers
<1>1. at \in 1..Depth /\ policies[at].kind \in {"breaker", "bulkhead", "cache"} /\ Exit(PreExecute)
      /\ UNCHANGED <<policies, mode, levelCtx, ctxs, canceledResult>>
  BY DEF Blocked
<1>2. NoNewTimeout(PreExecute)
  <2>1. \A v \in {"blocked", "cached"} :
          NoNewTimeout(FailureResult(v)) /\ NoNewTimeout(FnResult(v))
    BY ResultValues DEF NoNewTimeout, Values
  <2>2. NoNewTimeout(CancelResult)
    BY CancelResultValue
  <2>3. NoNewTimeout(BulkheadPreExecute)
    <3>1. CASE Done(levelCtx[at])
      BY <2>2, <3>1 DEF BulkheadPreExecute
    <3>2. CASE ~Done(levelCtx[at])
      BY <2>1, <3>2 DEF BulkheadPreExecute
    <3> QED  BY <3>1, <3>2
  <2>4. CASE policies[at].kind = "breaker"
    BY <2>1, <2>4 DEF PreExecute
  <2>5. CASE policies[at].kind = "bulkhead"
    BY <2>3, <2>5 DEF PreExecute
  <2>6. CASE policies[at].kind = "cache"
    BY <2>1, <2>6 DEF PreExecute, CachePreExecute
  <2> QED  BY <1>1, <2>4, <2>5, <2>6
<1> QED  BY <1>1, <1>2 DEF Exit, Answers

\* Breakers, bulkheads, caches and fallbacks.
LEMMA OthersAnswer ==
  ASSUME IInv,
         \/ ExitBreaker \/ ExitBulkheadOrCache
         \/ ExitFallback \/ \E v \in {"fallbackOk", "fallbackFail"} : FallbackReturns(v)
  PROVE  Answers
<1>1. /\ at \in 1..Depth /\ policies[at].kind # "timeout" /\ step # "enter"
      /\ UNCHANGED <<policies, mode, levelCtx, ctxs, canceledResult>>
  BY DEF ExitBreaker, ExitBulkheadOrCache, ExitFallback, FallbackReturns, AtPolicy
<1>2. /\ NoNewTimeout(result) /\ NoNewTimeout(CancelResult)
      /\ NoNewTimeout(WithFailure(result)) /\ NoNewTimeout(WithDone(result, TRUE, TRUE))
      /\ \A v \in {"fallbackOk", "fallbackFail"} : NoNewTimeout(FallbackResult(v))
  <2>1. WithFailure(result).val = result.val /\ WithDone(result, TRUE, TRUE).val = result.val
    BY ResultValues DEF IInv, FlowOK
  <2>2. \A v \in {"fallbackOk", "fallbackFail"} : NoNewTimeout(FallbackResult(v))
    BY DEF FallbackResult, NoNewTimeout
  <2> QED  BY <2>1, <2>2, CancelResultValue DEF NoNewTimeout
<1>3. \/ \E r : NoNewTimeout(r) /\ Exit(r)
      \/ result' = WithFailure(result) /\ step' = "fallback" /\ at' = at
  BY <1>2 DEF ExitBreaker, ExitBulkheadOrCache, ExitFallback, FallbackReturns
<1> QED  BY <1>1, <1>2, <1>3 DEF Exit, Answers

\* The retry executor, unless it starts an attempt.
LEMMA RetryAnswers ==
  ASSUME IInv,
         ExitRetry \/ RecordResult \/ (InitializeRetry /\ ~(CountRetry /\ StartAttempt))
  PROVE  Answers
<1>1. /\ at \in 1..Depth /\ policies[at].kind # "timeout" /\ step # "enter"
      /\ UNCHANGED <<policies, mode, levelCtx, ctxs>> /\ result \in Results
  BY DEF IInv, FlowOK, ExitRetry, RecordResult, InitializeRetry, AtPolicy
<1>2. canceledResult' \in {canceledResult, "nil"}
  BY DEF ExitRetry, RecordResult, InitializeRetry, CountRetry
<1>3. NoNewTimeout(CancelResult) /\ NoNewTimeout(result)
  BY CancelResultValue DEF NoNewTimeout
<1>4. \A d \in BOOLEAN, t \in BOOLEAN : NoNewTimeout(WithDone(result, d, t))
  BY <1>1, ResultValues DEF NoNewTimeout
<1>5. \A v \in {"retrypolicy.ExceededError", "budget.ErrExceeded"} : NoNewTimeout(FailureResult(v))
  BY ResultValues DEF NoNewTimeout, Values
<1>6. ASSUME NEW tooLong \in BOOLEAN, RetryOnFailure(tooLong)
      PROVE  \E r : NoNewTimeout(r) /\ (Exit(r) \/ (result' = r /\ step' = "retryRecord" /\ at' = at))
  <2> DEFINE p        == policies[at]
             failed   == failedAttempts[at] + 1
             exceeded == RetriesUsedUp(failed, p) \/ tooLong
             done     == result.val \in p.abortOn \/ exceeded \/ p.maxRetries = 0
             answer   == IF exceeded /\ ~p.returnLastFailure
                         THEN FailureResult("retrypolicy.ExceededError")
                         ELSE WithDone(result, done, FALSE)
  <2>1. Exit(answer) \/ (result' = answer /\ step' = "retryRecord" /\ at' = at)
    BY <1>6 DEF RetryOnFailure
  <2>2. done \in BOOLEAN
    OBVIOUS
  <2>3. NoNewTimeout(answer)
    BY <1>4, <1>5, <2>2
  <2> QED  BY <2>1, <2>3
<1>7. CASE \E r : NoNewTimeout(r) /\ (Exit(r) \/ (result' = r /\ step' = "retryRecord" /\ at' = at))
  BY <1>1, <1>2, <1>7 DEF Exit, Answers
<1>8. CASE ExitRetry
  BY <1>3, <1>4, <1>6, <1>7, <1>8 DEF ExitRetry
<1>9. CASE RecordResult
  BY <1>1, <1>2, <1>3, <1>7, <1>9 DEF RecordResult, Answers
<1>10. CASE InitializeRetry /\ ~(CountRetry /\ StartAttempt)
  <2>1. Exit(CancelResult) \/ Exit(FailureResult("budget.ErrExceeded"))
    BY <1>10 DEF InitializeRetry, BudgetExceeded
  <2> QED  BY <1>3, <1>5, <1>7, <2>1
<1> QED  BY <1>8, <1>9, <1>10

\* Every step is of one of these kinds.
LEMMA StepKinds ==
  ASSUME IInv, [Next]_vars
  PROVE  \/ Waits \/ Answers \/ EnterPolicy \/ (InitializeRetry /\ CountRetry /\ StartAttempt)
         \/ EnterTimeout \/ ExitTimeout \/ FnStep
BY CancellingWaits, TimerWaits, BlockedAnswers, OthersAnswer, RetryAnswers
DEF Next, PolicyStep, Terminated

\* At the start nothing has been answered.
LEMMA InitAnswers == Init => AnswerInv
<1> SUFFICES ASSUME Init PROVE AnswerInv
  OBVIOUS
<1>1. Depth \in Nat /\ at = 1 /\ step = "enter"
  BY InitIInv, Shapes DEF Init
<1>2. result.val = "ctx.Err" /\ canceledResult = "nil"
  BY DEF Init, FailureResult
<1> QED  BY <1>1, <1>2 DEF AnswerInv, TimeoutCtxs, AnswersOfTimers, OutermostAnswer, Entered

\* The callback and the inner function never disagree, for every stack of policies: if the outermost
\* policy is a timeout whose callback won, so that its listeners heard of it, the caller gets
\* ErrExceeded, and nobody gets ErrExceeded unless a callback won.
THEOREM TimeoutAnswers == Spec => []TimeoutAnswerAgrees
<1>1. IInv /\ AnswerInv /\ [Next]_vars => AnswerInv'
  BY StepKinds, WaitsAnswers, AnswersAnswers, GoesDownAnswers, EnterTimeoutAnswers,
     ExitTimeoutAnswers, FnAnswers
<1>2. AnswerInv => TimeoutAnswerAgrees
  BY DEF AnswerInv, AnswersOfTimers, OutermostAnswer, SomeTimerWon, TimeoutAnswerAgrees
<1> QED  BY <1>1, <1>2, InitAnswers, Invariance, PTL DEF Spec

-----------------------------------------------------------------------------
(***************************************************************************)
(* The contexts of timeouts are released.  A stack is covered if no        *)
(* function defers, or if the function runs once and below one timeout:    *)
(* the function that DeferCancel returned cancels one context, and by then *)
(* a second timeout, or the timeout of another attempt, may have left its  *)
(* own to it.  In a covered stack a context that is left alone by its      *)
(* timeout is the one that waits to be canceled by that function.          *)
(***************************************************************************)
RunsOnce   == \A l \in 1..Depth : policies[l].kind # "retry"
OneTimeout == \A l, m \in 1..Depth :
                 policies[l].kind = "timeout" /\ policies[m].kind = "timeout" => l = m
Covered    == ~mode.mayDefer \/ (RunsOnce /\ OneTimeout)

Pending == deferred \cup cancelling

NothingDeferred == ~mode.mayDefer => ~deferCancel /\ Pending = {}

\* The flag and the functions that are still to be called agree, once the function was run.
FlagAgrees ==
    RunsOnce =>
        /\ step = "enter" => Pending = {}
        /\ deferCancel => deferred = {FnCtx} /\ cancelling = {}
        /\ ~deferCancel => deferred = {}

\* The function runs with the context of the one timeout.
BelowTimeout ==
    RunsOnce /\ OneTimeout =>
        \A l \in 1..Depth : policies[l].kind = "timeout" =>
            \A m \in l + 1..Depth + 1 :
                m <= at \/ Pending # {} => levelCtx[m] = levelCtx[l + 1]

Leftover(i) == ctxs[i].timer \in {"stopped", "fired"} /\ ~ctxs[i].done

LeftoversPending == Covered => \A i \in 1..Len(ctxs) : Leftover(i) => i \in Pending

ReleaseInv == NothingDeferred /\ FlagAgrees /\ BelowTimeout /\ LeftoversPending

\* The stack does not change during an execution.
LEMMA SameStack ==
  ASSUME policies' = policies, mode' = mode
  PROVE  Depth' = Depth /\ RunsOnce' = RunsOnce /\ OneTimeout' = OneTimeout /\ Covered' = Covered
BY DEF Depth, RunsOnce, OneTimeout, Covered

\* No new leftovers.
LeftoversKept ==
    /\ Len(ctxs') = Len(ctxs)
    /\ \A i \in 1..Len(ctxs) : Leftover(i)' => Leftover(i)

\* Steps of the goroutine, above the function, and of those who cancel from outside.
LEMMA UndeferredReleases ==
  ASSUME IInv, ReleaseInv,
         UNCHANGED <<policies, mode, levelCtx, deferCancel, deferred, cancelling>>,
         at' \in 0..at, step' = "enter" => step = "enter",
         LeftoversKept
  PROVE  ReleaseInv'
<1>1. Depth \in Nat /\ at \in 0..Depth + 1
  BY Shapes
<1>2. Depth' = Depth /\ RunsOnce' = RunsOnce /\ OneTimeout' = OneTimeout /\ Covered' = Covered
  BY SameStack
<1>3. Pending' = Pending /\ FnCtx' = FnCtx
  BY <1>2 DEF Pending, FnCtx
<1>4. NothingDeferred' /\ FlagAgrees'
  BY <1>2, <1>3 DEF ReleaseInv, NothingDeferred, FlagAgrees
<1>5. BelowTimeout'
  BY <1>1, <1>2, <1>3 DEF ReleaseInv, BelowTimeout
<1>6. LeftoversPending'
  BY <1>2, <1>3 DEF ReleaseInv, LeftoversPending, LeftoversKept
<1> QED  BY <1>4, <1>5, <1>6 DEF ReleaseInv

\* Contexts that do not change, and cancellations, leave nothing over.
LEMMA CancelKeepsLeftovers ==
  ASSUME IInv, ctxs' = ctxs \/ \E id : ctxs' = CancelCtx(ctxs, id)
  PROVE  LeftoversKept
<1>1. CASE ctxs' = ctxs
  BY <1>1 DEF LeftoversKept, Leftover
<1>2. CASE \E id : ctxs' = CancelCtx(ctxs, id)
  <2>1. PICK id : ctxs' = CancelCtx(ctxs, id)
    BY <1>2
  <2>2. CanceledFrom(ctxs, ctxs', id)
    BY <2>1, Shapes, CancelCtxEffect
  <2> QED  BY <2>2 DEF CanceledFrom, LeftoversKept, Leftover
<1> QED  BY <1>1, <1>2

\* A policy answers, or goes on at its level.
LEMMA AnswersRelease ==
  ASSUME IInv, ReleaseInv, Answers, UNCHANGED <<deferCancel, deferred, cancelling>>
  PROVE  ReleaseInv'
<1>1. at' \in 0..at /\ (step' = "enter" => step = "enter")
  BY DEF Answers
<1> QED  BY <1>1, CancelKeepsLeftovers, UndeferredReleases DEF Answers

\* A timer fires, and cancels what it leaves.
LEMMA TimerReleases == ASSUME IInv, ReleaseInv, TimerStep PROVE ReleaseInv'
<1>1. PICK id \in 1..Len(ctxs) : TimerWins(id) \/ TimerCancels(id)
  BY DEF TimerStep
<1>2. UNCHANGED <<policies, mode, levelCtx, at, step, deferCancel, deferred, cancelling>>
  BY <1>1 DEF TimerWins, TimerCancels, deferVars
<1>3. LeftoversKept
  <2>1. CASE TimerWins(id)
    <3>1. TimerSet(ctxs, ctxs', id, "won")
      BY <2>1, Shapes, SetTimerEffect DEF TimerWins, Timers
    <3> QED  BY <3>1 DEF TimerSet, LeftoversKept, Leftover
  <2>2. CASE TimerCancels(id)
    <3>1. TimerFires(id) /\ id \in ctxs[id].ancestors
      BY <2>2, Shapes, TimerCancelsEffect
    <3> QED  BY <3>1 DEF TimerFires, LeftoversKept, Leftover
  <2> QED  BY <1>1, <2>1, <2>2
<1>4. at' \in 0..at
  BY <1>2, Shapes
<1> QED  BY <1>2, <1>3, <1>4, UndeferredReleases

\* Cancellation from outside, and the end of the execution.
LEMMA CancelReleases ==
  ASSUME IInv, ReleaseInv,
         CancelSetsResult \/ CancelCancelsContext \/ CancelConfiguredContext \/ Finish \/ UNCHANGED vars
  PROVE  ReleaseInv'
<1>1. UNCHANGED <<policies, mode, levelCtx, at, deferCancel, deferred, cancelling>>
  BY DEF CancelSetsResult, CancelCancelsContext, CancelConfiguredContext, Finish, vars, deferVars
<1>2. step' \in {step, "done"}
  BY DEF CancelSetsResult, CancelCancelsContext, CancelConfiguredContext, Finish, vars
<1>3. ctxs' = ctxs \/ \E id : ctxs' = CancelCtx(ctxs, id)
  BY DEF CancelSetsResult, CancelCancelsContext, CancelConfiguredContext, Finish, vars
<1>4. at' \in 0..at
  BY <1>1, Shapes
<1> QED  BY <1>1, <1>2, <1>3, <1>4, CancelKeepsLeftovers, UndeferredReleases

\* A policy passes its execution on.
LEMMA EnterPolicyReleases == ASSUME IInv, ReleaseInv, EnterPolicy PROVE ReleaseInv'
<1>1. /\ Depth \in Nat /\ at \in 1..Depth /\ step = "enter" /\ step' = "enter" /\ at' = at + 1
      /\ policies[at].kind # "timeout"
      /\ UNCHANGED <<policies, mode, ctxs, deferCancel, deferred, cancelling>>
  BY Shapes DEF EnterPolicy, deferVars
<1>2. Depth' = Depth /\ RunsOnce' = RunsOnce /\ OneTimeout' = OneTimeout /\ Covered' = Covered
  BY <1>1, SameStack
<1>3. Pending' = Pending
  BY <1>1 DEF Pending
<1>4. levelCtx'[at + 1] = levelCtx[at] /\ \A l \in 1..at : levelCtx'[l] = levelCtx[l]
  BY <1>1 DEF IInv, CtxOK, EnterPolicy
<1>5. NothingDeferred'
  BY <1>1, <1>2, <1>3 DEF ReleaseInv, NothingDeferred
<1>6. RunsOnce => Pending = {} /\ ~deferCancel
  BY <1>1 DEF ReleaseInv, FlagAgrees, Pending
<1>7. FlagAgrees'
  BY <1>1, <1>2, <1>3, <1>6 DEF FlagAgrees, Pending
<1>8. BelowTimeout'
  <2> SUFFICES ASSUME RunsOnce, OneTimeout, NEW l \in 1..Depth, policies[l].kind = "timeout",
                      NEW m \in l + 1..Depth + 1, m <= at + 1
               PROVE  levelCtx'[m] = levelCtx'[l + 1]
    BY <1>1, <1>2, <1>3, <1>6 DEF BelowTimeout
  <2>1. l < at
    BY <1>1
  <2>2. \A k \in l + 1..Depth + 1 : k <= at => levelCtx[k] = levelCtx[l + 1]
    BY DEF ReleaseInv, BelowTimeout
  <2>3. levelCtx[at] = levelCtx[l + 1] /\ levelCtx'[l + 1] = levelCtx[l + 1]
    BY <1>1, <1>4, <2>1, <2>2
  <2>4. CASE m = at + 1
    BY <1>4, <2>3, <2>4
  <2>5. CASE m <= at
    BY <1>1, <1>4, <2>2, <2>3, <2>5
  <2> QED  BY <1>1, <2>4, <2>5
<1>9. LeftoversPending'
  BY <1>1, <1>2, <1>3 DEF ReleaseInv, LeftoversPending, Leftover
<1> QED  BY <1>5, <1>7, <1>8, <1>9 DEF ReleaseInv

\* A retry goes down again, in a stack whose function may defer but is not covered, or not at all.
LEMMA StartAttemptReleases ==
  ASSUME IInv, ReleaseInv, InitializeRetry, StartAttempt
  PROVE  ReleaseInv'
<1>1. /\ at \in 1..Depth /\ policies[at].kind = "retry"
      /\ UNCHANGED <<policies, mode, ctxs, levelCtx, deferCancel, deferred, cancelling>>
  BY DEF InitializeRetry, AtPolicy, deferVars
<1>2. Depth' = Depth /\ RunsOnce' = RunsOnce /\ OneTimeout' = OneTimeout /\ Covered' = Covered
  BY <1>1, SameStack
<1>3. ~RunsOnce /\ Pending' = Pending
  BY <1>1 DEF RunsOnce, Pending
<1>4. NothingDeferred' /\ FlagAgrees' /\ BelowTimeout'
  BY <1>1, <1>2, <1>3 DEF ReleaseInv, NothingDeferred, FlagAgrees, BelowTimeout
<1>5. LeftoversPending'
  BY <1>1, <1>2, <1>3 DEF ReleaseInv, LeftoversPending, Leftover
<1> QED  BY <1>4, <1>5 DEF ReleaseInv

\* A timeout makes a context, whose timer is armed.
LEMMA EnterTimeoutReleases == ASSUME IInv, ReleaseInv, EnterTimeout PROVE ReleaseInv'
<1>1. /\ Depth \in Nat /\ at \in 1..Depth /\ step = "enter" /\ step' = "enter" /\ at' = at + 1
      /\ policies[at].kind = "timeout" /\ levelCtx[at] \in 1..Len(ctxs) /\ Len(ctxs) \in Nat
      /\ UNCHANGED <<policies, mode, deferCancel, deferred, cancelling>>
  <2>1. Depth \in Nat /\ at \in 1..Depth
    BY Shapes DEF EnterTimeout, AtPolicy
  <2>2. at \in 1..Depth + 1
    BY <2>1
  <2> QED  BY <2>1, <2>2, Shapes DEF EnterTimeout, AtPolicy, deferVars
<1>2. Depth' = Depth /\ RunsOnce' = RunsOnce /\ OneTimeout' = OneTimeout /\ Covered' = Covered
  BY <1>1, SameStack
<1>3. Pending' = Pending
  BY <1>1 DEF Pending
<1>4. /\ Len(ctxs') = Len(ctxs) + 1
      /\ \A i \in 1..Len(ctxs) : ctxs'[i] = ctxs[i]
  BY <1>1, ChildCtxTree DEF IInv, CtxOK, EnterTimeout
<1>5. ctxs'[Len(ctxs) + 1].timer = "armed"
  <2>1. ctxs \in Seq(Contexts)
    BY DEF IInv, CtxOK, CtxTree
  <2>2. ctxs' = Append(ctxs, ChildCtx(levelCtx[at]))
    BY DEF EnterTimeout
  <2>3. ctxs'[Len(ctxs) + 1] = ChildCtx(levelCtx[at])
    BY <2>1, <2>2
  <2> QED  BY <2>3 DEF ChildCtx
<1>6. NothingDeferred'
  BY <1>1, <1>2, <1>3 DEF ReleaseInv, NothingDeferred
<1>7. RunsOnce => Pending = {} /\ ~deferCancel
  BY <1>1 DEF ReleaseInv, FlagAgrees, Pending
<1>8. FlagAgrees'
  BY <1>1, <1>2, <1>3, <1>7 DEF FlagAgrees, Pending
<1>9. BelowTimeout'
  <2> SUFFICES ASSUME RunsOnce, OneTimeout, NEW l \in 1..Depth, policies[l].kind = "timeout",
                      NEW m \in l + 1..Depth + 1, m <= at + 1
               PROVE  levelCtx'[m] = levelCtx'[l + 1]
    BY <1>1, <1>2, <1>3, <1>7 DEF BelowTimeout
  <2>1. l = at
    BY <1>1 DEF OneTimeout
  <2>2. m = l + 1
    BY <1>1, <2>1
  <2> QED  BY <2>2
<1>10. LeftoversPending'
  <2> SUFFICES ASSUME Covered, NEW i \in 1..Len(ctxs'), Leftover(i)' PROVE i \in Pending
    BY <1>2, <1>3 DEF LeftoversPending
  <2>1. i \in 1..Len(ctxs)
    BY <1>1, <1>4, <1>5 DEF Leftover
  <2> QED  BY <1>4, <2>1 DEF ReleaseInv, LeftoversPending, Leftover
<1> QED  BY <1>6, <1>8, <1>9, <1>10 DEF ReleaseInv

\* The user's function returns, and may defer the cancellation of its context.
LEMMA FnReleases == ASSUME IInv, ReleaseInv, FnStep PROVE ReleaseInv'
<1>1. PICK v \in FnValues \cup {"ctx.Err"}, defers \in BOOLEAN : FnReturns(v, defers)
  BY DEF FnStep
<1>2. /\ Depth \in Nat /\ at = Depth + 1 /\ at' = Depth /\ step = "enter" /\ step' = "exit"
      /\ UNCHANGED <<policies, mode, ctxs, levelCtx, cancelling>>
      /\ deferCancel' = (deferCancel \/ defers)
      /\ deferred' = IF defers THEN deferred \cup {FnCtx} ELSE deferred
      /\ defers => mode.mayDefer
  BY <1>1, Shapes DEF FnReturns, Exit
<1>3. Depth' = Depth /\ RunsOnce' = RunsOnce /\ OneTimeout' = OneTimeout /\ Covered' = Covered
  BY <1>2, SameStack
<1>4. FnCtx' = FnCtx
  BY <1>2, <1>3 DEF FnCtx
<1>5. NothingDeferred'
  BY <1>2 DEF ReleaseInv, NothingDeferred, Pending
<1>6. RunsOnce => Pending = {} /\ ~deferCancel
  BY <1>2 DEF ReleaseInv, FlagAgrees, Pending
<1>7. FlagAgrees'
  <2>1. ASSUME RunsOnce
        PROVE  /\ deferCancel' => deferred' = {FnCtx} /\ cancelling' = {}
               /\ ~deferCancel' => deferred' = {}
    <3>1. CASE defers
      BY <1>2, <1>6, <2>1, <3>1 DEF Pending
    <3>2. CASE ~defers
      BY <1>2, <1>6, <2>1, <3>2 DEF Pending
    <3> QED  BY <3>1, <3>2
  <2> QED  BY <1>2, <1>3, <1>4, <2>1 DEF FlagAgrees
<1>8. BelowTimeout'
  <2>1. ASSUME RunsOnce, OneTimeout, NEW l \in 1..Depth, policies[l].kind = "timeout",
               NEW m \in l + 1..Depth + 1
        PROVE  levelCtx[m] = levelCtx[l + 1]
    <3>1. m <= at
      BY <1>2
    <3> QED  BY <2>1, <3>1 DEF ReleaseInv, BelowTimeout
  <2> QED  BY <1>2, <1>3, <2>1 DEF BelowTimeout
<1>9. Pending \subseteq Pending'
  BY <1>2 DEF Pending
<1>10. LeftoversPending'
  BY <1>2, <1>3, <1>9 DEF ReleaseInv, LeftoversPending, Leftover
<1> QED  BY <1>5, <1>7, <1>8, <1>10 DEF ReleaseInv

\* A timeout answers.  The context it leaves alone is the one the function ran with, and the
\* function that cancels it is still to be called.
LEMMA ExitTimeoutReleases == ASSUME IInv, ReleaseInv, ExitTimeout PROVE ReleaseInv'
<1> DEFINE id == levelCtx[at + 1]
<1>1. /\ Depth \in Nat /\ at \in 1..Depth /\ step = "exit" /\ step' = "exit" /\ at' = at - 1
      /\ policies[at].kind = "timeout"
      /\ UNCHANGED <<policies, mode, levelCtx, deferCancel, deferred, cancelling>>
  BY Shapes DEF ExitTimeout, AtPolicy, Exit, deferVars
<1>2. Depth' = Depth /\ RunsOnce' = RunsOnce /\ OneTimeout' = OneTimeout /\ Covered' = Covered
  BY <1>1, SameStack
<1>3. Pending' = Pending /\ FnCtx' = FnCtx
  BY <1>1, <1>2 DEF Pending, FnCtx
<1>4. NothingDeferred' /\ FlagAgrees'
  BY <1>1, <1>2, <1>3 DEF ReleaseInv, NothingDeferred, FlagAgrees
<1>5. BelowTimeout'
  BY <1>1, <1>2, <1>3 DEF ReleaseInv, BelowTimeout
<1>6. /\ id \in 1..Len(ctxs) /\ Len(ctxs') = Len(ctxs) /\ id \in ctxs[id].ancestors
      /\ StopsTimer(id) \/ ctxs' = ctxs
  BY TimeoutOutcomes, Shapes
<1>7. ASSUME Covered, deferCancel PROVE id \in Pending
  <2>1. RunsOnce /\ OneTimeout
    BY <1>7 DEF ReleaseInv, NothingDeferred, Covered
  <2>2. FnCtx \in Pending
    BY <1>7, <2>1 DEF ReleaseInv, FlagAgrees, Pending
  <2>3. Depth + 1 \in at + 1..Depth + 1
    BY <1>1
  <2>4. levelCtx[Depth + 1] = levelCtx[at + 1]
    BY <1>1, <2>1, <2>2, <2>3 DEF ReleaseInv, BelowTimeout
  <2> QED  BY <2>2, <2>4 DEF FnCtx
<1>8. LeftoversPending'
  <2> SUFFICES ASSUME Covered, NEW i \in 1..Len(ctxs), Leftover(i)' PROVE i \in Pending
    BY <1>2, <1>3, <1>6 DEF LeftoversPending
  <2>1. CASE Leftover(i)
    BY <2>1 DEF ReleaseInv, LeftoversPending
  <2>2. CASE ~Leftover(i)
    <3> HIDE DEF id
    <3>1. StopsTimer(id)
      BY <1>6, <2>2 DEF Leftover
    <3>2. i = id /\ ~ctxs[id].done
      BY <2>2, <3>1 DEF StopsTimer, Leftover
    <3>3. deferCancel
      BY <1>6, <3>1, <3>2 DEF StopsTimer, Leftover
    <3> QED  BY <1>7, <3>2, <3>3
  <2> QED  BY <2>1, <2>2
<1> QED  BY <1>4, <1>5, <1>8 DEF ReleaseInv

\* The function that DeferCancel returned is called: the flag is still set, so it does cancel.
LEMMA CallDeferredReleases ==
  ASSUME IInv, ReleaseInv, NEW id \in 1..Len(ctxs), CallDeferred(id)
  PROVE  ReleaseInv'
<1>1. /\ id \in deferred /\ deferred' = deferred \ {id} /\ deferCancel' = FALSE
      /\ cancelling' = IF deferCancel THEN cancelling \cup {id} ELSE cancelling
      /\ UNCHANGED <<policies, mode, ctxs, levelCtx, at, step>>
  BY DEF CallDeferred
<1>2. Depth' = Depth /\ RunsOnce' = RunsOnce /\ OneTimeout' = OneTimeout /\ Covered' = Covered
  BY <1>1, SameStack
<1>3. mode.mayDefer
  BY <1>1 DEF ReleaseInv, NothingDeferred, Pending
<1>4. RunsOnce => deferCancel /\ deferred = {id} /\ step # "enter"
  BY <1>1 DEF ReleaseInv, FlagAgrees, Pending
<1>5. RunsOnce => Pending' = Pending /\ deferred' = {}
  BY <1>1, <1>4 DEF Pending
<1>6. NothingDeferred' /\ FlagAgrees'
  BY <1>1, <1>2, <1>3, <1>4, <1>5 DEF NothingDeferred, FlagAgrees
<1>7. BelowTimeout'
  BY <1>1, <1>2, <1>5 DEF ReleaseInv, BelowTimeout
<1>8. Covered => RunsOnce
  BY <1>3 DEF Covered
<1>9. LeftoversPending'
  BY <1>1, <1>2, <1>5, <1>8 DEF ReleaseInv, LeftoversPending, Leftover
<1> QED  BY <1>6, <1>7, <1>9 DEF ReleaseInv

\* Its Cancel(nil): the flag is down, so a context with a timer is canceled.
LEMMA DeferredCancelsReleases ==
  ASSUME IInv, ReleaseInv, NEW id \in 1..Len(ctxs), DeferredCancels(id)
  PROVE  ReleaseInv'
<1>1. /\ id \in cancelling /\ cancelling' = cancelling \ {id}
      /\ ctxs' = IF ctxs[id].timer = "none" THEN ctxs ELSE CancelWithoutResult(ctxs, id)
      /\ UNCHANGED <<policies, mode, levelCtx, at, step, deferCancel, deferred>>
  BY DEF DeferredCancels
<1>2. Depth' = Depth /\ RunsOnce' = RunsOnce /\ OneTimeout' = OneTimeout /\ Covered' = Covered
  BY <1>1, SameStack
<1>3. mode.mayDefer
  BY <1>1 DEF ReleaseInv, NothingDeferred, Pending
<1>4. RunsOnce => ~deferCancel /\ deferred = {} /\ step # "enter"
  BY <1>1 DEF ReleaseInv, FlagAgrees, Pending
<1>5. NothingDeferred' /\ FlagAgrees'
  BY <1>1, <1>2, <1>3, <1>4 DEF NothingDeferred, FlagAgrees
<1>6. Pending' \subseteq Pending
  BY <1>1 DEF Pending
<1>7. BelowTimeout'
  BY <1>1, <1>2, <1>6 DEF ReleaseInv, BelowTimeout
<1>8. Covered => RunsOnce
  BY <1>3 DEF Covered
<1>9. LeftoversKept
  BY <1>1, CancelKeepsLeftovers DEF CancelWithoutResult
<1>10. LeftoversPending'
  <2> SUFFICES ASSUME Covered, NEW i \in 1..Len(ctxs), Leftover(i)' PROVE i \in Pending'
    BY <1>2, <1>9 DEF LeftoversPending, LeftoversKept
  <2>1. i \in Pending /\ Leftover(i)
    BY <1>9 DEF ReleaseInv, LeftoversPending, LeftoversKept
  <2>2. i # id
    <3> SUFFICES ASSUME i = id PROVE FALSE
      OBVIOUS
    <3>1. ~ctxs[id].done /\ ctxs[id].timer # "none" /\ ~deferCancel
      BY <1>4, <1>8, <2>1 DEF Leftover
    <3>2. ctxs' = CancelCtx(ctxs, id)
      BY <1>1, <3>1 DEF CancelWithoutResult
    <3>3. CanceledFrom(ctxs, ctxs', id) /\ id \in ctxs[id].ancestors
      BY <3>2, Shapes, CancelCtxEffect
    <3> QED  BY <3>3 DEF CanceledFrom, Leftover
  <2> QED  BY <1>1, <2>1, <2>2 DEF Pending
<1> QED  BY <1>5, <1>7, <1>10 DEF ReleaseInv

\* At the start nothing is deferred.
LEMMA InitReleases == Init => ReleaseInv
<1> SUFFICES ASSUME Init PROVE ReleaseInv
  OBVIOUS
<1>1. /\ Depth \in Nat /\ at = 1 /\ Pending = {} /\ ~deferCancel /\ deferred = {}
  BY InitIInv, Shapes DEF Init, Pending
<1>2. \A i \in 1..Len(ctxs) : ctxs[i].timer = "none"
  <2>1. CASE mode.async
    BY <2>1 DEF Init
  <2>2. CASE ~mode.async
    BY <2>2 DEF Init
  <2> QED  BY <2>1, <2>2
<1>3. LeftoversPending
  BY <1>2 DEF LeftoversPending, Leftover
<1>4. BelowTimeout
  BY <1>1 DEF BelowTimeout
<1> QED  BY <1>1, <1>3, <1>4 DEF ReleaseInv, NothingDeferred, FlagAgrees

\* The invariant of released contexts is inductive.
LEMMA NextReleases == ASSUME IInv, ReleaseInv, [Next]_vars PROVE ReleaseInv'
<1>1. CASE Blocked \/ ExitBreaker \/ ExitBulkheadOrCache \/ ExitFallback
           \/ \E v \in {"fallbackOk", "fallbackFail"} : FallbackReturns(v)
  <2>1. Answers
    BY <1>1, BlockedAnswers, OthersAnswer
  <2>2. UNCHANGED <<deferCancel, deferred, cancelling>>
    BY <1>1 DEF Blocked, ExitBreaker, ExitBulkheadOrCache, ExitFallback, FallbackReturns, deferVars
  <2> QED  BY <2>1, <2>2, AnswersRelease
<1>2. CASE ExitRetry \/ RecordResult \/ (InitializeRetry /\ ~(CountRetry /\ StartAttempt))
  <2>1. Answers
    BY <1>2, RetryAnswers
  <2>2. UNCHANGED <<deferCancel, deferred, cancelling>>
    BY <1>2 DEF ExitRetry, RecordResult, InitializeRetry, deferVars
  <2> QED  BY <2>1, <2>2, AnswersRelease
<1>3. CASE InitializeRetry /\ CountRetry /\ StartAttempt
  BY <1>3, StartAttemptReleases
<1>4. CASE EnterPolicy \/ EnterTimeout \/ ExitTimeout
  BY <1>4, EnterPolicyReleases, EnterTimeoutReleases, ExitTimeoutReleases
<1>5. CASE FnStep \/ TimerStep
  BY <1>5, FnReleases, TimerReleases
<1>6. CASE DeferStep
  BY <1>6, CallDeferredReleases, DeferredCancelsReleases DEF DeferStep
<1>7. CASE CancelSetsResult \/ CancelCancelsContext \/ CancelConfiguredContext \/ Finish \/ UNCHANGED vars
  BY <1>7, CancelReleases
<1> QED  BY <1>1, <1>2, <1>3, <1>4, <1>5, <1>6, <1>7 DEF Next, PolicyStep, Terminated

\* No timeout leaks its context: not in any stack whose function does not defer cancellation, and,
\* where it does, not in a stack with one timeout and no retries, once the function that DeferCancel
\* returned has been called, whoever cancels and whichever of the timer, the return of the timeout
\* and that call come first.
THEOREM TimeoutContextsReleased == Spec => [](Covered => ChildContextsReleased)
<1>1. ReleaseInv => (Covered => ChildContextsReleased)
  <2> SUFFICES ASSUME ReleaseInv, Covered, deferred = {}, cancelling = {},
                      NEW i \in 1..Len(ctxs), ctxs[i].timer \in {"stopped", "fired"}, ~ctxs[i].done
               PROVE  FALSE
    BY DEF ChildContextsReleased
  <2> QED  BY DEF ReleaseInv, LeftoversPending, Leftover, Pending
<1>2. IInv /\ ReleaseInv /\ [Next]_vars => ReleaseInv'
  BY NextReleases
<1> QED  BY <1>1, <1>2, InitReleases, Invariance, PTL DEF Spec
-----------------------------------------------------------------------------
(***************************************************************************)
(* The number of attempts.  Its bound is a sum over the levels, which is   *)
(* built up from the innermost one.  The sum of the retries that were made *)
(* has the same shape: made[l] counts those of level l and below, so that  *)
(* a retry of level l adds one to made[m] for every m up to l.             *)
(***************************************************************************)
Allowed(p) == IF p.kind = "retry" THEN p.maxRetries ELSE 0

Retrying == step \in {"retryRecord", "retryDelay"}

\* A level has made no more retries than attempts below it failed, and one less while it is about
\* to retry.
CountedBy(made) ==
    /\ made \in [1..Depth + 1 -> Nat]
    /\ made[Depth + 1] = 0 /\ attempts = 1 + made[1]
    /\ \A l \in 1..Depth :
         /\ made[l + 1] <= made[l]
         /\ made[l] <= made[l + 1] + failedAttempts[l]
         /\ made[l] <= made[l + 1] + Allowed(policies[l])
         /\ Retrying /\ l = at =>
              /\ made[l] < made[l + 1] + failedAttempts[l]
              /\ failedAttempts[l] <= policies[l].maxRetries

RetriesCounted == \E made : CountedBy(made)

\* Induction over the natural numbers, by the least one that is left out.
LEMMA Induction ==
  ASSUME NEW S \in SUBSET Nat, 0 \in S, \A n \in S : n + 1 \in S
  PROVE  S = Nat
<1> SUFFICES ASSUME Nat \ S # {} PROVE FALSE
  OBVIOUS
<1> DEFINE less == OpToRel(<, Nat)
<1>1. PICK n \in Nat \ S : \A m \in Nat \ S : ~(<<m, n>> \in less)
  BY NatLessThanWellFounded, WFMin
<1>2. \A m \in Nat \ S : m < n => <<m, n>> \in less
  BY DEF OpToRel
<1>3. \A m \in Nat \ S : ~(m < n)
  BY <1>1, <1>2, Zenon
<1>4. n # 0 /\ n - 1 \in Nat /\ n - 1 < n
  OBVIOUS
<1>5. n - 1 \in S
  BY <1>3, <1>4
<1>6. (n - 1) + 1 \in S
  BY <1>5
<1> QED  BY <1>6

\* sum[l] is the sum of the terms from level l on, for the levels that are not above "from".
SumsFrom(D, term, sum, from) ==
    /\ sum \in [1..D + 1 -> Nat]
    /\ sum[D + 1] = 0
    /\ \A l \in from..D : sum[l] = sum[l + 1] + term[l]

\* One more level can be added to a sum.
LEMMA SumsExtend ==
  ASSUME NEW D \in Nat, NEW term \in [1..D -> Nat], NEW k \in 1..D,
         NEW sum, SumsFrom(D, term, sum, k + 1)
  PROVE  \E new : SumsFrom(D, term, new, k)
<1> DEFINE v   == sum[k + 1] + term[k]
           new == [l \in 1..D + 1 |-> IF l = k THEN v ELSE sum[l]]
<1>1. k + 1 \in 1..D + 1 /\ sum[k + 1] \in Nat /\ v \in Nat /\ k # D + 1 /\ D + 1 \in 1..D + 1
  BY DEF SumsFrom
<1>2. new \in [1..D + 1 -> Nat] /\ new[D + 1] = 0
  BY <1>1 DEF SumsFrom
<1>3. new[k] = new[k + 1] + term[k]
  BY <1>1
<1>4. ASSUME NEW l \in k + 1..D PROVE new[l] = new[l + 1] + term[l]
  <2>1. l \in 1..D + 1 /\ l + 1 \in 1..D + 1 /\ l # k /\ l + 1 # k
    OBVIOUS
  <2>2. new[l] = sum[l] /\ new[l + 1] = sum[l + 1]
    BY <2>1
  <2> QED  BY <2>2 DEF SumsFrom
<1> HIDE DEF new
<1>5. \A l \in k..D : new[l] = new[l + 1] + term[l]
  BY <1>3, <1>4
<1> QED  BY <1>2, <1>5 DEF SumsFrom

\* Every sequence of terms has its sums.
LEMMA SumsExist ==
  ASSUME NEW D \in Nat, NEW term \in [1..D -> Nat]
  PROVE  \E sum : SumsFrom(D, term, sum, 1)
<1> DEFINE S == {n \in Nat : n <= D => \E sum : SumsFrom(D, term, sum, D + 1 - n)}
<1>1. 0 \in S
  <2>1. SumsFrom(D, term, [l \in 1..D + 1 |-> 0], D + 1)
    BY DEF SumsFrom
  <2> QED  BY <2>1
<1>2. \A n \in S : n + 1 \in S
  <2> SUFFICES ASSUME NEW n \in S, n + 1 <= D
               PROVE  \E sum : SumsFrom(D, term, sum, D - n)
    BY \A n \in Nat : D + 1 - (n + 1) = D - n
  <2>1. PICK sum : SumsFrom(D, term, sum, D + 1 - n)
    OBVIOUS
  <2>2. D - n \in 1..D /\ D + 1 - n = (D - n) + 1
    OBVIOUS
  <2> QED  BY <2>1, <2>2, SumsExtend
<1>3. S \in SUBSET Nat
  OBVIOUS
<1> HIDE DEF S
<1>4. D \in S
  BY <1>1, <1>2, <1>3, Induction
<1>5. D + 1 - D = 1
  OBVIOUS
<1> QED  BY <1>4, <1>5 DEF S

\* What grows by no more than the terms, level by level, is no more than their sum.
LEMMA SumsMonotonic ==
  ASSUME NEW D \in Nat, NEW term \in [1..D -> Nat],
         NEW sum, sum[D + 1] = 0, \A l \in 1..D : sum[l] = sum[l + 1] + term[l],
         NEW made \in [1..D + 1 -> Nat], made[D + 1] = 0,
         \A l \in 1..D : made[l] <= made[l + 1] + term[l]
  PROVE  sum[1] \in Nat /\ made[1] <= sum[1]
<1> DEFINE S == {n \in Nat : n <= D => sum[D + 1 - n] \in Nat /\ made[D + 1 - n] <= sum[D + 1 - n]}
<1>1. 0 \in S
  BY D + 1 - 0 = D + 1
<1>2. \A n \in S : n + 1 \in S
  <2> SUFFICES ASSUME NEW n \in S, n + 1 <= D
               PROVE  sum[D - n] \in Nat /\ made[D - n] <= sum[D - n]
    BY \A n \in Nat : D + 1 - (n + 1) = D - n
  <2>1. n \in Nat /\ D - n \in 1..D /\ D + 1 - n = (D - n) + 1 /\ D + 1 - n \in 1..D + 1
    OBVIOUS
  <2>2. sum[D + 1 - n] \in Nat /\ made[D + 1 - n] <= sum[D + 1 - n]
    BY <2>1
  <2>3. sum[D - n] = sum[D + 1 - n] + term[D - n]
    BY <2>1
  <2>4. made[D - n] <= made[D + 1 - n] + term[D - n]
    BY <2>1
  <2>5. term[D - n] \in Nat /\ made[D - n] \in Nat /\ made[D + 1 - n] \in Nat
    BY <2>1
  <2> QED  BY <2>2, <2>3, <2>4, <2>5
<1>3. S \in SUBSET Nat
  OBVIOUS
<1> HIDE DEF S
<1>4. D \in S
  BY <1>1, <1>2, <1>3, Induction
<1>5. D + 1 - D = 1
  OBVIOUS
<1> QED  BY <1>4, <1>5 DEF S

\* The recursive function of AttemptsBounded is such a sum.
LEMMA CountedWithinBound == ASSUME IInv, RetriesCounted PROVE AttemptsBounded
<1> DEFINE term == [l \in 1..Depth |-> Allowed(policies[l])]
           Sums(f) == [l \in 1..Depth + 1 |->
                         IF l > Depth THEN 0
                         ELSE f[l + 1] +
                              (IF policies[l].kind = "retry" THEN policies[l].maxRetries ELSE 0)]
           F == CHOOSE f : f = Sums(f)
<1>1. Depth \in Nat
  BY DepthType DEF IInv, CtxOK
<1>2. \A l \in 1..Depth : policies[l].maxRetries \in Nat
  <2>1. \A l \in 1..Depth : policies[l] \in Policies
    BY DEF IInv, CtxOK, Depth
  <2> QED  BY <2>1 DEF Policies
<1>3. term \in [1..Depth -> Nat]
  BY <1>1, <1>2 DEF Allowed
<1>4. PICK sum : SumsFrom(Depth, term, sum, 1)
  BY <1>1, <1>3, SumsExist
<1>5. sum = Sums(sum)
  <2>1. \A l \in 1..Depth + 1 : sum[l] = Sums(sum)[l]
    BY <1>1, <1>4 DEF SumsFrom, Allowed
  <2> QED  BY <1>1, <1>4, <2>1 DEF SumsFrom
<1>6. F = Sums(F)
  BY <1>5, Zenon
<1>7. attempts <= 1 + F[1]
  <2> HIDE DEF F
  <2>1. F[Depth + 1] = 0 /\ \A l \in 1..Depth : F[l] = F[l + 1] + term[l]
    BY <1>1, <1>6 DEF Allowed
  <2>2. PICK made : CountedBy(made)
    BY DEF RetriesCounted
  <2>3. \A l \in 1..Depth : made[l] <= made[l + 1] + term[l]
    BY <2>2 DEF CountedBy
  <2>4. F[1] \in Nat /\ made[1] <= F[1]
    BY <1>1, <1>3, <2>1, <2>2, <2>3, SumsMonotonic DEF CountedBy
  <2>5. attempts = 1 + made[1] /\ made[1] \in Nat
    BY <1>1, <2>2 DEF CountedBy
  <2> QED  BY <2>4, <2>5
<1>8. AttemptsBounded = (attempts <= 1 + F[1])
  BY DEF AttemptsBounded
<1> QED  BY <1>7, <1>8

\* At the start nothing has been retried.
LEMMA InitCounted == Init => RetriesCounted
<1> SUFFICES ASSUME Init PROVE RetriesCounted
  OBVIOUS
<1>1. IInv
  BY InitIInv
<1>2. Depth \in Nat
  BY <1>1, DepthType DEF IInv, CtxOK
<1>3. \A l \in 1..Depth : Allowed(policies[l]) \in Nat
  <2>1. \A l \in 1..Depth : policies[l] \in Policies
    BY <1>1 DEF IInv, CtxOK, Depth
  <2> QED  BY <2>1 DEF Policies, Allowed
<1>4. CountedBy([l \in 1..Depth + 1 |-> 0])
  BY <1>2, <1>3 DEF CountedBy, Init, Retrying, Depth
<1> QED  BY <1>4 DEF RetriesCounted

\* A step that neither counts a retry nor decides on one.
LEMMA CountKept ==
  ASSUME RetriesCounted, UNCHANGED <<policies, attempts, failedAttempts>>,
         Retrying' => Retrying /\ at' = at
  PROVE  RetriesCounted'
<1>1. PICK made : CountedBy(made)
  BY DEF RetriesCounted
<1>2. Depth' = Depth /\ \A l \in 1..Depth : Allowed(policies[l])' = Allowed(policies[l])
  BY DEF Depth, Allowed
<1>3. CountedBy(made)'
  BY <1>1, <1>2 DEF CountedBy
<1> QED  BY <1>3 DEF RetriesCounted

\* OnFailure: the executor goes on to retry only if it has a retry left.
LEMMA ExitRetryCounted == ASSUME IInv, RetriesCounted, ExitRetry PROVE RetriesCounted'
<1>1. /\ Depth' = Depth /\ Depth \in Nat /\ at \in 1..Depth /\ step = "exit"
      /\ policies' = policies /\ attempts' = attempts
  BY DepthType DEF IInv, CtxOK, ExitRetry, AtPolicy, Depth, counters
<1>2. CASE UNCHANGED failedAttempts /\ step' = "exit"
  BY <1>1, <1>2, CountKept DEF Retrying
<1>3. CASE \E tooLong \in BOOLEAN : RetryOnFailure(tooLong)
  <2>1. PICK tooLong \in BOOLEAN : RetryOnFailure(tooLong)
    BY <1>3
  <2>2. /\ failedAttempts' = [failedAttempts EXCEPT ![at] = failedAttempts[at] + 1]
        /\ step' = "exit" \/ (step' = "retryRecord" /\ at' = at)
    BY <2>1 DEF RetryOnFailure, Exit
  <2>3. step' = "retryRecord" => ~(failedAttempts[at] + 1 > policies[at].maxRetries)
    BY <2>1 DEF RetryOnFailure, Exit, FailureResult, WithDone, RetriesUsedUp, IInv, FlowOK, Results
  <2>4. PICK made : CountedBy(made)
    BY DEF RetriesCounted
  <2>5. failedAttempts \in [1..Depth -> Nat] /\ policies[at].maxRetries \in Nat
    <3>1. policies[at] \in Policies
      BY <1>1 DEF IInv, CtxOK, Depth
    <3> QED  BY <3>1 DEF IInv, ActorsOK, Policies
  <2>6. /\ made \in [1..Depth + 1 -> Nat]
        /\ made[Depth + 1] = 0 /\ attempts = 1 + made[1]
        /\ \A l \in 1..Depth : /\ made[l + 1] <= made[l]
                               /\ made[l] <= made[l + 1] + failedAttempts[l]
                               /\ made[l] <= made[l + 1] + Allowed(policies[l])
    BY <2>4 DEF CountedBy
  <2>7. ASSUME NEW l \in 1..Depth
        PROVE  /\ made[l] <= made[l + 1] + failedAttempts'[l]
               /\ Retrying' /\ l = at' =>
                    /\ made[l] < made[l + 1] + failedAttempts'[l]
                    /\ failedAttempts'[l] <= policies[l].maxRetries
    <3>1. l + 1 \in 1..Depth + 1 /\ made[l] \in Nat /\ made[l + 1] \in Nat
      BY <1>1, <2>6
    <3>2. CASE l # at
      BY <2>2, <2>5, <2>6, <3>1, <3>2 DEF Retrying
    <3>3. CASE l = at
      <4>1. failedAttempts'[l] = failedAttempts[l] + 1 /\ failedAttempts[l] \in Nat
        BY <2>2, <2>5, <3>3
      <4>2. Retrying' => failedAttempts[l] + 1 <= policies[l].maxRetries
        BY <2>2, <2>3, <2>5, <3>3, <4>1 DEF Retrying
      <4> QED  BY <2>6, <3>1, <4>1, <4>2
    <3> QED  BY <3>2, <3>3
  <2>8. CountedBy(made)'
    BY <1>1, <2>6, <2>7 DEF CountedBy, Allowed
  <2> QED  BY <2>8 DEF RetriesCounted
<1> QED  BY <1>2, <1>3 DEF ExitRetry, Exit, retryVars

\* InitializeRetry: the retry counts for its own level and those above.
LEMMA InitializeRetryCounted == ASSUME IInv, RetriesCounted, InitializeRetry PROVE RetriesCounted'
<1>1. /\ Depth' = Depth /\ Depth \in Nat /\ at \in 1..Depth /\ step = "retryDelay"
      /\ policies[at].kind = "retry" /\ policies' = policies /\ failedAttempts' = failedAttempts
      /\ step' \in {"enter", "exit"}
  BY DepthType DEF IInv, CtxOK, InitializeRetry, AtPolicy, Depth, retryVars, Exit, StartAttempt,
     BudgetExceeded
<1>2. CASE attempts' = attempts
  BY <1>1, <1>2, CountKept DEF Retrying
<1>3. CASE attempts' = attempts + 1
  <2>1. PICK made : CountedBy(made)
    BY DEF RetriesCounted
  <2> DEFINE new == [l \in 1..Depth + 1 |-> IF l <= at THEN made[l] + 1 ELSE made[l]]
  <2>2. failedAttempts \in [1..Depth -> Nat] /\ \A l \in 1..Depth : policies[l].maxRetries \in Nat
    <3>1. \A l \in 1..Depth : policies[l] \in Policies
      BY <1>1 DEF IInv, CtxOK, Depth
    <3> QED  BY <3>1 DEF IInv, ActorsOK, Policies
  <2>3. made \in [1..Depth + 1 -> Nat] /\ made[Depth + 1] = 0 /\ attempts = 1 + made[1]
    BY <2>1 DEF CountedBy
  <2>4. new \in [1..Depth + 1 -> Nat] /\ new[Depth + 1] = 0 /\ attempts' = 1 + new[1]
    BY <1>1, <1>3, <2>3
  <2>5. ASSUME NEW l \in 1..Depth
        PROVE  /\ new[l + 1] <= new[l]
               /\ new[l] <= new[l + 1] + failedAttempts[l]
               /\ new[l] <= new[l + 1] + Allowed(policies[l])
    <3>1. /\ made[l + 1] <= made[l]
          /\ made[l] <= made[l + 1] + failedAttempts[l]
          /\ made[l] <= made[l + 1] + Allowed(policies[l])
          /\ l = at => /\ made[l] < made[l + 1] + failedAttempts[l]
                       /\ failedAttempts[l] <= policies[l].maxRetries
      BY <1>1, <2>1 DEF CountedBy, Retrying
    <3>2. /\ l \in 1..Depth + 1 /\ l + 1 \in 1..Depth + 1 /\ made[l] \in Nat /\ made[l + 1] \in Nat
          /\ failedAttempts[l] \in Nat /\ Allowed(policies[l]) \in Nat
      BY <1>1, <2>2, <2>3 DEF Allowed
    <3>3. CASE l < at
      <4>1. new[l] = made[l] + 1 /\ new[l + 1] = made[l + 1] + 1
        BY <1>1, <3>2, <3>3
      <4> QED  BY <3>1, <3>2, <4>1
    <3>4. CASE l = at
      <4>1. new[l] = made[l] + 1 /\ new[l + 1] = made[l + 1]
        BY <1>1, <3>2, <3>4
      <4>2. Allowed(policies[l]) = policies[l].maxRetries
        BY <1>1, <3>4 DEF Allowed
      <4> QED  BY <3>1, <3>2, <3>4, <4>1, <4>2
    <3>5. CASE l > at
      <4>1. new[l] = made[l] /\ new[l + 1] = made[l + 1]
        BY <1>1, <3>2, <3>5
      <4> QED  BY <3>1, <3>2, <4>1
    <3> QED  BY <1>1, <3>3, <3>4, <3>5
  <2> HIDE DEF new
  <2>6. PICK g : g = new
    OBVIOUS
  <2>7. CountedBy(g)'
    BY <1>1, <2>4, <2>5, <2>6 DEF CountedBy, Allowed, Retrying
  <2> QED  BY <2>7 DEF RetriesCounted
<1> QED  BY <1>2, <1>3 DEF InitializeRetry, CountRetry

\* All other steps leave the counters and do not begin a retry.
LEMMA NextCounted == ASSUME IInv, RetriesCounted, [Next]_vars PROVE RetriesCounted'
<1>1. CASE ExitRetry \/ InitializeRetry
  BY <1>1, ExitRetryCounted, InitializeRetryCounted
<1>2. CASE EnterPolicy \/ EnterTimeout \/ Blocked \/ FnStep
  <2>1. UNCHANGED <<policies, attempts, failedAttempts>> /\ step' \in {"enter", "exit"}
    BY <1>2 DEF EnterPolicy, EnterTimeout, AtPolicy, Blocked, FnStep, FnReturns, Exit, retryVars, counters
  <2> QED  BY <2>1, CountKept DEF Retrying
<1>3. CASE ExitTimeout \/ ExitBreaker \/ ExitBulkheadOrCache \/ ExitFallback
           \/ \E v \in {"fallbackOk", "fallbackFail"} : FallbackReturns(v)
  <2>1. UNCHANGED <<policies, attempts, failedAttempts>> /\ step' \in {"exit", "fallback"}
    BY <1>3 DEF ExitTimeout, ExitBreaker, ExitBulkheadOrCache, ExitFallback, FallbackReturns, Exit,
         retryVars, counters
  <2> QED  BY <2>1, CountKept DEF Retrying
<1>4. CASE RecordResult
  <2>1. /\ UNCHANGED <<policies, attempts, failedAttempts>>
        /\ step = "retryRecord" /\ (step' = "exit" \/ at' = at)
    BY <1>4 DEF RecordResult, AtPolicy, Exit, retryVars, counters
  <2> QED  BY <2>1, CountKept DEF Retrying
<1>5. CASE Finish \/ TimerStep \/ DeferStep \/ CancelSetsResult \/ CancelCancelsContext
           \/ CancelConfiguredContext \/ UNCHANGED vars
  <2>1. /\ UNCHANGED <<policies, attempts, failedAttempts, at>>
        /\ step' = "done" \/ step' = step
    BY <1>5 DEF Finish, TimerStep, TimerWins, TimerCancels, DeferStep, CallDeferred, DeferredCancels,
         CancelSetsResult, CancelCancelsContext, CancelConfiguredContext, vars, retryVars, counters
  <2> QED  BY <2>1, CountKept DEF Retrying
<1> QED  BY <1>1, <1>2, <1>3, <1>4, <1>5 DEF Next, PolicyStep, Terminated

\* Nested retry policies do not multiply: an execution makes at most the sum of their retries, for
\* any number of them at any depth, whatever is aborted, canceled or rejected by a budget on the way.
THEOREM AttemptsLimited == Spec => []AttemptsBounded
<1>1. IInv /\ RetriesCounted /\ [Next]_vars => RetriesCounted'
  BY NextCounted
<1>2. IInv /\ RetriesCounted => AttemptsBounded
  BY CountedWithinBound
<1> QED  BY <1>1, <1>2, InitCounted, Invariance, PTL DEF Spec
=============================================================================
