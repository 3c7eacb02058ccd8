--------------------------- MODULE RequestProofs ---------------------------
(***************************************************************************)
(* Proofs about what happens to a request: the contexts of the HTTP client *)
(* and the retry policy.                                                   *)
(*                                                                         *)
(* HttpClient, for any number of attempts and every setup: no context is   *)
(* canceled while a request or a response still needs it.  The invariant   *)
(* says why a context is done.  The merged context of the call ends with   *)
(* an owner's, or when the call is over and nobody reads a body.  The      *)
(* contexts of an attempt end for one of the reasons that excuse it;       *)
(* reasons do not go away, and whatever ends with another context has the  *)
(* reason of that one.                                                     *)
(*                                                                         *)
(* RetryPolicy, for any calls of the builder and any runners: outcomes,    *)
(* delays and the number of attempts are those that the calls ask for.     *)
(* The configuration is shown to reflect the calls, by an induction over   *)
(* them: each number is the one that the last call for it gave, and each   *)
(* condition comes from one of the calls.  For the number of attempts, of  *)
(* one runner or of two that share the counter and the flag without a      *)
(* lock, a potential is shown never to grow.                               *)
(***************************************************************************)
EXTENDS HttpClient, RetryPolicy, FiniteSetTheorems, WellFoundedInduction, TLAPS

USE SetupsAssumption

Types ==
  /\ setup \in Setups
  /\ at \in [Attempts -> {"none", "sent", "answered", "failed", "ended"}]
  /\ body \in [Attempts -> {"none", "open", "closed"}]
  /\ inner = [i \in Attempts |-> inner[i]]
  /\ expired \subseteq Attempts
  /\ deferCancel \in BOOLEAN
  /\ call \in {"running", "returned"}
  /\ response \in Attempts \cup {0}
  /\ Bg \notin made \cup done

\* The state of each attempt.  A body is open only after DeferCancel was called, and until the call
\* has returned nobody takes that back.
Progress(i) ==
  /\ at[i] \in {"none", "sent"} => body[i] = "none"
  /\ at[i] = "none" => inner[i] = Bg /\ P(i) \notin made /\ I(i) \notin made
  /\ at[i] # "none" => inner[i] = Inner(i)
  /\ call = "running" /\ body[i] = "open" => deferCancel
  /\ i = response => at[i] = "ended" /\ i \notin expired

Returns ==
  /\ call = "running" => response = 0
  /\ expired # {} => setup.policy = "timeout"

Excused(i) ==
  \/ OwnerCanceled
  \/ at[i] # "none" /\ i \in expired /\ response # i
  \/ at[i] # "sent" /\ body[i] # "open"
  \/ call = "returned" /\ response # i

OuterReason == O \in done => OwnerCanceled \/ Over

Reason(i) == P(i) \in done \/ I(i) \in done => at[i] # "none" /\ Excused(i)

IInv ==
  /\ Types /\ Returns /\ OuterReason
  /\ \A i \in Attempts : Progress(i) /\ Reason(i)

-----------------------------------------------------------------------------
(***************************************************************************)
(* Contexts.                                                               *)
(***************************************************************************)
\* The contexts that the attempts own are their own.
LEMMA DistinctContexts ==
  /\ \A i, j \in Attempts : (P(i) = P(j) => i = j) /\ (I(i) = I(j) => i = j)
  /\ \A i, j \in Attempts : P(i) # I(j)
  /\ \A i \in Attempts : P(i) # O /\ P(i) # R /\ P(i) # E /\ P(i) # Bg
  /\ \A i \in Attempts : I(i) # O /\ I(i) # R /\ I(i) # E /\ I(i) # Bg
  /\ O # R /\ O # E /\ O # Bg /\ R # E /\ R # Bg /\ E # Bg
  /\ \A i \in Attempts : P(i)[1] = "P" /\ I(i)[1] = "I" /\ P(i)[2] = i /\ I(i)[2] = i
<1>1. \A i, j \in Attempts : (P(i) = P(j) => i = j) /\ (I(i) = I(j) => i = j) /\ P(i) # I(j)
  BY DEF P, I
<1>2. /\ \A i \in Attempts : P(i) # O /\ P(i) # R /\ P(i) # E /\ P(i) # Bg
      /\ \A i \in Attempts : I(i) # O /\ I(i) # R /\ I(i) # E /\ I(i) # Bg
  BY DEF P, I, O, R, E, Bg
<1>3. O # R /\ O # E /\ O # Bg /\ R # E /\ R # Bg /\ E # Bg
  BY DEF O, R, E, Bg
<1>4. \A i \in Attempts : P(i)[1] = "P" /\ I(i)[1] = "I" /\ P(i)[2] = i /\ I(i)[2] = i
  BY DEF P, I
<1> QED  BY <1>1, <1>2, <1>3, <1>4

\* The execution's context is none of the attempts' own.
LEMMA OuterContext ==
  /\ Outer \in {O, R, E, Bg} /\ Request \in {R, Bg} /\ Executor \in {E, Bg}
  /\ Outer = O => Request = R /\ Executor = E
<1>1. Request \in {R, Bg} /\ Executor \in {E, Bg}
  BY DEF Request, Executor
<1>2. Outer \in {Request, Executor, O}
  BY DEF Outer, MergeContexts
<1>3. Outer = O => Request = R /\ Executor = E
  BY <1>1, DistinctContexts DEF Outer, MergeContexts
<1> QED  BY <1>1, <1>2, <1>3

\* Canceling contexts that the call owns reaches just these.
LEMMA CanceledOwned == ASSUME NEW cs \in SUBSET Owned PROVE Canceled(cs) = cs \cap made
<1>1. \A c \in Owned : c = Outer => c = O
  BY OuterContext, DistinctContexts DEF Owned, O, R, E, Bg, P, I
<1>2. \A c \in Owned : EndedWith(c) = {c}
  BY <1>1 DEF EndedWith
<1> QED  BY <1>2 DEF Canceled

\* What each of the call's contexts ends with.
LEMMA ParentsOf ==
  /\ Parents(O) = {R, E}
  /\ \A i \in Attempts : /\ Parents(P(i)) = {Outer}
                         /\ Parents(I(i)) \subseteq {Outer, Request, P(i)}
<1>1. Parents(O) = {R, E}
  <2>1. O[1] = "O"
    BY DEF O
  <2> QED  BY <2>1 DEF Parents
<1>2. ASSUME NEW i \in Attempts
      PROVE  /\ Parents(P(i)) = {Outer}
             /\ Parents(I(i)) \subseteq {Outer, Request, P(i)}
  <2>1. P(i) # O /\ I(i) # O /\ P(i)[1] = "P" /\ I(i)[1] = "I" /\ I(i)[2] = i
    BY DistinctContexts
  <2>2. Parents(P(i)) = {Outer}
    BY <2>1 DEF Parents
  <2>3. Parents(I(i)) = {IF setup.kind = "grpc" THEN Outer ELSE Request, ExecCtx(i)}
    BY <2>1 DEF Parents
  <2>4. ExecCtx(i) \in {P(i), Outer}
    BY DEF ExecCtx
  <2> QED  BY <2>2, <2>3, <2>4
<1> QED  BY <1>1, <1>2

\* The context that a request is sent with.
LEMMA InnerContext == ASSUME NEW i \in Attempts PROVE Inner(i) \in {Outer, Request, P(i), I(i)}
<1>1. ExecCtx(i) \in {P(i), Outer}
  BY DEF ExecCtx
<1> QED  BY <1>1 DEF Inner, MergeContexts

\* Membership of the attempts' contexts.
LEMMA OwnedContexts == O \in Owned /\ \A i \in Attempts : P(i) \in Owned /\ I(i) \in Owned
BY DEF Owned, O

-----------------------------------------------------------------------------
(***************************************************************************)
(* A call that is over excuses every attempt, and so does an owner that    *)
(* canceled.                                                               *)
(***************************************************************************)
\* A context that ends with the execution's.
LEMMA OuterExcuses ==
  ASSUME IInv, NEW i \in Attempts, Outer \in done \/ Request \in done
  PROVE  Excused(i)
<1>1. CASE Outer = O /\ O \in done
  <2>1. OwnerCanceled \/ Over
    BY <1>1 DEF IInv, OuterReason
  <2>2. CASE Over
    <3>1. CASE response = i
      <4>1. at[i] = "ended" /\ i # 0
        BY <3>1 DEF IInv, Progress, Attempts
      <4>2. body[i] = "closed"
        BY <2>2, <3>1, <4>1 DEF Over
      <4> QED  BY <4>1, <4>2 DEF Excused
    <3>2. CASE response # i
      BY <2>2, <3>2 DEF Over, Excused
    <3> QED  BY <3>1, <3>2
  <2> QED  BY <2>1, <2>2 DEF Excused
<1>2. CASE R \in done \/ E \in done
  BY <1>2 DEF Excused, OwnerCanceled
<1>3. Bg \notin done
  BY DEF IInv, Types
<1> QED  BY <1>1, <1>2, <1>3, OuterContext

\* The property follows from the reasons.
LEMMA IInvLive == IInv => ContextsLiveWhileNeeded
<1> SUFFICES ASSUME IInv, NEW i \in Attempts, inner[i] \in done PROVE Excused(i)
  BY DEF ContextsLiveWhileNeeded, Excused
<1>1. at[i] # "none"
  BY DEF IInv, Types, Progress
<1>2. inner[i] \in {Outer, Request, P(i), I(i)}
  BY <1>1, InnerContext DEF IInv, Progress
<1> QED  BY <1>2, OuterExcuses DEF IInv, Reason

\* The start of a call.
LEMMA InitIInv == Init => IInv
<1> SUFFICES ASSUME Init PROVE IInv
  OBVIOUS
<1>1. Types
  BY DEF Init, Types
<1>2. Returns /\ OuterReason
  BY DEF Init, Returns, OuterReason
<1>3. ASSUME NEW i \in Attempts PROVE Progress(i) /\ Reason(i)
  <2>1. at[i] = "none" /\ body[i] = "none" /\ inner[i] = Bg /\ i # 0
    BY <1>3 DEF Init, Attempts
  <2>2. made \subseteq {O, R, E, Bg}
    BY OuterContext DEF Init
  <2>3. P(i) \notin made /\ I(i) \notin made
    BY <1>3, <2>2, DistinctContexts
  <2> QED  BY <2>1, <2>3 DEF Init, Progress, Reason
<1> QED  BY <1>1, <1>2, <1>3 DEF IInv

-----------------------------------------------------------------------------
(***************************************************************************)
(* Steps.  An excuse lasts: an attempt that has begun never loses one.     *)
(***************************************************************************)
Lasting(i) == at[i] # "none" /\ Excused(i) => at'[i] # "none" /\ Excused(i)'

\* What has to be shown of a step that cancels contexts: each one that is newly done has a reason.
NewReasons ==
  /\ O \in done' \ done => OwnerCanceled' \/ Over'
  /\ \A i \in Attempts : P(i) \in done' \ done \/ I(i) \in done' \ done =>
        at'[i] # "none" /\ Excused(i)'

OverLasts == Over => Over'

\* The reasons for old and new contexts together.
LEMMA ReasonsKept ==
  ASSUME IInv, done \subseteq done', NewReasons, OverLasts, \A i \in Attempts : Lasting(i)
  PROVE  OuterReason' /\ \A i \in Attempts : Reason(i)'
<1>1. OwnerCanceled => OwnerCanceled'
  BY DEF OwnerCanceled
<1>2. OuterReason'
  BY <1>1 DEF IInv, OuterReason, NewReasons, OverLasts
<1>3. ASSUME NEW i \in Attempts PROVE Reason(i)'
  <2>1. Reason(i) /\ Lasting(i)
    BY <1>3 DEF IInv
  <2>2. P(i)' = P(i) /\ I(i)' = I(i)
    BY DEF P, I
  <2> QED  BY <1>3, <2>1, <2>2 DEF Reason, Lasting, NewReasons
<1> QED  BY <1>2, <1>3

\* Steps that leave the attempts alone: contexts end.
LEMMA ContextsEnd ==
  ASSUME IInv, UNCHANGED <<setup, made, at, inner, body, expired, deferCancel, call, response>>,
         done \subseteq done', Bg \notin done', NewReasons
  PROVE  IInv'
<1>1. Types' /\ Returns'
  BY DEF IInv, Types, Returns
<1>2. OwnerCanceled => OwnerCanceled'
  BY DEF OwnerCanceled
<1>3. \A i \in Attempts : Lasting(i)
  BY <1>2 DEF Lasting, Excused
<1>4. OverLasts
  BY DEF OverLasts, Over
<1>5. OuterReason' /\ \A i \in Attempts : Reason(i)'
  BY <1>3, <1>4, ReasonsKept
<1>6. \A i \in Attempts : Progress(i)'
  BY DEF IInv, Progress, Inner, Outer, Request, Executor, ExecCtx, HasPolicyCtx
<1> QED  BY <1>1, <1>5, <1>6 DEF IInv

\* The goroutine that waits for the parents of a context.
LEMMA PropagateStep == ASSUME IInv, NEW c \in Owned, Propagate(c) PROVE IInv'
<1>1. /\ UNCHANGED <<setup, made, at, inner, body, expired, deferCancel, call, response>>
      /\ done' = done \cup {c} /\ c \in made /\ Parents(c) \cap done # {}
  BY DEF Propagate
<1>2. Bg \notin done'
  BY <1>1 DEF IInv, Types
<1>3. NewReasons
  <2>1. ASSUME O = c PROVE OwnerCanceled'
    BY <1>1, <2>1, ParentsOf DEF OwnerCanceled
  <2>2. ASSUME NEW i \in Attempts, P(i) = c \/ I(i) = c PROVE at[i] # "none" /\ Excused(i)
    <3>1. at[i] # "none"
      BY <1>1, <2>2 DEF IInv, Progress
    <3>2. Outer \in done \/ Request \in done \/ P(i) \in done
      BY <1>1, <2>2, ParentsOf
    <3> QED  BY <2>2, <3>1, <3>2, OuterExcuses DEF IInv, Reason
  <2>3. \A i \in Attempts : Excused(i) => Excused(i)'
    BY <1>1 DEF Excused, OwnerCanceled
  <2> QED  BY <1>1, <2>1, <2>2, <2>3 DEF NewReasons
<1> QED  BY <1>1, <1>2, <1>3, ContextsEnd

\* An owner cancels.
LEMMA OwnerCancelsStep == ASSUME IInv, NEW c \in {R, E}, OwnerCancels(c) PROVE IInv'
<1>1. /\ UNCHANGED <<setup, made, at, inner, body, expired, deferCancel, call, response>>
      /\ done' = done \cup EndedWith(c) /\ c # Bg
  BY DEF OwnerCancels
<1>2. c \in EndedWith(c) /\ EndedWith(c) \subseteq {c} \cup made
  BY DEF EndedWith
<1>3. OwnerCanceled' /\ Bg \notin done'
  BY <1>1, <1>2 DEF OwnerCanceled, IInv, Types
<1>4. NewReasons
  <2>1. ASSUME NEW i \in Attempts, P(i) \in done' \ done \/ I(i) \in done' \ done
        PROVE  at[i] # "none"
    <3>1. P(i) \in made \/ I(i) \in made
      BY <1>1, <1>2, <2>1, DistinctContexts
    <3> QED  BY <2>1, <3>1 DEF IInv, Progress
  <2> QED  BY <1>1, <1>3, <2>1 DEF NewReasons, Excused
<1> QED  BY <1>1, <1>3, <1>4, ContextsEnd

-----------------------------------------------------------------------------
(***************************************************************************)
(* An attempt.                                                             *)
(***************************************************************************)
\* The contexts of a setup do not change.
LEMMA SameSetup ==
  ASSUME setup' = setup
  PROVE  /\ Outer' = Outer /\ Request' = Request /\ Executor' = Executor
         /\ \A i \in Attempts : Inner(i)' = Inner(i) /\ ExecCtx(i)' = ExecCtx(i)
BY DEF Inner, Outer, Request, Executor, ExecCtx, HasPolicyCtx

\* A request is sent: with contexts that nobody has canceled, unless an owner did.
LEMMA SendStep == ASSUME IInv, NEW k \in Attempts, Send(k) PROVE IInv'
<1>1. /\ UNCHANGED <<setup, body, expired, deferCancel, call, response>>
      /\ call = "running" /\ at[k] = "none" /\ response = 0
      /\ at' = [at EXCEPT ![k] = "sent"]
      /\ inner' = [inner EXCEPT ![k] = Inner(k)]
      /\ made' = made \cup ({Inner(k), ExecCtx(k)} \cap Owned)
      /\ done' = done \cup IF HasPolicyCtx /\ Outer \in done THEN {P(k)} ELSE {}
  BY DEF Send, Ready, IInv, Returns
<1>2. /\ at'[k] = "sent" /\ inner'[k] = Inner(k)
      /\ \A i \in Attempts : i # k => at'[i] = at[i] /\ inner'[i] = inner[i]
      /\ at' \in [Attempts -> {"none", "sent", "answered", "failed", "ended"}]
      /\ inner' = [i \in Attempts |-> inner'[i]]
  BY <1>1 DEF IInv, Types
<1>3. Outer \in done => OwnerCanceled
  <2>1. O \in done => OwnerCanceled
    BY <1>1 DEF IInv, OuterReason, Over
  <2> QED  BY <2>1, OuterContext DEF OwnerCanceled, IInv, Types
<1>4. Bg \notin Owned
  BY DEF Owned, Bg, P, I
<1>5. P(k) # Bg
  BY DistinctContexts
<1>6. Types' /\ Returns'
  BY <1>1, <1>2, <1>4, <1>5 DEF IInv, Types, Returns
<1>7. \A i \in Attempts : Lasting(i)
  <2>1. OwnerCanceled => OwnerCanceled'
    BY <1>1 DEF OwnerCanceled
  <2> QED  BY <1>1, <1>2, <2>1 DEF Lasting, Excused
<1>8. OverLasts
  BY <1>1 DEF OverLasts, Over
<1>9. NewReasons
  <2>1. ASSUME done' # done PROVE OwnerCanceled'
    BY <1>1, <1>3, <2>1 DEF OwnerCanceled
  <2>2. \A i \in Attempts : P(i) \in done' \ done \/ I(i) \in done' \ done => i = k
    BY <1>1, DistinctContexts
  <2> QED  BY <1>1, <1>2, <2>1, <2>2 DEF NewReasons, Excused
<1>10. OuterReason' /\ \A i \in Attempts : Reason(i)'
  BY <1>1, <1>7, <1>8, <1>9, ReasonsKept
<1>11. ASSUME NEW i \in Attempts PROVE Progress(i)'
  <2>1. Progress(i) /\ Inner(i)' = Inner(i)
    BY <1>1, <1>11, SameSetup DEF IInv
  <2>2. P(i)' = P(i) /\ I(i)' = I(i) /\ i # 0
    BY <1>11 DEF P, I, Attempts
  <2>3. CASE i = k
    BY <1>1, <1>2, <2>1, <2>2, <2>3 DEF Progress
  <2>4. CASE i # k
    <3>1. at[i] = "none" => P(i) \notin made' /\ I(i) \notin made'
      <4>1. {Inner(k), ExecCtx(k)} \cap {P(i), I(i)} = {}
        <5>1. Inner(k) \in {Outer, Request, P(k), I(k)} /\ ExecCtx(k) \in {P(k), Outer}
          BY InnerContext DEF ExecCtx
        <5> QED  BY <1>11, <2>4, <5>1, OuterContext, DistinctContexts
      <4> QED  BY <1>1, <2>1, <4>1 DEF Progress
    <3> QED  BY <1>1, <1>2, <2>1, <2>2, <2>4, <3>1 DEF Progress
  <2> QED  BY <2>3, <2>4
<1> QED  BY <1>6, <1>10, <1>11 DEF IInv

\* The timeout of an attempt expires.
LEMMA ExpireStep == ASSUME IInv, NEW k \in Attempts, Expire(k) PROVE IInv'
<1>1. /\ UNCHANGED <<setup, made, at, inner, body, deferCancel, call, response>>
      /\ setup.policy = "timeout" /\ at[k] \in {"sent", "answered", "failed"}
      /\ expired' = expired \cup {k} /\ done' = done \cup {P(k)}
  BY DEF Expire
<1>2. response # k
  BY <1>1 DEF IInv, Progress
<1>3. Types' /\ Returns'
  BY <1>1, DistinctContexts DEF IInv, Types, Returns
<1>4. \A i \in Attempts : Lasting(i)
  BY <1>1 DEF Lasting, Excused, OwnerCanceled
<1>5. OverLasts
  BY <1>1 DEF OverLasts, Over
<1>6. NewReasons
  <2>1. \A i \in Attempts : P(i) \in done' \ done \/ I(i) \in done' \ done => i = k
    BY <1>1, DistinctContexts
  <2>2. O \notin done' \ done
    BY <1>1, DistinctContexts
  <2> QED  BY <1>1, <1>2, <2>1, <2>2 DEF NewReasons, Excused
<1>7. OuterReason' /\ \A i \in Attempts : Reason(i)'
  BY <1>1, <1>4, <1>5, <1>6, ReasonsKept
<1>8. \A i \in Attempts : Progress(i)'
  <2> SUFFICES ASSUME NEW i \in Attempts PROVE Progress(i)'
    OBVIOUS
  <2>1. Progress(i) /\ Inner(i)' = Inner(i) /\ P(i)' = P(i) /\ I(i)' = I(i)
    BY <1>1, SameSetup DEF IInv, P, I
  <2> QED  BY <1>1, <1>2, <2>1 DEF Progress
<1> QED  BY <1>3, <1>7, <1>8 DEF IInv

\* A request returns, with a response or an error.
LEMMA ReturnStep == ASSUME IInv, NEW k \in Attempts, Answer(k) \/ Fail(k) PROVE IInv'
<1>1. /\ UNCHANGED <<setup, made, inner, expired, call, response>>
      /\ at[k] = "sent" /\ \E s \in {"answered", "failed"} : at' = [at EXCEPT ![k] = s]
  BY DEF Answer, Fail
<1>2. /\ at'[k] \in {"answered", "failed"}
      /\ \A i \in Attempts : i # k => at'[i] = at[i]
      /\ at' \in [Attempts -> {"none", "sent", "answered", "failed", "ended"}]
  BY <1>1 DEF IInv, Types
<1>3. \/ /\ body' = [body EXCEPT ![k] = "open"] /\ deferCancel' = TRUE /\ done' = done
      \/ /\ body' = body /\ deferCancel' = deferCancel
         /\ done \subseteq done' /\ done' \subseteq done \cup {I(k)}
  <2>1. Canceled({I(k)}) \subseteq {I(k)}
    BY CanceledOwned, OwnedContexts
  <2> QED  BY <2>1 DEF Answer, Fail
<1>4. /\ body'[k] \in {"none", "open"} /\ body[k] = "none"
      /\ \A i \in Attempts : i # k => body'[i] = body[i]
      /\ body' \in [Attempts -> {"none", "open", "closed"}]
  BY <1>1, <1>3 DEF IInv, Types, Progress
<1>5. response # k
  BY <1>1 DEF IInv, Progress
<1>6. Types' /\ Returns'
  <2>1. deferCancel' \in BOOLEAN
    BY <1>3 DEF IInv, Types
  <2>2. Bg \notin done'
    BY <1>3, DistinctContexts DEF IInv, Types
  <2> QED  BY <1>1, <1>2, <1>4, <2>1, <2>2 DEF IInv, Types, Returns
<1>7. \A i \in Attempts : Lasting(i)
  <2> SUFFICES ASSUME NEW i \in Attempts, at[i] # "none", Excused(i)
               PROVE  at'[i] # "none" /\ Excused(i)'
    BY DEF Lasting
  <2>1. OwnerCanceled => OwnerCanceled'
    BY <1>3 DEF OwnerCanceled
  <2>2. CASE i = k
    BY <1>1, <1>2, <2>1, <2>2 DEF Excused
  <2>3. CASE i # k
    BY <1>1, <1>2, <1>4, <2>1, <2>3 DEF Excused
  <2> QED  BY <2>2, <2>3
<1>8. OverLasts
  BY <1>1, <1>4, <1>5 DEF OverLasts, Over, IInv, Types
<1>9. NewReasons
  <2>1. \A i \in Attempts : P(i) \in done' \ done \/ I(i) \in done' \ done =>
          i = k /\ body' = body
    BY <1>3, DistinctContexts
  <2>2. O \notin done' \ done
    BY <1>3, DistinctContexts
  <2> QED  BY <1>2, <1>4, <2>1, <2>2 DEF NewReasons, Excused
<1>10. OuterReason' /\ \A i \in Attempts : Reason(i)'
  BY <1>3, <1>7, <1>8, <1>9, ReasonsKept
<1>11. ASSUME NEW i \in Attempts PROVE Progress(i)'
  <2>1. Progress(i) /\ Inner(i)' = Inner(i) /\ P(i)' = P(i) /\ I(i)' = I(i)
    BY <1>1, <1>11, SameSetup DEF IInv, P, I
  <2>2. CASE i = k
    BY <1>1, <1>2, <1>3, <1>4, <1>5, <2>1, <2>2 DEF Progress
  <2>3. CASE i # k
    BY <1>1, <1>2, <1>3, <1>4, <2>1, <2>3 DEF Progress
  <2> QED  BY <2>2, <2>3
<1> QED  BY <1>6, <1>10, <1>11 DEF IInv

-----------------------------------------------------------------------------
(***************************************************************************)
(* The end of an attempt and of the call.                                  *)
(***************************************************************************)
\* Canceling the context of an attempt when its result is handled.
LEMMA HandleCancelsOwn ==
  ASSUME NEW k \in Attempts, NEW cs, cs = HandleCancels(k) \/ cs = CancelUnlessDeferred(k)
  PROVE  cs \subseteq {P(k)} /\ (deferCancel => cs = {})
<1>1. Canceled({P(k)}) \subseteq {P(k)}
  BY CanceledOwned, OwnedContexts
<1> QED  BY <1>1 DEF HandleCancels, CancelUnlessDeferred

\* An attempt ends while the call is running: its body, if it has one, stays open until the end,
\* and then its context was not canceled.
LEMMA AttemptEnds ==
  ASSUME IInv, NEW k \in Attempts, NEW cs,
         cs \subseteq {P(k)}, deferCancel => cs = {},
         call = "running", at[k] \in {"answered", "failed"}, at' = [at EXCEPT ![k] = "ended"],
         done' = done \cup cs,
         UNCHANGED <<setup, made, inner, body, expired, deferCancel, call, response>>
  PROVE  IInv'
<1>1. /\ at'[k] = "ended"
      /\ \A i \in Attempts : i # k => at'[i] = at[i]
      /\ at' \in [Attempts -> {"none", "sent", "answered", "failed", "ended"}]
  BY DEF IInv, Types
<1>2. Types' /\ Returns'
  BY <1>1, DistinctContexts DEF IInv, Types, Returns
<1>3. \A i \in Attempts : Lasting(i)
  <2>1. OwnerCanceled => OwnerCanceled'
    BY DEF OwnerCanceled
  <2> QED  BY <1>1, <2>1 DEF Lasting, Excused
<1>4. OverLasts
  BY DEF OverLasts, Over
<1>5. NewReasons
  <2>1. O \notin done' \ done
    BY DistinctContexts
  <2>2. \A i \in Attempts : P(i) \in done' \ done \/ I(i) \in done' \ done => i = k /\ ~deferCancel
    BY DistinctContexts
  <2>3. ~deferCancel => body[k] # "open"
    BY DEF IInv, Progress
  <2> QED  BY <1>1, <2>1, <2>2, <2>3 DEF NewReasons, Excused
<1>6. OuterReason' /\ \A i \in Attempts : Reason(i)'
  BY <1>3, <1>4, <1>5, ReasonsKept
<1>7. ASSUME NEW i \in Attempts PROVE Progress(i)'
  <2>1. Progress(i) /\ Inner(i)' = Inner(i) /\ P(i)' = P(i) /\ I(i)' = I(i)
    BY <1>7, SameSetup DEF IInv, P, I
  <2>2. CASE i = k
    BY <1>1, <2>1, <2>2 DEF Progress
  <2>3. CASE i # k
    BY <1>1, <2>1, <2>3 DEF Progress
  <2> QED  BY <2>2, <2>3
<1> QED  BY <1>2, <1>6, <1>7 DEF IInv

\* The result of an attempt is handled and another one follows.
LEMMA HandleAndGoOnStep == ASSUME IInv, NEW k \in Attempts, HandleAndGoOn(k) PROVE IInv'
BY HandleCancelsOwn, AttemptEnds DEF HandleAndGoOn, Handled, Returned

\* The call returns with the response of attempt r, or none: an attempt k has ended unless at is
\* unchanged.  Contexts are canceled that belong to attempts whose response is not returned, or to
\* one without an open body, and the call's own if there is no response.
LEMMA CallEnds ==
  ASSUME IInv, NEW r \in Attempts \cup {0}, NEW cs, Ends(r, cs),
         call = "running",
         at' \in [Attempts -> {"none", "sent", "answered", "failed", "ended"}],
         \A i \in Attempts : at'[i] = at[i] \/ (at[i] \in {"answered", "failed"} /\ at'[i] = "ended"),
         r # 0 => at'[r] = "ended" /\ r \notin expired /\ setup.kind = "http",
         Bg \notin cs, O \notin cs,
         \A i \in Attempts : P(i) \in cs \/ I(i) \in cs =>
            at[i] # "none" /\ (r # i \/ body[i] # "open")
  PROVE  IInv'
<1>1. /\ call' = "returned" /\ response' = r
      /\ UNCHANGED <<setup, made, inner, body, expired, deferCancel>>
      /\ done' = done \cup cs \cup EndsCall(r)
  BY DEF Ends
<1>2. EndsCall(r) \subseteq {O} /\ (r # 0 => EndsCall(r) = {})
  <2>1. Canceled({O}) \subseteq {O}
    BY CanceledOwned, OwnedContexts
  <2> QED  BY <2>1 DEF EndsCall
<1>3. Types'
  BY <1>1, <1>2, DistinctContexts DEF IInv, Types
<1>4. Returns'
  BY <1>1 DEF IInv, Returns
<1>5. \A i \in Attempts : Lasting(i)
  <2> SUFFICES ASSUME NEW i \in Attempts, at[i] # "none", Excused(i)
               PROVE  at'[i] # "none" /\ Excused(i)'
    BY DEF Lasting
  <2>1. at'[i] # "none" /\ (at[i] # "sent" => at'[i] # "sent")
    OBVIOUS
  <2>2. CASE r # i
    BY <1>1, <2>1, <2>2 DEF Excused
  <2>3. CASE r = i
    <3>1. OwnerCanceled \/ (at[i] # "sent" /\ body[i] # "open")
      BY <2>3 DEF Excused, Attempts
    <3> QED  BY <1>1, <2>1, <3>1 DEF Excused, OwnerCanceled
  <2> QED  BY <2>1, <2>2, <2>3
<1>6. OverLasts
  BY DEF OverLasts, Over
<1>7. NewReasons
  <2>1. O \in done' \ done => Over'
    BY <1>1, <1>2 DEF Over
  <2>2. ASSUME NEW i \in Attempts, P(i) \in done' \ done \/ I(i) \in done' \ done
        PROVE  at'[i] # "none" /\ Excused(i)'
    <3>1. P(i) \in cs \/ I(i) \in cs
      BY <1>1, <1>2, <2>2, DistinctContexts
    <3>2. at[i] # "none" /\ (r # i \/ body[i] # "open")
      BY <2>2, <3>1
    <3>3. at'[i] # "none" /\ i # 0
      BY <2>2, <3>2 DEF Attempts
    <3>4. CASE r # i
      BY <1>1, <3>3, <3>4 DEF Excused
    <3>5. CASE r = i
      BY <1>1, <3>2, <3>3, <3>5 DEF Excused
    <3> QED  BY <3>4, <3>5
  <2> QED  BY <2>1, <2>2 DEF NewReasons
<1>8. OuterReason' /\ \A i \in Attempts : Reason(i)'
  BY <1>1, <1>5, <1>6, <1>7, ReasonsKept
<1>9. ASSUME NEW i \in Attempts PROVE Progress(i)'
  <2>1. Progress(i) /\ Inner(i)' = Inner(i) /\ P(i)' = P(i) /\ I(i)' = I(i)
    BY <1>1, <1>9, SameSetup DEF IInv, P, I
  <2>2. i = r => at'[i] = "ended" /\ i \notin expired
    BY <1>9 DEF Attempts
  <2> QED  BY <1>1, <1>9, <2>1, <2>2 DEF Progress
<1> QED  BY <1>3, <1>4, <1>8, <1>9 DEF IInv

\* The result of an attempt is the result of the call.
LEMMA HandleAndReturnStep == ASSUME IInv, NEW k \in Attempts, HandleAndReturn(k) PROVE IInv'
<1>1. /\ call = "running" /\ at[k] \in {"answered", "failed"} /\ at' = [at EXCEPT ![k] = "ended"]
  BY DEF HandleAndReturn, Handled, Returned
<1>2. PICK r \in Responses(k) : Ends(r, HandleCancels(k))
  BY DEF HandleAndReturn
<1>3. r = 0 \/ (r = k /\ k \notin expired /\ setup.kind = "http")
  BY <1>2 DEF Responses
<1>4. /\ at'[k] = "ended"
      /\ \A i \in Attempts : i # k => at'[i] = at[i]
      /\ at' \in [Attempts -> {"none", "sent", "answered", "failed", "ended"}]
  BY <1>1 DEF IInv, Types
<1>5. HandleCancels(k) \subseteq {P(k)} /\ (deferCancel => HandleCancels(k) = {})
  BY HandleCancelsOwn
<1>6. Bg \notin HandleCancels(k) /\ O \notin HandleCancels(k)
  BY <1>5, DistinctContexts
<1>7. ASSUME NEW i \in Attempts, P(i) \in HandleCancels(k) \/ I(i) \in HandleCancels(k)
      PROVE  at[i] # "none" /\ (r # i \/ body[i] # "open")
  <2>1. i = k /\ ~deferCancel
    BY <1>5, <1>7, DistinctContexts
  <2> QED  BY <1>1, <2>1 DEF IInv, Progress
<1>8. r \in Attempts \cup {0}
  BY <1>3
<1> HIDE DEF HandleCancels
<1> QED  BY <1>1, <1>2, <1>3, <1>4, <1>6, <1>7, <1>8, CallEnds

\* The call is canceled between two attempts.
LEMMA ReturnCanceledStep == ASSUME IInv, ReturnCanceled PROVE IInv'
<1>1. call = "running" /\ Ends(0, {}) /\ at' = at
  BY DEF ReturnCanceled
<1>2. at \in [Attempts -> {"none", "sent", "answered", "failed", "ended"}]
  BY DEF IInv, Types
<1> QED  BY <1>1, <1>2, CallEnds

\* A hedge policy takes a result: the others are canceled, and the one it took unless deferred.
LEMMA ReturnHedgeStep == ASSUME IInv, NEW k \in Attempts, ReturnHedge(k) PROVE IInv'
<1>1. /\ setup.policy = "hedge" /\ call = "running" /\ at[k] \in {"answered", "failed"}
      /\ at' = [at EXCEPT ![k] = "ended"]
  BY DEF ReturnHedge, Returned
<1>2. /\ at'[k] = "ended"
      /\ \A i \in Attempts : i # k => at'[i] = at[i]
      /\ at' \in [Attempts -> {"none", "sent", "answered", "failed", "ended"}]
  BY <1>1 DEF IInv, Types
<1>3. CASE Ends(0, {})
  BY <1>1, <1>2, <1>3, CallEnds
<1>4. ASSUME NEW r, r = 0 \/ (r = k /\ setup.kind = "http"),
             Ends(r, CancelUnlessDeferred(k) \cup Canceled({P(j) : j \in Attempts \ {k}}))
      PROVE  IInv'
  <2> DEFINE others == Canceled({P(j) : j \in Attempts \ {k}})
             cs == CancelUnlessDeferred(k) \cup others
  <2>1. CancelUnlessDeferred(k) \subseteq {P(k)} /\ (deferCancel => CancelUnlessDeferred(k) = {})
    BY HandleCancelsOwn
  <2>2. others \subseteq {P(j) : j \in Attempts \ {k}} /\ others \subseteq made
    <3>1. {P(j) : j \in Attempts \ {k}} \subseteq Owned
      BY OwnedContexts
    <3>2. others = {P(j) : j \in Attempts \ {k}} \cap made
      BY <3>1, CanceledOwned
    <3> QED  BY <3>2
  <2> HIDE DEF others
  <2>3. Bg \notin cs /\ O \notin cs
    BY <2>1, <2>2, DistinctContexts
  <2>4. ASSUME NEW i \in Attempts, P(i) \in cs \/ I(i) \in cs
        PROVE  at[i] # "none" /\ (r # i \/ body[i] # "open")
    <3>1. CASE i = k
      <4>1. P(i) \in CancelUnlessDeferred(k) \/ I(i) \in CancelUnlessDeferred(k)
        BY <2>2, <2>4, <3>1, DistinctContexts
      <4>2. ~deferCancel
        BY <2>1, <4>1
      <4> QED  BY <1>1, <3>1, <4>2 DEF IInv, Progress
    <3>2. CASE i # k
      <4>1. P(i) \in others \/ I(i) \in others
        BY <2>1, <2>4, <3>2, DistinctContexts
      <4>2. at[i] # "none"
        BY <2>2, <2>4, <4>1 DEF IInv, Progress
      <4> QED  BY <1>4, <2>4, <3>2, <4>2 DEF Attempts
    <3> QED  BY <3>1, <3>2
  <2>5. k \notin expired
    BY <1>1 DEF IInv, Returns
  <2>6. Ends(r, cs) /\ r \in Attempts \cup {0}
    BY <1>4 DEF others
  <2> HIDE DEF cs
  <2> QED  BY <1>1, <1>2, <1>4, <2>3, <2>4, <2>5, <2>6, CallEnds
<1> QED  BY <1>3, <1>4 DEF ReturnHedge

\* The caller closes the body that it got.
LEMMA CloseStep == ASSUME IInv, NEW k \in Attempts, Close(k) PROVE IInv'
<1>1. /\ call = "returned" /\ response = k /\ body[k] = "open"
      /\ body' = [body EXCEPT ![k] = "closed"] /\ deferCancel' = FALSE
      /\ done' = done \cup CloseCancels(k)
      /\ UNCHANGED <<setup, made, at, inner, expired, call, response>>
  BY DEF Close
<1>2. /\ body'[k] = "closed" /\ \A i \in Attempts : i # k => body'[i] = body[i]
      /\ body' \in [Attempts -> {"none", "open", "closed"}]
  BY <1>1 DEF IInv, Types
<1>3. CloseCancels(k) \subseteq {O, I(k), P(k)}
  <2>1. {O, I(k)} \cup (IF deferCancel THEN {P(k)} ELSE {}) \in SUBSET Owned
    BY OwnedContexts
  <2>2. CloseCancels(k) = ({O, I(k)} \cup (IF deferCancel THEN {P(k)} ELSE {})) \cap made
    BY <2>1, CanceledOwned DEF CloseCancels
  <2> QED  BY <2>2
<1>4. at[k] = "ended" /\ k # 0
  BY <1>1 DEF IInv, Progress, Attempts
<1>5. Types' /\ Returns'
  <2>1. Bg \notin done'
    BY <1>1, <1>3, DistinctContexts DEF IInv, Types
  <2> QED  BY <1>1, <1>2, <2>1 DEF IInv, Types, Returns
<1>6. \A i \in Attempts : Lasting(i)
  <2>1. OwnerCanceled => OwnerCanceled'
    BY <1>1 DEF OwnerCanceled
  <2> QED  BY <1>1, <1>2, <2>1 DEF Lasting, Excused
<1>7. Over' /\ OverLasts
  BY <1>1, <1>2 DEF OverLasts, Over
<1>8. NewReasons
  <2>1. \A i \in Attempts : P(i) \in done' \ done \/ I(i) \in done' \ done => i = k
    BY <1>1, <1>3, DistinctContexts
  <2> QED  BY <1>1, <1>2, <1>4, <1>7, <2>1 DEF NewReasons, Excused
<1>9. OuterReason' /\ \A i \in Attempts : Reason(i)'
  BY <1>1, <1>6, <1>7, <1>8, ReasonsKept
<1>10. ASSUME NEW i \in Attempts PROVE Progress(i)'
  <2>1. Progress(i) /\ Inner(i)' = Inner(i) /\ P(i)' = P(i) /\ I(i)' = I(i)
    BY <1>1, <1>10, SameSetup DEF IInv, P, I
  <2>2. CASE i = k
    BY <1>1, <1>2, <1>4, <2>1, <2>2 DEF Progress
  <2>3. CASE i # k
    BY <1>1, <1>2, <2>1, <2>3 DEF Progress
  <2> QED  BY <2>2, <2>3
<1> QED  BY <1>5, <1>9, <1>10 DEF IInv

-----------------------------------------------------------------------------
(***************************************************************************)
(* The theorem.                                                            *)
(***************************************************************************)
\* The invariant is inductive.
LEMMA NextIInv == IInv /\ [Next]_vars => IInv'
<1> SUFFICES ASSUME IInv, [Next]_vars PROVE IInv'
  OBVIOUS
<1>1. CASE UNCHANGED vars
  BY <1>1, ContextsEnd DEF vars, NewReasons, IInv, Types
<1> QED  BY <1>1, PropagateStep, OwnerCancelsStep, SendStep, ExpireStep, ReturnStep,
            HandleAndGoOnStep, HandleAndReturnStep, ReturnHedgeStep, ReturnCanceledStep, CloseStep
         DEF Next, Caller, Settled

\* The inductive invariant holds throughout every call.
THEOREM Invariance == Spec => []IInv
BY InitIInv, NextIInv, PTL DEF Spec

\* No context is canceled early, for any number of attempts, any policy and any mix of contexts to
\* merge: a request in flight loses its context only to its timeout, to the end of the call or to
\* an owner, and the body of the response that the caller got only to an owner, until it is closed.
THEOREM ContextsLive == Spec => []ContextsLiveWhileNeeded
BY Invariance, IInvLive, PTL

-----------------------------------------------------------------------------
(***************************************************************************)
(* The retry policy: what a call of the builder leaves behind.             *)
(***************************************************************************)
HIDE SetupsAssumption

\* The configurations that a builder makes.
Configs ==
  [failureConditions : SUBSET SUBSET Outcomes, errorsChecked : BOOLEAN,
   abortConditions : SUBSET SUBSET Outcomes,
   delay : Nat, hasDelayFunc : BOOLEAN, delayMin : Nat, delayMax : Nat, delayFactor : Nat,
   maxDelay : Nat, jitter : Nat, jitterFactor : Nat, maxDuration : Nat,
   maxRetries : Nat \cup {-1}, returnLastFailure : BOOLEAN, hasBudget : BOOLEAN]

\* The numbers of a configuration, each set by some of the calls.
Numbers ==
  {"maxRetries", "delay", "maxDelay", "delayMin", "delayMax", "delayFactor", "jitter", "jitterFactor"}

\* The calls that set a number of the configuration, and the value they give it.
Setters(f) ==
  CASE f = "maxRetries"   -> {"WithMaxAttempts", "WithMaxRetries"}
    [] f = "delay"        -> {"WithDelay", "WithBackoff", "WithRandomDelay"}
    [] f = "maxDelay"     -> {"WithBackoff", "WithRandomDelay"}
    [] f = "delayMin"     -> {"WithBackoff", "WithRandomDelay"}
    [] f = "delayMax"     -> {"WithBackoff", "WithRandomDelay"}
    [] f = "delayFactor"  -> {"WithBackoff"}
    [] f = "jitter"       -> {"WithJitter"}
    [] f = "jitterFactor" -> {"WithJitterFactor"}

ValueSet(k, f) ==
  CASE k.op = "WithMaxAttempts" -> IF k.arg = -1 THEN -1 ELSE k.arg - 1
    [] k.op \in {"WithMaxRetries", "WithDelay", "WithJitter", "WithJitterFactor"} -> k.arg
    [] k.op = "WithBackoff" ->
         (CASE f = "delay" -> k.arg[1] [] f = "maxDelay" -> k.arg[2] [] f = "delayFactor" -> 2
            [] OTHER -> 0)
    [] k.op = "WithRandomDelay" ->
         (CASE f = "delayMin" -> k.arg[1] [] f = "delayMax" -> k.arg[2] [] OTHER -> 0)

\* A builder call has the type it should, and starts with an integration's builder at most.
Follows(c, k) == c \in Configs /\ IsCall(k) /\ (k.op \in {"http", "grpc"} => c = NewBuilder)

\* What NewBuilder returns is a configuration.
LEMMA NewConfig == NewBuilder \in Configs
BY DEF NewBuilder, Configs

\* The conditions that the calls add apply to outcomes only.
LEMMA IsOutcomes == (\A e \in Errors : Is(e) \subseteq Outcomes) /\ \A r : Returning(r) \subseteq Outcomes
<1>1. ASSUME NEW e \in Errors PROVE Is(e) \subseteq Outcomes
  BY DEF Is, Errs, Errors, Outcomes
<1> QED  BY <1>1 DEF Returning

Result(c, k, d) ==
  /\ d \in Configs
  /\ \A f \in Numbers : d[f] = IF k.op \in Setters(f) THEN ValueSet(k, f) ELSE c[f]
  /\ \A o : AppliesToAny(d.failureConditions, o) <=>
              AppliesToAny(c.failureConditions, o) \/ CallHandles(k, o)
  /\ d.errorsChecked <=> c.errorsChecked \/ k.op \in ErrorChecks
  /\ d.failureConditions = {} => c.failureConditions = {} /\ k.op \notin ErrorChecks
  /\ \A o : AppliesToAny(d.abortConditions, o) <=>
              AppliesToAny(c.abortConditions, o) \/ CallAborts(k, o)

\* Builder calls that only set numbers.
LEMMA NumbersSet ==
  ASSUME NEW c \in Configs, NEW k, IsCall(k),
         k.op \in {"WithMaxAttempts", "WithMaxRetries", "WithMaxDuration", "WithDelay", "WithBackoff",
                   "WithRandomDelay", "WithJitter", "WithJitterFactor", "ReturnLastFailure", "WithDelayFunc"}
  PROVE  Result(c, k, Called(c, k))
<1> DEFINE d == Called(c, k)
<1>1. /\ d \in Configs
      /\ d.failureConditions = c.failureConditions /\ d.abortConditions = c.abortConditions
      /\ d.errorsChecked = c.errorsChecked
      /\ \A f \in Numbers : d[f] = IF k.op \in Setters(f) THEN ValueSet(k, f) ELSE c[f]
  <2>1. CASE k.op = "WithMaxAttempts"
    <3>1. d = WithMaxAttempts(c, k.arg) /\ k.arg \in Nat \cup {-1}
      BY <2>1 DEF Called, IsCall
    <3> QED  BY <2>1, <3>1 DEF WithMaxAttempts, Configs, Numbers, Setters, ValueSet
  <2>2. CASE k.op = "WithMaxRetries"
    <3>1. d = WithMaxRetries(c, k.arg) /\ k.arg \in Nat \cup {-1}
      BY <2>2 DEF Called, IsCall
    <3> QED  BY <2>2, <3>1 DEF WithMaxRetries, Configs, Numbers, Setters, ValueSet
  <2>3. CASE k.op = "WithMaxDuration"
    <3>1. d = WithMaxDuration(c, k.arg) /\ k.arg \in Nat
      BY <2>3 DEF Called, IsCall
    <3> QED  BY <2>3, <3>1 DEF WithMaxDuration, Configs, Numbers, Setters
  <2>4. CASE k.op = "WithDelay"
    <3>1. d = WithDelay(c, k.arg) /\ k.arg \in Nat
      BY <2>4 DEF Called, IsCall
    <3> QED  BY <2>4, <3>1 DEF WithDelay, Configs, Numbers, Setters, ValueSet
  <2>5. CASE k.op = "WithBackoff"
    <3>1. d = WithBackoff(c, k.arg[1], k.arg[2]) /\ k.arg[1] \in Nat /\ k.arg[2] \in Nat
      BY <2>5 DEF Called, IsCall
    <3>2. PICK a \in Nat, b \in Nat : a = k.arg[1] /\ b = k.arg[2]
      BY <3>1
    <3>3. d = WithBackoff(c, a, b)
      BY <3>1, <3>2
    <3>4. /\ d \in Configs
          /\ d.failureConditions = c.failureConditions /\ d.abortConditions = c.abortConditions
          /\ d.errorsChecked = c.errorsChecked
      <4> HIDE DEF d
      <4>1. d \in Configs
        <5>1. PICK c1 \in Configs : c1 = [c EXCEPT !.delay = a]
          BY DEF Configs
        <5>2. PICK c2 \in Configs : c2 = [c1 EXCEPT !.maxDelay = b]
          BY DEF Configs
        <5>3. PICK c3 \in Configs : c3 = [c2 EXCEPT !.delayFactor = 2]
          BY DEF Configs
        <5>4. PICK c4 \in Configs : c4 = [c3 EXCEPT !.delayMin = 0]
          BY DEF Configs
        <5>5. PICK c5 \in Configs : c5 = [c4 EXCEPT !.delayMax = 0]
          BY DEF Configs
        <5> QED  BY <3>3, <5>1, <5>2, <5>3, <5>4, <5>5 DEF WithBackoff, WithBackoffFactor, WithDelay
      <4>2. d.failureConditions = c.failureConditions
        BY <3>3 DEF WithBackoff, WithBackoffFactor, WithDelay, Configs
      <4>3. d.abortConditions = c.abortConditions /\ d.errorsChecked = c.errorsChecked
        BY <3>3 DEF WithBackoff, WithBackoffFactor, WithDelay, Configs
      <4> QED  BY <4>1, <4>2, <4>3
    <3>5. ASSUME NEW f \in Numbers PROVE d[f] = IF k.op \in Setters(f) THEN ValueSet(k, f) ELSE c[f]
      <4>1. CASE k.op \in Setters(f)
        <5>1. ValueSet(k, f) = CASE f = "delay" -> a [] f = "maxDelay" -> b [] f = "delayFactor" -> 2 [] OTHER -> 0
          BY <2>5, <3>2 DEF ValueSet
        <5>2. f \in {"delay", "maxDelay", "delayFactor", "delayMin", "delayMax"}
          BY <2>5, <4>1 DEF Setters, Numbers
        <5> QED  BY <3>3, <4>1, <5>1, <5>2 DEF WithBackoff, WithBackoffFactor, WithDelay, Configs
      <4>2. CASE k.op \notin Setters(f)
        <5>1. f \in Numbers \ {"delay", "maxDelay", "delayFactor", "delayMin", "delayMax"}
          BY <2>5, <4>2 DEF Setters, Numbers
        <5> QED  BY <3>3, <4>2, <5>1 DEF WithBackoff, WithBackoffFactor, WithDelay, Configs, Numbers
      <4> QED  BY <4>1, <4>2
    <3> QED  BY <3>4, <3>5
  <2>6. CASE k.op = "WithRandomDelay"
    <3>1. d = WithRandomDelay(c, k.arg[1], k.arg[2]) /\ k.arg[1] \in Nat /\ k.arg[2] \in Nat
      BY <2>6 DEF Called, IsCall
    <3>2. PICK a \in Nat, b \in Nat : a = k.arg[1] /\ b = k.arg[2]
      BY <3>1
    <3>3. d = WithRandomDelay(c, a, b)
      BY <3>1, <3>2
    <3>4. /\ d \in Configs
          /\ d.failureConditions = c.failureConditions /\ d.abortConditions = c.abortConditions
          /\ d.errorsChecked = c.errorsChecked
      <4> HIDE DEF d
      <4>1. d \in Configs
        <5>1. PICK c1 \in Configs : c1 = [c EXCEPT !.delayMin = a]
          BY DEF Configs
        <5>2. PICK c2 \in Configs : c2 = [c1 EXCEPT !.delayMax = b]
          BY DEF Configs
        <5>3. PICK c3 \in Configs : c3 = [c2 EXCEPT !.delay = 0]
          BY DEF Configs
        <5>4. PICK c4 \in Configs : c4 = [c3 EXCEPT !.maxDelay = 0]
          BY DEF Configs
        <5> QED  BY <3>3, <5>1, <5>2, <5>3, <5>4 DEF WithRandomDelay
      <4>2. d.failureConditions = c.failureConditions
        BY <3>3 DEF WithRandomDelay, Configs
      <4>3. d.abortConditions = c.abortConditions /\ d.errorsChecked = c.errorsChecked
        BY <3>3 DEF WithRandomDelay, Configs
      <4> QED  BY <4>1, <4>2, <4>3
    <3>5. ASSUME NEW f \in Numbers PROVE d[f] = IF k.op \in Setters(f) THEN ValueSet(k, f) ELSE c[f]
      <4>1. CASE k.op \in Setters(f)
        <5>1. ValueSet(k, f) = CASE f = "delayMin" -> a [] f = "delayMax" -> b [] OTHER -> 0
          BY <2>6, <3>2 DEF ValueSet
        <5>2. f \in {"delay", "maxDelay", "delayMin", "delayMax"}
          BY <2>6, <4>1 DEF Setters, Numbers
        <5> QED  BY <3>3, <4>1, <5>1, <5>2 DEF WithRandomDelay, Configs
      <4>2. CASE k.op \notin Setters(f)
        <5>1. f \in Numbers \ {"delay", "maxDelay", "delayMin", "delayMax"}
          BY <2>6, <4>2 DEF Setters, Numbers
        <5> QED  BY <3>3, <4>2, <5>1 DEF WithRandomDelay, Configs, Numbers
      <4> QED  BY <4>1, <4>2
    <3> QED  BY <3>4, <3>5
  <2>7. CASE k.op = "WithJitter"
    <3>1. d = WithJitter(c, k.arg) /\ k.arg \in Nat
      BY <2>7 DEF Called, IsCall
    <3> QED  BY <2>7, <3>1 DEF WithJitter, Configs, Numbers, Setters, ValueSet
  <2>8. CASE k.op = "WithJitterFactor"
    <3>1. d = WithJitterFactor(c, k.arg) /\ k.arg \in Nat
      BY <2>8 DEF Called, IsCall
    <3> QED  BY <2>8, <3>1 DEF WithJitterFactor, Configs, Numbers, Setters, ValueSet
  <2>9. CASE k.op = "ReturnLastFailure"
    <3>1. d = ReturnLastFailure(c)
      BY <2>9 DEF Called
    <3> QED  BY <2>9, <3>1 DEF ReturnLastFailure, Configs, Numbers, Setters
  <2>10. CASE k.op = "WithDelayFunc"
    <3>1. d = WithDelayFunc(c)
      BY <2>10 DEF Called
    <3> QED  BY <2>10, <3>1 DEF WithDelayFunc, Configs, Numbers, Setters
  <2> QED  BY <2>1, <2>2, <2>3, <2>4, <2>5, <2>6, <2>7, <2>8, <2>9, <2>10
<1>2. (\A o : ~CallHandles(k, o) /\ ~CallAborts(k, o)) /\ k.op \notin ErrorChecks
  BY DEF CallHandles, CallAborts, ErrorChecks
<1> HIDE DEF d
<1>3. Result(c, k, d)
  BY <1>1, <1>2 DEF Result
<1> QED  BY <1>3 DEF d

\* Builder calls that add conditions.
LEMMA ConditionsAdded ==
  ASSUME NEW c, NEW k, Follows(c, k),
         k.op \in {"HandleErrors", "HandleResult", "HandleIf", "AbortOnErrors", "AbortOnResult", "AbortIf",
                   "WithBudget", "http", "grpc"}
  PROVE  Result(c, k, Called(c, k))
<1> DEFINE d == Called(c, k)
<1>1. c \in Configs /\ IsCall(k)
  BY DEF Follows
<1>2. \A f \in Numbers : k.op \notin Setters(f)
  BY DEF Numbers, Setters
<1>3. /\ c.failureConditions \in SUBSET SUBSET Outcomes
      /\ c.abortConditions \in SUBSET SUBSET Outcomes
  BY <1>1 DEF Configs
\* What a call leaves in each field that it sets, is what Result asks for.
<1>4. ASSUME NEW F \in SUBSET SUBSET Outcomes, NEW A \in SUBSET SUBSET Outcomes, NEW e \in BOOLEAN,
             NEW h \in BOOLEAN, NEW b \in BOOLEAN,
             d = [c EXCEPT !.failureConditions = F, !.errorsChecked = e, !.abortConditions = A,
                           !.hasDelayFunc = h, !.hasBudget = b],
             \A o : AppliesToAny(F, o) <=> AppliesToAny(c.failureConditions, o) \/ CallHandles(k, o),
             e <=> c.errorsChecked \/ k.op \in ErrorChecks,
             F = {} => c.failureConditions = {} /\ k.op \notin ErrorChecks,
             \A o : AppliesToAny(A, o) <=> AppliesToAny(c.abortConditions, o) \/ CallAborts(k, o)
      PROVE  Result(c, k, d)
  <2> HIDE DEF d
  <2>1. PICK c1 \in Configs : c1 = [c EXCEPT !.failureConditions = F]
    BY <1>1 DEF Configs
  <2>2. PICK c2 \in Configs : c2 = [c1 EXCEPT !.errorsChecked = e]
    BY DEF Configs
  <2>3. PICK c3 \in Configs : c3 = [c2 EXCEPT !.abortConditions = A]
    BY DEF Configs
  <2>4. PICK c4 \in Configs : c4 = [c3 EXCEPT !.hasDelayFunc = h]
    BY DEF Configs
  <2>5. d \in Configs /\ d = [c4 EXCEPT !.hasBudget = b]
    <3>1. d = [c4 EXCEPT !.hasBudget = b]
      BY <1>4, <2>1, <2>2, <2>3, <2>4
    <3> QED  BY <3>1 DEF Configs
  <2>6. d.failureConditions = F /\ d.errorsChecked = e /\ d.abortConditions = A
    <3>1. c1.failureConditions = F /\ c2.failureConditions = F /\ c3.failureConditions = F
      BY <1>1, <2>1, <2>2, <2>3 DEF Configs
    <3>2. c2.errorsChecked = e /\ c3.errorsChecked = e /\ c3.abortConditions = A
      BY <2>2, <2>3 DEF Configs
    <3>3. c4.failureConditions = F /\ c4.errorsChecked = e /\ c4.abortConditions = A
      BY <2>4, <3>1, <3>2 DEF Configs
    <3> QED  BY <2>5, <3>3 DEF Configs
  <2>7. ASSUME NEW f \in Numbers PROVE d[f] = c[f]
    <3>1. c1[f] = c[f] /\ c2[f] = c1[f]
      BY <1>1, <2>1, <2>2 DEF Configs, Numbers
    <3>2. c3[f] = c2[f] /\ c4[f] = c3[f] /\ d[f] = c4[f]
      BY <2>3, <2>4, <2>5 DEF Configs, Numbers
    <3> QED  BY <3>1, <3>2
  <2> QED  BY <1>2, <1>4, <2>5, <2>6, <2>7 DEF Result
<1>5. (\A e \in Errors : Is(e) \in SUBSET Outcomes) /\ \A r : Returning(r) \in SUBSET Outcomes
  BY IsOutcomes
<1>6. CASE k.op = "HandleErrors"
  <2> DEFINE F == c.failureConditions \cup {Is(e) : e \in k.arg}
  <2>1. d = [c EXCEPT !.failureConditions = F, !.errorsChecked = TRUE] /\ k.arg \subseteq Errors /\ k.arg # {}
    BY <1>1, <1>6 DEF Called, HandleErrors, IsCall
  <2>2. F \in SUBSET SUBSET Outcomes
    BY <1>3, <1>5, <2>1
  <2>3. d = [c EXCEPT !.failureConditions = F, !.errorsChecked = TRUE, !.abortConditions = c.abortConditions,
                      !.hasDelayFunc = c.hasDelayFunc, !.hasBudget = c.hasBudget]
    BY <1>1, <2>1 DEF Configs
  <2>4. c.hasDelayFunc \in BOOLEAN /\ c.hasBudget \in BOOLEAN /\ c.abortConditions \in SUBSET SUBSET Outcomes
    BY <1>1 DEF Configs
  <2>5. \A o : CallHandles(k, o) <=> \E e \in k.arg : o \in Is(e)
    BY <1>6 DEF CallHandles
  <2>6. \A o : AppliesToAny(F, o) <=> AppliesToAny(c.failureConditions, o) \/ CallHandles(k, o)
    BY <2>5 DEF AppliesToAny
  <2>7. F # {} /\ k.op \in ErrorChecks
    BY <1>6, <2>1 DEF ErrorChecks
  <2>8. \A o : AppliesToAny(c.abortConditions, o) <=> AppliesToAny(c.abortConditions, o) \/ CallAborts(k, o)
    BY <1>6 DEF CallAborts
  <2> HIDE DEF F
  <2> QED  BY <1>4, <2>2, <2>3, <2>4, <2>6, <2>7, <2>8
<1>7. CASE k.op = "HandleResult"
  <2> DEFINE F == c.failureConditions \cup {Returning(k.arg)}
  <2>1. d = [c EXCEPT !.failureConditions = F] /\ k.arg \in Results
    BY <1>1, <1>7 DEF Called, IsCall, HandleResult
  <2>2. F \in SUBSET SUBSET Outcomes /\ c.abortConditions \in SUBSET SUBSET Outcomes
    BY <1>3, <1>5, <2>1 DEF Outcomes, HttpRetryHandled, Results, Errs, Errors
  <2>3. d = [c EXCEPT !.failureConditions = F, !.errorsChecked = c.errorsChecked, !.abortConditions = c.abortConditions,
                      !.hasDelayFunc = c.hasDelayFunc, !.hasBudget = c.hasBudget]
    BY <1>1, <2>1 DEF Configs
  <2>4. c.errorsChecked \in BOOLEAN /\ c.hasDelayFunc \in BOOLEAN /\ c.hasBudget \in BOOLEAN
    BY <1>1 DEF Configs
  <2>5. \A o : CallHandles(k, o) <=> o \in Returning(k.arg)
    BY <1>7 DEF CallHandles, Returning
  <2>6. \A o : AppliesToAny(F, o) <=> AppliesToAny(c.failureConditions, o) \/ CallHandles(k, o)
    BY <2>5 DEF AppliesToAny
  <2>7. F # {} /\ k.op \notin ErrorChecks
    BY <1>7 DEF ErrorChecks
  <2> HIDE DEF F
  <2>8. PICK e \in BOOLEAN, h \in BOOLEAN, b \in BOOLEAN, A \in SUBSET SUBSET Outcomes :
          e = c.errorsChecked /\ h = c.hasDelayFunc /\ b = c.hasBudget /\ A = c.abortConditions
    BY <2>2, <2>4
  <2>9. d = [c EXCEPT !.failureConditions = F, !.errorsChecked = e, !.abortConditions = A,
                      !.hasDelayFunc = h, !.hasBudget = b]
    BY <2>3, <2>8
  <2>10. e <=> c.errorsChecked \/ k.op \in ErrorChecks
    BY <2>7, <2>8
  <2>11. F = {} => c.failureConditions = {} /\ k.op \notin ErrorChecks
    BY <2>7
  <2>12. \A o : AppliesToAny(A, o) <=> AppliesToAny(c.abortConditions, o) \/ CallAborts(k, o)
    BY <1>7, <2>8 DEF CallAborts
  <2>13. F \in SUBSET SUBSET Outcomes
    BY <2>2
  <2> QED  BY <1>4, <2>6, <2>9, <2>10, <2>11, <2>12, <2>13, Zenon
<1>8. CASE k.op = "HandleIf"
  <2> DEFINE F == c.failureConditions \cup {k.arg}
  <2>1. d = [c EXCEPT !.failureConditions = F, !.errorsChecked = TRUE] /\ k.arg \subseteq Outcomes
    BY <1>1, <1>8 DEF Called, IsCall, HandleIf
  <2>2. F \in SUBSET SUBSET Outcomes /\ c.abortConditions \in SUBSET SUBSET Outcomes
    BY <1>3, <1>5, <2>1 DEF Outcomes, HttpRetryHandled, Results, Errs, Errors
  <2>3. d = [c EXCEPT !.failureConditions = F, !.errorsChecked = TRUE, !.abortConditions = c.abortConditions,
                      !.hasDelayFunc = c.hasDelayFunc, !.hasBudget = c.hasBudget]
    BY <1>1, <2>1 DEF Configs
  <2>4. c.errorsChecked \in BOOLEAN /\ c.hasDelayFunc \in BOOLEAN /\ c.hasBudget \in BOOLEAN
    BY <1>1 DEF Configs
  <2>5. \A o : CallHandles(k, o) <=> o \in k.arg
    BY <1>8 DEF CallHandles
  <2>6. \A o : AppliesToAny(F, o) <=> AppliesToAny(c.failureConditions, o) \/ CallHandles(k, o)
    BY <2>5 DEF AppliesToAny
  <2>7. F # {} /\ k.op \in ErrorChecks
    BY <1>8 DEF ErrorChecks
  <2>8. \A o : AppliesToAny(c.abortConditions, o) <=> AppliesToAny(c.abortConditions, o) \/ CallAborts(k, o)
    BY <1>8 DEF CallAborts
  <2> HIDE DEF F
  <2> QED  BY <1>4, <2>2, <2>3, <2>4, <2>6, <2>7, <2>8
<1>9. CASE k.op = "AbortOnResult"
  <2> DEFINE A == c.abortConditions \cup {Returning(k.arg)}
  <2>1. d = [c EXCEPT !.abortConditions = A] /\ k.arg \in Results
    BY <1>1, <1>9 DEF Called, IsCall, AbortOnResult
  <2>2. c.failureConditions \in SUBSET SUBSET Outcomes /\ A \in SUBSET SUBSET Outcomes
    BY <1>3, <1>5, <2>1 DEF Outcomes, HttpRetryHandled, Results, Errs, Errors
  <2>3. d = [c EXCEPT !.failureConditions = c.failureConditions, !.errorsChecked = c.errorsChecked, !.abortConditions = A,
                      !.hasDelayFunc = c.hasDelayFunc, !.hasBudget = c.hasBudget]
    BY <1>1, <2>1 DEF Configs
  <2>4. c.errorsChecked \in BOOLEAN /\ c.hasDelayFunc \in BOOLEAN /\ c.hasBudget \in BOOLEAN
    BY <1>1 DEF Configs
  <2>5. \A o : CallHandles(k, o) <=> FALSE
    BY <1>9 DEF CallHandles
  <2>6. \A o : AppliesToAny(c.failureConditions, o) <=> AppliesToAny(c.failureConditions, o) \/ CallHandles(k, o)
    BY <2>5 DEF AppliesToAny
  <2>7. k.op \notin ErrorChecks
    BY <1>9 DEF ErrorChecks
  <2>8. \A o : AppliesToAny(A, o) <=> AppliesToAny(c.abortConditions, o) \/ CallAborts(k, o)
    <3>1. \A o : CallAborts(k, o) <=> o \in Returning(k.arg)
      BY <1>9 DEF CallAborts, Returning
    <3> QED  BY <3>1 DEF AppliesToAny
  <2> HIDE DEF A
  <2> QED  BY <1>4, <2>2, <2>3, <2>4, <2>6, <2>7, <2>8
<1>10. CASE k.op = "AbortOnErrors"
  <2> DEFINE A == c.abortConditions \cup {Is(e) : e \in k.arg}
  <2>1. d = [c EXCEPT !.abortConditions = A] /\ k.arg \subseteq Errors
    BY <1>1, <1>10 DEF Called, IsCall, AbortOnErrors
  <2>2. c.failureConditions \in SUBSET SUBSET Outcomes /\ A \in SUBSET SUBSET Outcomes
    BY <1>3, <1>5, <2>1 DEF Outcomes, HttpRetryHandled, Results, Errs, Errors
  <2>3. d = [c EXCEPT !.failureConditions = c.failureConditions, !.errorsChecked = c.errorsChecked, !.abortConditions = A,
                      !.hasDelayFunc = c.hasDelayFunc, !.hasBudget = c.hasBudget]
    BY <1>1, <2>1 DEF Configs
  <2>4. c.errorsChecked \in BOOLEAN /\ c.hasDelayFunc \in BOOLEAN /\ c.hasBudget \in BOOLEAN
    BY <1>1 DEF Configs
  <2>5. \A o : CallHandles(k, o) <=> FALSE
    BY <1>10 DEF CallHandles
  <2>6. \A o : AppliesToAny(c.failureConditions, o) <=> AppliesToAny(c.failureConditions, o) \/ CallHandles(k, o)
    BY <2>5 DEF AppliesToAny
  <2>7. k.op \notin ErrorChecks
    BY <1>10 DEF ErrorChecks
  <2>8. \A o : AppliesToAny(A, o) <=> AppliesToAny(c.abortConditions, o) \/ CallAborts(k, o)
    <3>1. \A o : CallAborts(k, o) <=> \E e \in k.arg : o \in Is(e)
      BY <1>10 DEF CallAborts
    <3> QED  BY <3>1 DEF AppliesToAny
  <2> HIDE DEF A
  <2> QED  BY <1>4, <2>2, <2>3, <2>4, <2>6, <2>7, <2>8
<1>11. CASE k.op = "AbortIf"
  <2> DEFINE A == c.abortConditions \cup {k.arg}
  <2>1. d = [c EXCEPT !.abortConditions = A] /\ k.arg \subseteq Outcomes
    BY <1>1, <1>11 DEF Called, IsCall, AbortIf
  <2>2. c.failureConditions \in SUBSET SUBSET Outcomes /\ A \in SUBSET SUBSET Outcomes
    BY <1>3, <1>5, <2>1 DEF Outcomes, HttpRetryHandled, Results, Errs, Errors
  <2>3. d = [c EXCEPT !.failureConditions = c.failureConditions, !.errorsChecked = c.errorsChecked, !.abortConditions = A,
                      !.hasDelayFunc = c.hasDelayFunc, !.hasBudget = c.hasBudget]
    BY <1>1, <2>1 DEF Configs
  <2>4. c.errorsChecked \in BOOLEAN /\ c.hasDelayFunc \in BOOLEAN /\ c.hasBudget \in BOOLEAN
    BY <1>1 DEF Configs
  <2>5. \A o : CallHandles(k, o) <=> FALSE
    BY <1>11 DEF CallHandles
  <2>6. \A o : AppliesToAny(c.failureConditions, o) <=> AppliesToAny(c.failureConditions, o) \/ CallHandles(k, o)
    BY <2>5 DEF AppliesToAny
  <2>7. k.op \notin ErrorChecks
    BY <1>11 DEF ErrorChecks
  <2>8. \A o : AppliesToAny(A, o) <=> AppliesToAny(c.abortConditions, o) \/ CallAborts(k, o)
    <3>1. \A o : CallAborts(k, o) <=> o \in k.arg
      BY <1>11 DEF CallAborts
    <3> QED  BY <3>1 DEF AppliesToAny
  <2> HIDE DEF A
  <2> QED  BY <1>4, <2>2, <2>3, <2>4, <2>6, <2>7, <2>8
<1>12. CASE k.op = "WithBudget"
  <2> DEFINE A == c.abortConditions \cup {Is("budgetExceeded")}
  <2>1. d = [[c EXCEPT !.hasBudget = TRUE] EXCEPT !.abortConditions = A]
    BY <1>1, <1>12 DEF Called, IsCall, WithBudget, AbortOnErrors, Configs
  <2>2. c.failureConditions \in SUBSET SUBSET Outcomes /\ A \in SUBSET SUBSET Outcomes
    BY <1>3, <1>5, <2>1 DEF Outcomes, HttpRetryHandled, Results, Errs, Errors
  <2>3. d = [c EXCEPT !.failureConditions = c.failureConditions, !.errorsChecked = c.errorsChecked, !.abortConditions = A,
                      !.hasDelayFunc = c.hasDelayFunc, !.hasBudget = TRUE]
    BY <1>1, <2>1 DEF Configs
  <2>4. c.errorsChecked \in BOOLEAN /\ c.hasDelayFunc \in BOOLEAN /\ c.hasBudget \in BOOLEAN
    BY <1>1 DEF Configs
  <2>5. \A o : CallHandles(k, o) <=> FALSE
    BY <1>12 DEF CallHandles
  <2>6. \A o : AppliesToAny(c.failureConditions, o) <=> AppliesToAny(c.failureConditions, o) \/ CallHandles(k, o)
    BY <2>5 DEF AppliesToAny
  <2>7. k.op \notin ErrorChecks
    BY <1>12 DEF ErrorChecks
  <2>8. \A o : AppliesToAny(A, o) <=> AppliesToAny(c.abortConditions, o) \/ CallAborts(k, o)
    <3>1. \A o : CallAborts(k, o) <=> o \in Is("budgetExceeded")
      BY <1>12 DEF CallAborts
    <3> QED  BY <3>1 DEF AppliesToAny
  <2> HIDE DEF A
  <2> QED  BY <1>4, <2>2, <2>3, <2>4, <2>6, <2>7, <2>8
<1>13. CASE k.op = "http"
  <2> DEFINE F == c.failureConditions \cup {HttpRetryHandled}
             A == c.abortConditions \cup {Is("canceled")}
  <2>1. d = [[[c EXCEPT !.failureConditions = F, !.errorsChecked = TRUE] EXCEPT !.abortConditions = A] EXCEPT !.hasDelayFunc = TRUE]
    <3>1. c = NewBuilder /\ d = HttpBuilder
      BY <1>13 DEF Called, Follows
    <3>2. PICK c1 \in Configs : c1 = [c EXCEPT !.failureConditions = F, !.errorsChecked = TRUE]
      <4>1. PICK c0 \in Configs : c0 = [c EXCEPT !.failureConditions = F]
        BY <1>1, <1>3 DEF Configs, HttpRetryHandled, Outcomes, Results, Errs
      <4> QED  BY <4>1 DEF Configs
    <3>3. c1 = HandleIf(c, HttpRetryHandled)
      BY <3>2 DEF HandleIf
    <3>4. c1.abortConditions = c.abortConditions
      BY <1>1, <3>2 DEF Configs
    <3>5. {Is(e) : e \in {"canceled"}} = {Is("canceled")}
      OBVIOUS
    <3>6. AbortOnErrors(c1, {"canceled"}) = [c1 EXCEPT !.abortConditions = A]
      BY <3>4, <3>5 DEF AbortOnErrors
    <3>7. d = [AbortOnErrors(c1, {"canceled"}) EXCEPT !.hasDelayFunc = TRUE]
      BY <3>1, <3>3 DEF HttpBuilder, WithDelayFunc
    <3> QED  BY <3>2, <3>6, <3>7
  <2>2. F \in SUBSET SUBSET Outcomes /\ A \in SUBSET SUBSET Outcomes
    BY <1>3, <1>5, <2>1 DEF Outcomes, HttpRetryHandled, Results, Errs, Errors
  <2>3. d = [c EXCEPT !.failureConditions = F, !.errorsChecked = TRUE, !.abortConditions = A,
                      !.hasDelayFunc = TRUE, !.hasBudget = c.hasBudget]
    BY <1>1, <2>1 DEF Configs
  <2>4. c.errorsChecked \in BOOLEAN /\ c.hasDelayFunc \in BOOLEAN /\ c.hasBudget \in BOOLEAN
    BY <1>1 DEF Configs
  <2>5. \A o : CallHandles(k, o) <=> o \in HttpRetryHandled
    BY <1>13 DEF CallHandles
  <2>6. \A o : AppliesToAny(F, o) <=> AppliesToAny(c.failureConditions, o) \/ CallHandles(k, o)
    BY <2>5 DEF AppliesToAny
  <2>7. F # {} /\ k.op \in ErrorChecks
    BY <1>13 DEF ErrorChecks
  <2>8. \A o : AppliesToAny(A, o) <=> AppliesToAny(c.abortConditions, o) \/ CallAborts(k, o)
    <3>1. \A o : CallAborts(k, o) <=> o \in Is("canceled")
      BY <1>13 DEF CallAborts
    <3> QED  BY <3>1 DEF AppliesToAny
  <2> HIDE DEF F, A
  <2> QED  BY <1>4, <2>2, <2>3, <2>4, <2>6, <2>7, <2>8
<1>14. CASE k.op = "grpc"
  <2> DEFINE F == c.failureConditions \cup {{"transient"}}
  <2>1. d = [c EXCEPT !.failureConditions = F, !.errorsChecked = TRUE]
    BY <1>1, <1>14 DEF Called, IsCall, GrpcBuilder, HandleIf, Follows, Configs
  <2>2. F \in SUBSET SUBSET Outcomes /\ c.abortConditions \in SUBSET SUBSET Outcomes
    BY <1>3, <1>5, <2>1 DEF Outcomes, HttpRetryHandled, Results, Errs, Errors
  <2>3. d = [c EXCEPT !.failureConditions = F, !.errorsChecked = TRUE, !.abortConditions = c.abortConditions,
                      !.hasDelayFunc = c.hasDelayFunc, !.hasBudget = c.hasBudget]
    BY <1>1, <2>1 DEF Configs
  <2>4. c.errorsChecked \in BOOLEAN /\ c.hasDelayFunc \in BOOLEAN /\ c.hasBudget \in BOOLEAN
    BY <1>1 DEF Configs
  <2>5. \A o : CallHandles(k, o) <=> o = "transient"
    BY <1>14 DEF CallHandles
  <2>6. \A o : AppliesToAny(F, o) <=> AppliesToAny(c.failureConditions, o) \/ CallHandles(k, o)
    BY <2>5 DEF AppliesToAny
  <2>7. F # {} /\ k.op \in ErrorChecks
    BY <1>14 DEF ErrorChecks
  <2>8. \A o : AppliesToAny(c.abortConditions, o) <=> AppliesToAny(c.abortConditions, o) \/ CallAborts(k, o)
    BY <1>14 DEF CallAborts
  <2> HIDE DEF F
  <2> QED  BY <1>4, <2>2, <2>3, <2>4, <2>6, <2>7, <2>8
<1> QED  BY <1>6, <1>7, <1>8, <1>9, <1>10, <1>11, <1>12, <1>13, <1>14

\* Every builder call has the result that it should.
LEMMA CallResult == ASSUME NEW c, NEW k, Follows(c, k) PROVE Result(c, k, Called(c, k))
<1>1. c \in Configs /\ IsCall(k)
  BY DEF Follows
<1>2. CASE k.op \in {"HandleErrors", "HandleResult", "HandleIf", "AbortOnErrors", "AbortOnResult", "AbortIf",
                     "WithBudget", "http", "grpc"}
  BY <1>2, ConditionsAdded
<1>3. CASE k.op \in {"WithMaxAttempts", "WithMaxRetries", "WithMaxDuration", "WithDelay", "WithBackoff",
                     "WithRandomDelay", "WithJitter", "WithJitterFactor", "ReturnLastFailure", "WithDelayFunc"}
  BY <1>1, <1>3, NumbersSet
<1> QED  BY <1>1, <1>2, <1>3 DEF IsCall

-----------------------------------------------------------------------------
\* Induction over the natural numbers.
LEMMA NaturalInduction ==
  ASSUME NEW S \in SUBSET Nat, 0 \in S, \A n \in S : n + 1 \in S
  PROVE  S = Nat
<1> SUFFICES ASSUME Nat \ S # {} PROVE FALSE
  OBVIOUS
<1> DEFINE less == OpToRel(<, Nat)
<1>1. PICK n \in Nat \ S : \A m \in Nat \ S : ~(<<m, n>> \in less)
  BY NatLessThanWellFounded, WFMin
<1>2. \A m \in Nat \ S : m < n => <<m, n>> \in less
  BY DEF OpToRel
<1>3. \A m \in Nat \ S : ~(m < n)
  BY <1>1, <1>2, Zenon
<1>4. n # 0 /\ n - 1 \in Nat /\ n - 1 < n
  OBVIOUS
<1>5. n - 1 \in S
  BY <1>3, <1>4
<1>6. (n - 1) + 1 \in S
  BY <1>5
<1> QED  BY <1>6

\* Calls that a builder takes: those of UsesAssumption.
Buildable(cs) ==
  /\ Len(cs) \in Nat /\ DOMAIN cs = 1 .. Len(cs)
  /\ \A i \in 1 .. Len(cs) : IsCall(cs[i]) /\ (cs[i].op \in {"http", "grpc"} => i = 1)

\* What the first n of the calls cs leave in the configuration c.
Reflects(c, cs, n) ==
  /\ c \in Configs
  /\ \A f \in Numbers :
       \/ c[f] = NewBuilder[f] /\ \A i \in 1 .. n : cs[i].op \notin Setters(f)
       \/ \E j \in 1 .. n : /\ cs[j].op \in Setters(f) /\ c[f] = ValueSet(cs[j], f)
                            /\ \A i \in 1 .. n : cs[i].op \in Setters(f) => i <= j
  /\ \A o : AppliesToAny(c.failureConditions, o) <=> \E i \in 1 .. n : CallHandles(cs[i], o)
  /\ c.errorsChecked <=> \E i \in 1 .. n : cs[i].op \in ErrorChecks
  /\ c.errorsChecked => c.failureConditions # {}
  /\ \A o : AppliesToAny(c.abortConditions, o) <=> \E i \in 1 .. n : CallAborts(cs[i], o)

\* A builder that was not called reflects no calls.
LEMMA ReflectsNothing == ASSUME NEW cs PROVE Reflects(NewBuilder, cs, 0)
<1>1. NewBuilder.failureConditions = {} /\ NewBuilder.errorsChecked = FALSE /\ NewBuilder.abortConditions = {}
  BY DEF NewBuilder
<1> QED  BY <1>1, NewConfig DEF Reflects, AppliesToAny

\* Called adds what the next call asks for, to what the calls before it asked for.
LEMMA ReflectsCall ==
  ASSUME NEW cs, Buildable(cs), NEW n \in Nat, n < Len(cs), NEW c, Reflects(c, cs, n),
         n = 0 => c = NewBuilder
  PROVE  Reflects(Called(c, cs[n + 1]), cs, n + 1)
<1> DEFINE k == cs[n + 1]
           d == Called(c, k)
<1>1. n + 1 \in 1 .. Len(cs) /\ n + 1 \in 1 .. n + 1 /\ \A i \in 1 .. n + 1 : i \in 1 .. n \/ i = n + 1
  BY DEF Buildable
<1>2. Follows(c, k)
  BY <1>1 DEF Follows, Buildable, Reflects
<1> HIDE DEF k, d
<1>3. Result(c, k, d)
  BY <1>2, CallResult DEF d
<1>4. \A i \in 1 .. n : i \in 1 .. n + 1 /\ i <= n + 1
  OBVIOUS
<1>5. ASSUME NEW f \in Numbers
      PROVE  \/ d[f] = NewBuilder[f] /\ \A i \in 1 .. n + 1 : cs[i].op \notin Setters(f)
             \/ \E j \in 1 .. n + 1 : /\ cs[j].op \in Setters(f) /\ d[f] = ValueSet(cs[j], f)
                                      /\ \A i \in 1 .. n + 1 : cs[i].op \in Setters(f) => i <= j
  <2>1. CASE k.op \in Setters(f)
    <3>1. d[f] = ValueSet(cs[n + 1], f) /\ cs[n + 1].op \in Setters(f)
      BY <1>3, <2>1 DEF Result, k
    <3>2. \A i \in 1 .. n + 1 : i <= n + 1
      OBVIOUS
    <3> QED  BY <1>1, <3>1, <3>2
  <2>2. CASE k.op \notin Setters(f)
    <3>1. d[f] = c[f]
      BY <1>3, <2>2 DEF Result
    <3> QED  BY <1>1, <1>4, <2>2, <3>1 DEF Reflects, k
  <2> QED  BY <2>1, <2>2
<1>6. \A o : AppliesToAny(d.failureConditions, o) <=> \E i \in 1 .. n + 1 : CallHandles(cs[i], o)
  BY <1>1, <1>3, <1>4 DEF Reflects, Result, k
<1>7. d.errorsChecked <=> \E i \in 1 .. n + 1 : cs[i].op \in ErrorChecks
  BY <1>1, <1>3, <1>4 DEF Reflects, Result, k
<1>8. d.errorsChecked => d.failureConditions # {}
  BY <1>3 DEF Reflects, Result
<1>9. \A o : AppliesToAny(d.abortConditions, o) <=> \E i \in 1 .. n + 1 : CallAborts(cs[i], o)
  BY <1>1, <1>3, <1>4 DEF Reflects, Result, k
<1>10. d \in Configs
  BY <1>3 DEF Result
<1>11. Reflects(d, cs, n + 1)
  BY <1>5, <1>6, <1>7, <1>8, <1>9, <1>10 DEF Reflects
<1> QED  BY <1>11 DEF d, k

\* Build, from the first call to the last.
LEMMA ReflectsBuild == ASSUME NEW cs, Buildable(cs) PROVE Reflects(Build(cs), cs, Len(cs))
<1> DEFINE n == Len(cs)
           Loop(f) == [i \in 0 .. n |-> IF i = 0 THEN NewBuilder ELSE Called(f[i - 1], cs[i])]
           Upto(f, m) == f[0] = NewBuilder /\ \A i \in 1 .. m : f[i] = Called(f[i - 1], cs[i])
           F == CHOOSE f : f = Loop(f)
<1>1. n \in Nat
  BY DEF Buildable
<1>2. \E f : Upto(f, n)
  <2> DEFINE S == {m \in Nat : \E f : Upto(f, m)}
  <2>1. 0 \in S
    <3>1. Upto([i \in {0} |-> NewBuilder], 0)
      OBVIOUS
    <3> QED  BY <3>1
  <2>2. ASSUME NEW m \in S PROVE m + 1 \in S
    <3>1. PICK f : Upto(f, m)
      BY <2>2
    <3> DEFINE g == [i \in 0 .. m + 1 |-> IF i = m + 1 THEN Called(f[m], cs[m + 1]) ELSE f[i]]
    <3>2. m \in Nat /\ 0 \in 0 .. m + 1 /\ m + 1 \in 0 .. m + 1 /\ (m + 1) - 1 = m /\ m \in 0 .. m + 1 /\ m # m + 1 /\ 0 # m + 1
      OBVIOUS
    <3>3. g[0] = NewBuilder /\ g[m + 1] = Called(f[m], cs[m + 1]) /\ g[m] = f[m]
      BY <3>1, <3>2
    <3>4. ASSUME NEW i \in 1 .. m + 1 PROVE g[i] = Called(g[i - 1], cs[i])
      <4>1. CASE i = m + 1
        BY <3>2, <3>3, <4>1
      <4>2. CASE i # m + 1
        <5>1. i \in 1 .. m /\ i \in 0 .. m + 1 /\ i - 1 \in 0 .. m + 1 /\ i - 1 # m + 1
          BY <3>2, <4>2
        <5>2. g[i] = f[i] /\ g[i - 1] = f[i - 1]
          BY <4>2, <5>1
        <5> QED  BY <3>1, <5>1, <5>2
      <4> QED  BY <4>1, <4>2
    <3> HIDE DEF g
    <3>5. Upto(g, m + 1)
      BY <3>3, <3>4
    <3> QED  BY <3>2, <3>5
  <2> HIDE DEF S
  <2>3. S = Nat
    BY <2>1, <2>2, NaturalInduction DEF S
  <2> QED  BY <1>1, <2>3 DEF S
<1>3. \E f : f = Loop(f)
  <2>1. PICK f : Upto(f, n)
    BY <1>2
  <2> DEFINE g == [i \in 0 .. n |-> f[i]]
  <2>2. ASSUME NEW i \in 0 .. n PROVE g[i] = IF i = 0 THEN NewBuilder ELSE Called(g[i - 1], cs[i])
    <3>1. CASE i = 0
      BY <2>1, <3>1
    <3>2. CASE i # 0
      <4>1. i \in 1 .. n /\ i - 1 \in 0 .. n
        BY <1>1, <3>2
      <4>2. g[i] = f[i] /\ g[i - 1] = f[i - 1]
        BY <4>1
      <4> QED  BY <2>1, <3>2, <4>1, <4>2
    <3> QED  BY <3>1, <3>2
  <2>3. g = Loop(g)
    BY <2>2
  <2> QED  BY <2>3, Zenon
<1>4. F = Loop(F)
  BY <1>3, Zenon
<1>5. Build(cs) = F[n]
  BY DEF Build
<1> HIDE DEF F
<1>6. F[0] = NewBuilder /\ \A i \in 1 .. n : F[i] = Called(F[i - 1], cs[i])
  <2>1. 0 \in 0 .. n /\ \A i \in 1 .. n : i \in 0 .. n /\ i # 0
    BY <1>1
  <2>2. \A i \in 0 .. n : F[i] = IF i = 0 THEN NewBuilder ELSE Called(F[i - 1], cs[i])
    BY <1>4
  <2> QED  BY <2>1, <2>2
<1> DEFINE T == {m \in Nat : m <= n => Reflects(F[m], cs, m)}
<1>7. 0 \in T
  BY <1>6, ReflectsNothing
<1>8. ASSUME NEW m \in T PROVE m + 1 \in T
  <2> SUFFICES ASSUME m + 1 <= n PROVE Reflects(F[m + 1], cs, m + 1)
    OBVIOUS
  <2>1. m \in Nat /\ m < Len(cs) /\ m + 1 \in 1 .. n /\ (m + 1) - 1 = m /\ Reflects(F[m], cs, m)
    BY <1>1, <1>8
  <2>2. F[m + 1] = Called(F[m], cs[m + 1])
    BY <1>6, <2>1
  <2>3. m = 0 => F[m] = NewBuilder
    BY <1>6
  <2> QED  BY <2>1, <2>2, <2>3, ReflectsCall
<1> HIDE DEF T
<1>9. T = Nat
  BY <1>7, <1>8, NaturalInduction DEF T
<1>10. n <= n
  BY <1>1
<1> QED  BY <1>1, <1>5, <1>9, <1>10 DEF T

-----------------------------------------------------------------------------
(***************************************************************************)
(* The calls that the properties look up.                                  *)
(***************************************************************************)
LEMMA LastCall ==
  ASSUME Buildable(calls), NEW ops, NEW j \in 1 .. Len(calls), calls[j].op \in ops,
         \A i \in 1 .. Len(calls) : calls[i].op \in ops => i <= j
  PROVE  LastOf(ops) = calls[j]
<1> DEFINE is == UNION {Made(op) : op \in ops}
<1>1. \A i : i \in is <=> i \in 1 .. Len(calls) /\ calls[i].op \in ops
  BY DEF Made, Buildable
<1>2. j \in is /\ \A i \in is : i <= j
  BY <1>1
<1>3. \A i \in is : i \in Nat
  BY <1>1 DEF Buildable
<1> HIDE DEF is
<1>4. \A i \in is : (\A m \in is : m <= i) => i = j
  BY <1>2, <1>3
<1>5. (CHOOSE i \in is : \A m \in is : m <= i) = j
  BY <1>2, <1>4
<1> QED  BY <1>2, <1>5 DEF LastOf, is

\* The lookup of a call that was not made.
LEMMA NoCall ==
  ASSUME Buildable(calls), NEW ops, \A i \in 1 .. Len(calls) : calls[i].op \notin ops
  PROVE  LastOf(ops) = [op |-> "none"]
<1>1. UNION {Made(op) : op \in ops} = {}
  BY DEF Made, Buildable
<1> QED  BY <1>1 DEF LastOf

\* "none" is no call.
LEMMA CallsAreNamed == ASSUME Buildable(calls), NEW i \in 1 .. Len(calls) PROVE calls[i].op # "none"
<1>1. IsCall(calls[i])
  BY DEF Buildable
<1> QED  BY <1>1 DEF IsCall

\* The last call that is one of ops.
LEMMA LastExists ==
  ASSUME Buildable(calls), NEW ops, NEW i \in 1 .. Len(calls), calls[i].op \in ops
  PROVE  \E j \in 1 .. Len(calls) :
           /\ calls[j].op \in ops /\ LastOf(ops) = calls[j]
           /\ \A m \in 1 .. Len(calls) : calls[m].op \in ops => m <= j
<1>1. PICK n \in Nat : n = Len(calls) /\ i \in 1 .. n
  BY DEF Buildable
<1> DEFINE S == {m \in Nat : \E j \in 1 .. n : j + m = n /\ calls[j].op \in ops}
           less == OpToRel(<, Nat)
<1>2. n - i \in S /\ S \in SUBSET Nat
  <2>1. n - i \in Nat /\ i + (n - i) = n
    BY <1>1
  <2> QED  BY <1>1, <2>1
<1>3. PICK m \in S : \A p \in S : ~(<<p, m>> \in less)
  BY <1>2, NatLessThanWellFounded, WFMin
<1>4. \A p \in S : p < m => <<p, m>> \in less
  BY DEF OpToRel
<1>5. \A p \in S : ~(p < m)
  BY <1>3, <1>4, Zenon
<1>6. PICK j \in 1 .. n : j + m = n /\ calls[j].op \in ops
  OBVIOUS
<1>7. ASSUME NEW p \in 1 .. n, calls[p].op \in ops PROVE p <= j
  <2>1. n - p \in Nat /\ p + (n - p) = n
    BY <1>1
  <2>2. n - p \in S
    BY <1>7, <2>1
  <2>3. ~(n - p < m) /\ m \in Nat
    BY <1>5, <2>2
  <2> QED  BY <1>6, <2>3
<1> HIDE DEF S
<1>8. LastOf(ops) = calls[j]
  BY <1>1, <1>6, <1>7, LastCall
<1> QED  BY <1>1, <1>6, <1>7, <1>8

-----------------------------------------------------------------------------
(***************************************************************************)
(* The invariant of the loop.                                              *)
(***************************************************************************)
Answers == Outcomes \cup {"none", "ctx.Err", "ExceededError", "budget.ErrExceeded"}

Places ==
  {"call", "returned", "checking", "handling", "failed", "stored", "exceeds", "within", "counted",
   "ending", "retrying", "scheduling", "waiting", "done"}

RetryTypes ==
  /\ Buildable(calls) /\ Reflects(config, calls, Len(calls))
  /\ IsFiniteSet(Runners)
  /\ pc \in [Runners -> Places]
  /\ outcome \in [Runners -> Answers]
  /\ seen \in [Runners -> Nat] /\ wait \in [Runners -> Nat] /\ attempts \in [Runners -> Nat]
  /\ failedAttempts \in Nat /\ retriesExceeded \in BOOLEAN
  /\ lastDelay \in Nat /\ retries \in Nat
  /\ elapsed \in 0 .. MaxElapsed /\ canceled \in BOOLEAN

(***************************************************************************)
(* The attempts that runner r has made or is bound to make, and those that *)
(* may follow as long as no other runner touches the counter: one for each *)
(* failure that the counter still leaves, and one if r is about to decide  *)
(* from retriesExceeded as it is now.                                      *)
(***************************************************************************)
Left(k) == IF k > 0 THEN k ELSE 0

\* A runner that has set retriesExceeded is where the flag puts it, whoever sets that in between.
Place(r) == IF pc[r] = "counted" THEN IF retriesExceeded THEN "exceeds" ELSE "within" ELSE pc[r]

DueAt(w) == IF w \in {"retrying", "scheduling", "waiting", "call"} THEN 1 ELSE 0

ComingAt(w, s, f, m) ==
  CASE w \in {"ending", "done"}     -> 0
    [] w = "failed"                 -> Left(m - s)
    [] w \in {"stored", "exceeds"}  -> Left((m + 1) - f)
    [] w = "within"                 -> 1 + Left(m - f)
    [] OTHER                        -> Left(m - f)

Due(r) ==
  attempts[r] + DueAt(Place(r)) + ComingAt(Place(r), seen[r], failedAttempts, config.maxRetries)

\* A runner that is alone.
AloneOK ==
  config.maxRetries # -1 => \A r \in Runners : Runners = {r} => Due(r) <= config.maxRetries + 1

(***************************************************************************)
(* Of two runners, a may fail until the counter it sees passes the limit.  *)
(* Then b, which may have read the counter long before, sets it back to    *)
(* one more than that; a starts again from there, and so on: as b reads    *)
(* the counter anew each time, each round is shorter by one at least.      *)
(* Rounds(a, b) is the length of the longest round still to come.  Once,   *)
(* b may also hide from a that the retries are used up, when it compared   *)
(* before they were and sets retriesExceeded after a did: not when Shown.  *)
(***************************************************************************)
Stale(b) == IF pc[b] = "failed" THEN seen[b] ELSE failedAttempts

Ahead(a) == IF pc[a] = "failed" THEN seen[a] + 1 ELSE failedAttempts + 1

Rounds(a, b) == Left(config.maxRetries - AtMost(Stale(b), Ahead(a)))

Shown ==
  /\ failedAttempts > config.maxRetries
  /\ \A r \in Runners : pc[r] # "within" /\ (pc[r] = "failed" => seen[r] >= config.maxRetries)

Hidden == IF Shown THEN 0 ELSE 1

PairOK ==
  config.maxRetries # -1 =>
    \A a, b \in Runners : a # b /\ Runners = {a, b} =>
      2 * Due(a) + Rounds(a, b) * (Rounds(a, b) + 1) + 2 * Hidden
        <= (config.maxRetries + 1) * (config.maxRetries + 2) + 2

\* A fixed delay, or one on the way from it to the maximum of the backoff.
FixedDelays ==
  IF config.maxDelay = 0 THEN {config.delay}
  ELSE AtMost(config.delay, config.maxDelay) .. AtLeast(config.delay, config.maxDelay)

LastDelayOK == lastDelay # 0 => config.delay # 0 /\ lastDelay \in FixedDelays

RetryInv == RetryTypes /\ AloneOK /\ PairOK /\ LastDelayOK

\* The numbers of a configuration.
LEMMA ConfigNumbers ==
  ASSUME RetryTypes
  PROVE  /\ config.delay \in Nat /\ config.delayMin \in Nat /\ config.delayMax \in Nat
         /\ config.delayFactor \in Nat /\ config.maxDelay \in Nat
         /\ config.jitter \in Nat /\ config.jitterFactor \in Nat /\ config.maxDuration \in Nat
         /\ config.maxRetries \in Nat \cup {-1}
BY DEF RetryTypes, Reflects, Configs

\* What each number of the configuration is.
LEMMA NumberIs ==
  ASSUME RetryTypes, NEW f \in Numbers
  PROVE  \/ config[f] = NewBuilder[f] /\ LastOf(Setters(f)) = [op |-> "none"]
            /\ \A i \in 1 .. Len(calls) : calls[i].op \notin Setters(f)
         \/ \E j \in 1 .. Len(calls) :
              /\ calls[j].op \in Setters(f) /\ config[f] = ValueSet(calls[j], f)
              /\ \A i \in 1 .. Len(calls) : calls[i].op \in Setters(f) => i <= j
              /\ LastOf(Setters(f)) = calls[j] /\ IsCall(calls[j])
<1>1. Buildable(calls) /\ \A i \in 1 .. Len(calls) : IsCall(calls[i])
  BY DEF RetryTypes, Buildable
<1>2. CASE \A i \in 1 .. Len(calls) : calls[i].op \notin Setters(f)
  <2>1. config[f] = NewBuilder[f]
    BY <1>2 DEF RetryTypes, Reflects
  <2> QED  BY <1>1, <1>2, <2>1, NoCall
<1>3. CASE \E i \in 1 .. Len(calls) : calls[i].op \in Setters(f)
  <2>1. PICK j \in 1 .. Len(calls) :
          /\ calls[j].op \in Setters(f) /\ config[f] = ValueSet(calls[j], f)
          /\ \A i \in 1 .. Len(calls) : calls[i].op \in Setters(f) => i <= j
    BY <1>3 DEF RetryTypes, Reflects
  <2>2. LastOf(Setters(f)) = calls[j]
    BY <1>1, <2>1, LastCall
  <2> QED  BY <1>1, <2>1, <2>2
<1> QED  BY <1>2, <1>3

\* A maximum comes with a factor.
LEMMA BackoffFactor == ASSUME RetryTypes, config.maxDelay # 0 PROVE config.delayFactor >= 1
<1>1. NewBuilder["maxDelay"] = 0 /\ {"maxDelay", "delayFactor"} \subseteq Numbers
  BY DEF NewBuilder, Numbers
<1>2. PICK j \in 1 .. Len(calls) :
        calls[j].op \in Setters("maxDelay") /\ config["maxDelay"] = ValueSet(calls[j], "maxDelay")
  BY <1>1, NumberIs
<1>3. calls[j].op = "WithBackoff"
  BY <1>2 DEF Setters, ValueSet
<1>4. calls[j].op \in Setters("delayFactor")
  BY <1>3 DEF Setters
<1>5. PICK m \in 1 .. Len(calls) :
        calls[m].op \in Setters("delayFactor") /\ config["delayFactor"] = ValueSet(calls[m], "delayFactor")
  BY <1>1, <1>4, NumberIs
<1> QED  BY <1>5 DEF Setters, ValueSet

\* The delays that getFixedOrRandomDelay returns, and the lastDelay it leaves.
LEMMA BaseDelay ==
  ASSUME RetryTypes, LastDelayOK, NEW o, NEW base \in BaseDelays(o)
  PROVE  /\ base.delay \in Int /\ base.last \in Nat
         /\ base.last # 0 => config.delay # 0 /\ base.last \in FixedDelays
         /\ ComputeDelay(o) # -1 => base.delay = ComputeDelay(o)
         /\ ComputeDelay(o) = -1 =>
              IF config.delay # 0 THEN base.delay \in FixedDelays
              ELSE IF config.delayMin # 0 /\ config.delayMax # 0
                   THEN base.delay \in RandomDelayInRange(config.delayMin, config.delayMax)
                   ELSE base.delay = 0
<1>1. /\ config.delay \in Nat /\ config.delayMin \in Nat /\ config.delayMax \in Nat
      /\ config.delayFactor \in Nat /\ config.maxDelay \in Nat /\ lastDelay \in Nat
  BY ConfigNumbers DEF RetryTypes
<1>2. ComputeDelay(o) \in Int
  BY DEF ComputeDelay, DelayFunc
<1>3. CASE ComputeDelay(o) # -1
  <2>1. base = [delay |-> ComputeDelay(o), last |-> lastDelay]
    BY <1>3 DEF BaseDelays
  <2>2. base.delay = ComputeDelay(o) /\ base.last = lastDelay
    BY <2>1
  <2> QED  BY <1>1, <1>2, <1>3, <2>2 DEF LastDelayOK
<1>4. CASE ComputeDelay(o) = -1
  <2>1. base \in FixedOrRandomDelays
    BY <1>4 DEF BaseDelays
  <2>2. CASE config.delay # 0
    <3> DEFINE d == IF BacksOff THEN Backoff(lastDelay) ELSE config.delay
    <3>1. base.delay = d /\ base.last = d
      BY <2>1, <2>2 DEF FixedOrRandomDelays
    <3>2. d \in FixedDelays /\ d \in Nat
      <4>1. CASE ~BacksOff
        BY <1>1, <4>1 DEF FixedDelays, AtMost, AtLeast
      <4>2. CASE BacksOff
        <5>1. config.maxDelay # 0 /\ lastDelay \in FixedDelays
          BY <4>2 DEF BacksOff, LastDelayOK
        <5>2. config.delayFactor >= 1 => lastDelay * config.delayFactor \in Nat
                                         /\ lastDelay * config.delayFactor >= lastDelay
          <6> SUFFICES ASSUME config.delayFactor >= 1
                       PROVE  lastDelay * config.delayFactor \in Nat /\ lastDelay * config.delayFactor >= lastDelay
            OBVIOUS
          <6>1. PICK q \in Nat, l \in Nat : config.delayFactor = q + 1 /\ l = lastDelay
            <7>1. config.delayFactor - 1 \in Nat /\ config.delayFactor = (config.delayFactor - 1) + 1
              BY <1>1
            <7> QED  BY <1>1, <7>1
          <6>2. l * (q + 1) = l * q + l /\ l * q \in Nat
            OBVIOUS
          <6>3. l * (q + 1) \in Nat /\ l * (q + 1) >= l
            BY <6>2
          <6> QED  BY <6>1, <6>3
        <5>3. config.delayFactor >= 1
          BY <5>1, BackoffFactor
        <5> QED  BY <1>1, <4>2, <5>1, <5>2, <5>3 DEF Backoff, FixedDelays, AtMost, AtLeast
      <4> QED  BY <4>1, <4>2
    <3> HIDE DEF d
    <3> QED  BY <1>4, <2>2, <3>1, <3>2
  <2>3. CASE config.delay = 0 /\ config.delayMin # 0 /\ config.delayMax # 0
    <3>1. PICK d \in RandomDelayInRange(config.delayMin, config.delayMax) : base = [delay |-> d, last |-> lastDelay]
      BY <2>1, <2>3 DEF FixedOrRandomDelays
    <3>2. d \in Nat
      BY <1>1, <3>1 DEF RandomDelayInRange
    <3>3. base.delay = d /\ base.last = lastDelay
      BY <3>1
    <3> QED  BY <1>1, <1>4, <2>3, <3>1, <3>2, <3>3 DEF LastDelayOK
  <2>4. CASE config.delay = 0 /\ ~(config.delayMin # 0 /\ config.delayMax # 0)
    <3>1. base = [delay |-> 0, last |-> lastDelay]
      BY <2>1, <2>4 DEF FixedOrRandomDelays
    <3>2. base.delay = 0 /\ base.last = lastDelay
      BY <3>1
    <3> QED  BY <1>1, <1>4, <2>4, <3>2 DEF LastDelayOK
  <2> QED  BY <2>2, <2>3, <2>4
<1> QED  BY <1>2, <1>3, <1>4

\* The difference that a jitter factor of q quarters makes.
FactorSlack(d, q) == (AtLeast(d, -d) * q + 3) \div 4

\* Division by four rounds down.
LEMMA Quarters == ASSUME NEW a \in Int PROVE a \div 4 \in Int /\ 4 * (a \div 4) <= a /\ a < 4 * (a \div 4) + 4
BY Z3

\* A product is within the bound of its factor.
LEMMA ProductWithin ==
  ASSUME NEW m \in Nat, NEW q \in Nat, NEW i \in Int, -q <= i, i <= q
  PROVE  m * i \in Int /\ m * q \in Nat /\ m * i <= m * q /\ -(m * q) <= m * i
<1>1. PICK a \in Nat, b \in Nat : q = i + a /\ i = b - q
  <2>1. q - i \in Nat /\ i + q \in Nat /\ q = i + (q - i) /\ i = (i + q) - q
    OBVIOUS
  <2> QED  BY <2>1
<1>2. m * (i + a) = m * i + m * a /\ m * (b - q) = m * b - m * q
  OBVIOUS
<1>3. m * a \in Nat /\ m * b \in Nat /\ m * i \in Int /\ m * q \in Nat
  OBVIOUS
<1> QED  BY <1>1, <1>2, <1>3

\* A delay that randomDelayFactor returns differs by FactorSlack at most.
LEMMA FactorWithin ==
  ASSUME NEW d \in Int, NEW q \in Nat, NEW e \in RandomDelayFactor(d, q)
  PROVE  e \in Int /\ FactorSlack(d, q) \in Nat /\ d - FactorSlack(d, q) <= e /\ e <= d + FactorSlack(d, q)
<1>1. PICK i \in 4 - q .. 4 + q : e = (d * i) \div 4
  BY DEF RandomDelayFactor
<1>2. PICK t \in Int : i = 4 + t /\ -q <= t /\ t <= q
  <2>1. i - 4 \in Int /\ i = 4 + (i - 4) /\ -q <= i - 4 /\ i - 4 <= q
    OBVIOUS
  <2> QED  BY <2>1
<1>3. PICK m \in Nat : m = AtLeast(d, -d) /\ (d = m \/ d = -m)
  BY DEF AtLeast
<1>4. m * t \in Int /\ m * q \in Nat /\ m * t <= m * q /\ -(m * q) <= m * t
  BY <1>2, ProductWithin
<1>5. d * i = 4 * d + d * t /\ d * t \in Int
  BY <1>2
<1>6. d * t = m * t \/ d * t = -(m * t)
  <2>1. CASE d = m
    BY <2>1
  <2>2. CASE d = -m
    <3>1. (-m) * t = -(m * t)
      OBVIOUS
    <3> QED  BY <2>2, <3>1
  <2> QED  BY <1>3, <2>1, <2>2
<1>7. PICK p \in Int, x \in Nat : p = d * t /\ x = m * q
  BY <1>4, <1>5
<1>8. -x <= p /\ p <= x
  BY <1>4, <1>6, <1>7
<1>9. e = (4 * d + p) \div 4 /\ FactorSlack(d, q) = (x + 3) \div 4
  BY <1>1, <1>3, <1>5, <1>7 DEF FactorSlack
<1>10. e \in Int /\ 4 * e <= 4 * d + p /\ 4 * d + p < 4 * e + 4
  BY <1>9, Quarters
<1>11. PICK s \in Int : s = FactorSlack(d, q) /\ 4 * s <= x + 3 /\ x + 3 < 4 * s + 4
  <2>1. (x + 3) \div 4 \in Int /\ 4 * ((x + 3) \div 4) <= x + 3 /\ x + 3 < 4 * ((x + 3) \div 4) + 4
    BY Quarters
  <2> QED  BY <1>9, <2>1
<1>12. s \in Nat /\ d - s <= e /\ e <= d + s
  BY <1>8, <1>10, <1>11
<1> QED  BY <1>10, <1>11, <1>12

\* A delay stays an integer, whatever the jitter.
LEMMA JitteredInt == ASSUME RetryTypes, NEW d \in Int, NEW e \in Jittered(d) PROVE e \in Int
<1>1. config.jitter \in Nat /\ config.jitterFactor \in Nat
  BY ConfigNumbers
<1>2. CASE d = 0
  BY <1>2 DEF Jittered
<1>3. CASE d # 0 /\ config.jitter # 0
  BY <1>1, <1>3 DEF Jittered, RandomDelay
<1>4. CASE d # 0 /\ config.jitter = 0 /\ config.jitterFactor # 0
  <2>1. e \in RandomDelayFactor(d, config.jitterFactor)
    BY <1>4 DEF Jittered
  <2> QED  BY <1>1, <2>1, FactorWithin
<1>5. CASE d # 0 /\ config.jitter = 0 /\ config.jitterFactor = 0
  BY <1>5 DEF Jittered
<1> QED  BY <1>2, <1>3, <1>4, <1>5

\* Time goes on, within its bound.
LEMMA LaterOK ==
  ASSUME RetryTypes, NEW d \in Nat
  PROVE  Later(d) \in 0 .. MaxElapsed /\ (config.maxDuration # 0 => Later(d) >= elapsed)
<1>1. elapsed \in 0 .. MaxElapsed /\ MaxElapsed \in Nat
  BY UsesAssumption DEF RetryTypes
<1> QED  BY <1>1 DEF Later, AtMost

\* What no step changes, and the type of what the steps do.
Kept == /\ calls' = calls /\ config' = config /\ Runners' = Runners
        /\ (config.maxDuration # 0 => elapsed' >= elapsed)

\* Ending the loop keeps the types.
LEMMA EndTypes == ASSUME RetryTypes, NEW r \in Runners, NEW answer \in Answers, End(r, answer)
                  PROVE  RetryTypes' /\ Kept
<1>1. /\ pc' = [pc EXCEPT ![r] = "done"] /\ outcome' = [outcome EXCEPT ![r] = answer]
      /\ calls' = calls /\ config' = config /\ failedAttempts' = failedAttempts
      /\ retriesExceeded' = retriesExceeded /\ lastDelay' = lastDelay /\ retries' = retries
      /\ elapsed' = elapsed /\ canceled' = canceled /\ seen' = seen /\ wait' = wait /\ attempts' = attempts
  BY DEF End, executor
<1>2. Runners' = Runners
  BY <1>1 DEF RetryTypes, Runners
<1>3. elapsed \in Int
  BY UsesAssumption DEF RetryTypes
<1>4. RetryTypes'
  BY <1>1, <1>2 DEF RetryTypes, Places
<1> QED  BY <1>1, <1>2, <1>3, <1>4 DEF Kept

\* A step that only goes on keeps the types.
LEMMA GoesOnTypes == ASSUME RetryTypes, NEW r \in Runners, NEW where \in Places, GoesOn(r, where)
                     PROVE  RetryTypes' /\ Kept
<1>1. /\ pc' = [pc EXCEPT ![r] = where] /\ outcome' = outcome
      /\ calls' = calls /\ config' = config /\ failedAttempts' = failedAttempts
      /\ retriesExceeded' = retriesExceeded /\ lastDelay' = lastDelay /\ retries' = retries
      /\ elapsed' = elapsed /\ canceled' = canceled /\ seen' = seen /\ wait' = wait /\ attempts' = attempts
  BY DEF GoesOn, Goes, executor
<1>2. Runners' = Runners
  BY <1>1 DEF RetryTypes, Runners
<1>3. elapsed \in Int
  BY UsesAssumption DEF RetryTypes
<1>4. RetryTypes'
  BY <1>1, <1>2 DEF RetryTypes
<1> QED  BY <1>1, <1>2, <1>3, <1>4 DEF Kept

\* Every step of the loop keeps the types, the calls and the configuration.
LEMMA TypesStep == ASSUME RetryTypes, LastDelayOK, RetryNext PROVE RetryTypes' /\ Kept
<1>1. /\ \A q \in Runners : outcome[q] \in Answers
      /\ {"ctx.Err", "none", "ExceededError", "budget.ErrExceeded"} \cup Outcomes \subseteq Answers
  BY DEF RetryTypes, Answers
<1>2. elapsed \in 0 .. MaxElapsed /\ MaxElapsed \in Nat /\ AttemptsBound \in Nat /\ elapsed \in Int
  BY UsesAssumption DEF RetryTypes
<1>3. ASSUME NEW r \in Runners, NEW where \in Places, Goes(r, where), calls' = calls, config' = config
      PROVE  Runners' = Runners /\ (pc \in [Runners -> Places])'
  <2>1. pc' = [pc EXCEPT ![r] = where] /\ pc \in [Runners -> Places]
    BY <1>3 DEF Goes, RetryTypes
  <2>2. Runners' = Runners
    BY <2>1 DEF Runners
  <2> QED  BY <2>1, <2>2
<1>4. ASSUME NEW r \in Runners, CallInner(r) PROVE RetryTypes' /\ Kept
  <2>1. PICK o \in Outcomes, d \in 0 .. 2 : outcome' = [outcome EXCEPT ![r] = o] /\ elapsed' = Later(d)
    BY <1>4 DEF CallInner
  <2>2. /\ calls' = calls /\ config' = config /\ failedAttempts' = failedAttempts
        /\ retriesExceeded' = retriesExceeded /\ lastDelay' = lastDelay /\ retries' = retries
        /\ canceled' = canceled /\ seen' = seen /\ wait' = wait
        /\ attempts' = [attempts EXCEPT ![r] = @ + 1]
    BY <1>4 DEF CallInner, executor
  <2>3. Runners' = Runners /\ (pc \in [Runners -> Places])'
    BY <1>3, <1>4, <2>2 DEF CallInner, Places
  <2>4. elapsed' \in 0 .. MaxElapsed /\ (config.maxDuration # 0 => elapsed' >= elapsed)
    BY <2>1, LaterOK
  <2>5. outcome' \in [Runners -> Answers] /\ attempts' \in [Runners -> Nat]
    BY <1>1, <2>1, <2>2 DEF RetryTypes
  <2>6. RetryTypes'
    BY <2>2, <2>3, <2>4, <2>5 DEF RetryTypes
  <2> QED  BY <2>2, <2>3, <2>4, <2>6 DEF Kept
<1>5. ASSUME NEW r \in Runners, CheckCanceled(r) \/ CheckExceeded(r) \/ Succeeds(r) PROVE RetryTypes' /\ Kept
  <2>1. "checking" \in Places /\ "handling" \in Places
    BY DEF Places
  <2> QED  BY <1>1, <1>5, <2>1, EndTypes, GoesOnTypes DEF CheckCanceled, CheckExceeded, Succeeds
<1>6. ASSUME NEW r \in Runners, Fails(r) PROVE RetryTypes' /\ Kept
  <2>1. /\ calls' = calls /\ config' = config /\ failedAttempts' = failedAttempts
        /\ retriesExceeded' = retriesExceeded /\ lastDelay' = lastDelay /\ retries' = retries
        /\ elapsed' = elapsed /\ canceled' = canceled /\ outcome' = outcome /\ wait' = wait
        /\ seen' = [seen EXCEPT ![r] = failedAttempts]
        /\ attempts' = attempts
    BY <1>6 DEF Fails, executor
  <2>2. Runners' = Runners /\ (pc \in [Runners -> Places])'
    BY <1>3, <1>6, <2>1 DEF Fails, Places
  <2>3. seen' \in [Runners -> Nat]
    BY <2>1 DEF RetryTypes
  <2>4. RetryTypes'
    BY <2>1, <2>2, <2>3 DEF RetryTypes
  <2> QED  BY <1>2, <2>1, <2>2, <2>4 DEF Kept
<1>7. ASSUME NEW r \in Runners, Increment(r) \/ SetExceeded(r) PROVE RetryTypes' /\ Kept
  <2>1. /\ calls' = calls /\ config' = config /\ lastDelay' = lastDelay /\ retries' = retries
        /\ elapsed' = elapsed /\ canceled' = canceled /\ outcome' = outcome /\ wait' = wait
        /\ attempts' = attempts
    BY <1>7 DEF Increment, SetExceeded
  <2>2. Runners' = Runners /\ (pc \in [Runners -> Places])'
    <3>1. "stored" \in Places /\ "counted" \in Places /\ (Goes(r, "stored") \/ Goes(r, "counted"))
      BY <1>7 DEF Increment, SetExceeded, Places
    <3> QED  BY <1>3, <2>1, <3>1
  <2>3. seen' \in [Runners -> Nat] /\ failedAttempts' \in Nat
    <3>1. ASSUME Increment(r) PROVE seen' \in [Runners -> Nat] /\ failedAttempts' \in Nat
      BY <3>1 DEF Increment, RetryTypes
    <3>2. ASSUME SetExceeded(r) PROVE seen' \in [Runners -> Nat] /\ failedAttempts' \in Nat
      BY <3>2 DEF SetExceeded, RetryTypes
    <3> QED  BY <1>7, <3>1, <3>2
  <2>4. retriesExceeded' \in BOOLEAN
    BY <1>7, Zenon DEF Increment, SetExceeded, RetryTypes
  <2>5. RetryTypes'
    BY <2>1, <2>2, <2>3, <2>4 DEF RetryTypes
  <2> QED  BY <1>2, <2>1, <2>2, <2>5 DEF Kept
<1>8. ASSUME NEW r \in Runners, Compare(r) \/ Decide(r) \/ ReturnResult(r) PROVE RetryTypes' /\ Kept
  <2>1. {"exceeds", "within", "ending", "retrying", "scheduling"} \subseteq Places
    BY DEF Places
  <2>2. ASSUME Compare(r) PROVE RetryTypes' /\ Kept
    BY <2>1, <2>2, GoesOnTypes DEF Compare
  <2>3. ASSUME Decide(r) PROVE RetryTypes' /\ Kept
    BY <2>1, <2>3, GoesOnTypes DEF Decide
  <2>4. ASSUME ReturnResult(r) PROVE RetryTypes' /\ Kept
    BY <1>1, <2>1, <2>4, EndTypes, GoesOnTypes DEF ReturnResult
  <2> QED  BY <1>8, <2>2, <2>3, <2>4
<1>9. ASSUME NEW r \in Runners, Schedule(r) PROVE RetryTypes' /\ Kept
  <2>1. CASE End(r, "ctx.Err")
    BY <1>1, <2>1, EndTypes
  <2>2. CASE ~End(r, "ctx.Err")
    <3>1. PICK t \in 0 .. 1 : elapsed' = Later(t)
      BY <1>9, <2>2 DEF Schedule
    <3>2. PICK base \in BaseDelays(outcome[r]) : \E d \in Jittered(base.delay) :
            /\ lastDelay' = base.last
            /\ wait' = [wait EXCEPT ![r] = adjustForMaxDuration(d, elapsed')]
      BY <1>9, <2>2 DEF Schedule
    <3>3. PICK d \in Jittered(base.delay) :
            lastDelay' = base.last /\ wait' = [wait EXCEPT ![r] = adjustForMaxDuration(d, elapsed')]
      BY <3>2
    <3>4. /\ calls' = calls /\ config' = config /\ failedAttempts' = failedAttempts
          /\ retriesExceeded' = retriesExceeded /\ retries' = retries
          /\ canceled' = canceled /\ outcome' = outcome /\ seen' = seen /\ attempts' = attempts
      BY <1>9, <2>2 DEF Schedule
    <3>5. Runners' = Runners /\ (pc \in [Runners -> Places])'
      BY <1>3, <1>9, <2>2, <3>4 DEF Schedule, Places
    <3>6. elapsed' \in 0 .. MaxElapsed /\ (config.maxDuration # 0 => elapsed' >= elapsed)
      BY <3>1, LaterOK
    <3>7. base.delay \in Int /\ base.last \in Nat
      BY BaseDelay
    <3>8. d \in Int
      BY <3>7, JitteredInt
    <3>9. adjustForMaxDuration(d, elapsed') \in Nat
      BY <1>2, <3>6, <3>8, ConfigNumbers DEF adjustForMaxDuration, AtLeast, AtMost
    <3>10. wait' \in [Runners -> Nat] /\ lastDelay' \in Nat
      BY <3>3, <3>7, <3>9 DEF RetryTypes
    <3>11. RetryTypes'
      BY <3>4, <3>5, <3>6, <3>10 DEF RetryTypes
    <3> QED  BY <3>4, <3>5, <3>6, <3>11 DEF Kept
  <2> QED  BY <2>1, <2>2
<1>10. ASSUME NEW r \in Runners, Retry(r) PROVE RetryTypes' /\ Kept
  <2>1. CASE End(r, "ctx.Err")
    BY <1>1, <2>1, EndTypes
  <2>2. CASE ~End(r, "ctx.Err")
    <3>1. /\ calls' = calls /\ config' = config /\ failedAttempts' = failedAttempts
          /\ retriesExceeded' = retriesExceeded /\ lastDelay' = lastDelay
          /\ canceled' = canceled /\ seen' = seen /\ attempts' = attempts
          /\ wait' = [wait EXCEPT ![r] = 0] /\ retries' = AtMost(retries + 1, AttemptsBound)
          /\ elapsed' = Later(wait[r])
      BY <1>10, <2>2 DEF Retry, executor
    <3>2. PICK o \in {"none", "budget.ErrExceeded"} : outcome' = [outcome EXCEPT ![r] = o]
      BY <1>10, <2>2 DEF Retry
    <3>3. Runners' = Runners /\ (pc \in [Runners -> Places])'
      BY <1>3, <1>10, <2>2, <3>1 DEF Retry, Places
    <3>4. wait[r] \in Nat
      BY DEF RetryTypes
    <3>5. elapsed' \in 0 .. MaxElapsed /\ (config.maxDuration # 0 => elapsed' >= elapsed)
      BY <3>1, <3>4, LaterOK
    <3>6. retries' \in Nat
      BY <1>2, <3>1 DEF AtMost, RetryTypes
    <3>7. wait' \in [Runners -> Nat] /\ outcome' \in [Runners -> Answers]
      BY <1>1, <3>1, <3>2 DEF RetryTypes
    <3>8. RetryTypes'
      BY <3>1, <3>3, <3>5, <3>6, <3>7 DEF RetryTypes
    <3> QED  BY <3>1, <3>3, <3>5, <3>8 DEF Kept
  <2> QED  BY <2>1, <2>2
<1>11. ASSUME Cancel PROVE RetryTypes' /\ Kept
  <2>1. /\ calls' = calls /\ config' = config /\ failedAttempts' = failedAttempts
        /\ retriesExceeded' = retriesExceeded /\ lastDelay' = lastDelay /\ retries' = retries
        /\ elapsed' = elapsed /\ canceled' = TRUE /\ seen' = seen /\ wait' = wait /\ attempts' = attempts
        /\ pc' = pc /\ outcome' = outcome
    BY <1>11 DEF Cancel, executor
  <2>2. Runners' = Runners
    BY <2>1 DEF Runners
  <2> QED  BY <1>2, <2>1, <2>2 DEF RetryTypes, Kept
<1>12. ASSUME Ended PROVE RetryTypes' /\ Kept
  <2>1. /\ calls' = calls /\ config' = config /\ failedAttempts' = failedAttempts
        /\ retriesExceeded' = retriesExceeded /\ lastDelay' = lastDelay /\ retries' = retries
        /\ elapsed' = elapsed /\ canceled' = canceled /\ seen' = seen /\ wait' = wait /\ attempts' = attempts
        /\ pc' = pc /\ outcome' = outcome
    BY <1>12 DEF Ended, retryVars
  <2>2. Runners' = Runners
    BY <2>1 DEF Runners
  <2> QED  BY <1>2, <2>1, <2>2 DEF RetryTypes, Kept
<1> QED  BY <1>4, <1>5, <1>6, <1>7, <1>8, <1>9, <1>10, <1>11, <1>12 DEF RetryNext, RunnerStep

-----------------------------------------------------------------------------
(***************************************************************************)
(* Counting the attempts.                                                  *)
(***************************************************************************)
\* Triangular numbers grow.
LEMMA Triangle ==
  ASSUME NEW x \in Nat, NEW y \in Nat, x <= y
  PROVE  x * (x + 1) \in Nat /\ x * (x + 1) <= y * (y + 1) /\ y * (y + 1) \in Nat
<1>1. PICK m \in Nat : y = x + m
  <2>1. y - x \in Nat /\ y = x + (y - x)
    OBVIOUS
  <2> QED  BY <2>1
<1>2. (x + m) * ((x + m) + 1) = x * (x + 1) + (x * m + m * ((x + m) + 1))
  OBVIOUS
<1>3. x * m \in Nat /\ m * ((x + m) + 1) \in Nat /\ x * (x + 1) \in Nat
  OBVIOUS
<1> QED  BY <1>1, <1>2, <1>3

\* Steps of r that leave the counter and retriesExceeded alone.
Leads(r, w, v) ==
  \/ w = "call" /\ v = "returned" /\ attempts'[r] = attempts[r] + 1
  \/ /\ attempts'[r] = attempts[r]
     /\ \/ w = "returned" /\ v = "checking"
        \/ w = "checking" /\ v = "handling"
        \/ w = "stored" /\ v = "exceeds"
        \/ w = "stored" /\ v = "within" /\ (config.maxRetries = -1 \/ failedAttempts <= config.maxRetries)
        \/ w = "counted" /\ v = "ending"
        \/ w = "counted" /\ v = "retrying" /\ ~retriesExceeded
        \/ w = "retrying" /\ v = "scheduling"
        \/ w = "scheduling" /\ v = "waiting"
        \/ w = "waiting" /\ v = "call"
        \/ /\ w \in {"returned", "checking", "handling", "ending", "retrying", "scheduling", "waiting"}
           /\ v = "done"

\* The other runners stay as they are.
OnlyFor(r) ==
  \A q \in Runners : q # r => pc'[q] = pc[q] /\ seen'[q] = seen[q] /\ attempts'[q] = attempts[q]

Moves(r) ==
  /\ failedAttempts' = failedAttempts /\ retriesExceeded' = retriesExceeded /\ seen'[r] = seen[r]
  /\ OnlyFor(r) /\ Leads(r, pc[r], pc'[r])

Reads(r) ==
  /\ failedAttempts' = failedAttempts /\ retriesExceeded' = retriesExceeded /\ attempts'[r] = attempts[r]
  /\ OnlyFor(r) /\ pc[r] = "handling" /\ pc'[r] = "failed" /\ seen'[r] = failedAttempts

Writes(r) ==
  /\ failedAttempts' = seen[r] + 1 /\ retriesExceeded' = retriesExceeded /\ attempts'[r] = attempts[r]
  /\ OnlyFor(r) /\ pc[r] = "failed" /\ pc'[r] = "stored"

Flags(r) ==
  /\ failedAttempts' = failedAttempts /\ seen'[r] = seen[r] /\ attempts'[r] = attempts[r]
  /\ OnlyFor(r) /\ pc'[r] = "counted"
  /\ \/ pc[r] = "exceeds" /\ retriesExceeded' = TRUE
     \/ pc[r] = "within" /\ retriesExceeded' = FALSE

Rests ==
  /\ failedAttempts' = failedAttempts /\ retriesExceeded' = retriesExceeded
  /\ pc' = pc /\ seen' = seen /\ attempts' = attempts

\* What a step does to the counters.
LEMMA CountingCases ==
  ASSUME RetryTypes, [RetryNext]_retryVars
  PROVE  Rests \/ \E r \in Runners : Moves(r) \/ Reads(r) \/ Writes(r) \/ Flags(r)
<1>1. ASSUME NEW r \in Runners, NEW where, pc' = [pc EXCEPT ![r] = where], seen' = seen,
             attempts' = attempts \/ attempts' = [attempts EXCEPT ![r] = @ + 1],
             failedAttempts' = failedAttempts, retriesExceeded' = retriesExceeded,
             Leads(r, pc[r], where)
      PROVE  Moves(r)
  <2>1. pc'[r] = where /\ OnlyFor(r)
    BY <1>1 DEF RetryTypes, OnlyFor
  <2> QED  BY <1>1, <2>1 DEF Moves
<1>2. ASSUME NEW r \in Runners, NEW answer, End(r, answer),
             pc[r] \in {"returned", "checking", "handling", "ending", "retrying", "scheduling", "waiting"}
      PROVE  Moves(r)
  <2>1. /\ pc' = [pc EXCEPT ![r] = "done"] /\ seen' = seen /\ attempts' = attempts
        /\ failedAttempts' = failedAttempts /\ retriesExceeded' = retriesExceeded
    BY <1>2 DEF End, executor
  <2>2. Leads(r, pc[r], "done")
    BY <1>2, <2>1 DEF Leads
  <2> QED  BY <1>1, <2>1, <2>2
<1>3. ASSUME NEW r \in Runners, NEW where, GoesOn(r, where), attempts' = attempts => Leads(r, pc[r], where)
      PROVE  Moves(r)
  <2>1. /\ pc' = [pc EXCEPT ![r] = where] /\ seen' = seen /\ attempts' = attempts
        /\ failedAttempts' = failedAttempts /\ retriesExceeded' = retriesExceeded
    BY <1>3 DEF GoesOn, Goes, executor
  <2> QED  BY <1>1, <1>3, <2>1
<1>4. ASSUME NEW r \in Runners, CallInner(r) PROVE Moves(r)
  <2>1. /\ pc' = [pc EXCEPT ![r] = "returned"] /\ seen' = seen /\ attempts' = [attempts EXCEPT ![r] = @ + 1]
        /\ failedAttempts' = failedAttempts /\ retriesExceeded' = retriesExceeded /\ pc[r] = "call"
    BY <1>4 DEF CallInner, Goes, executor
  <2>2. attempts'[r] = attempts[r] + 1
    BY <2>1 DEF RetryTypes
  <2> QED  BY <1>1, <2>1, <2>2 DEF Leads
<1>5. ASSUME NEW r \in Runners, CheckCanceled(r) PROVE Moves(r)
  BY <1>2, <1>3, <1>5 DEF CheckCanceled, Leads
<1>6. ASSUME NEW r \in Runners, CheckExceeded(r) PROVE Moves(r)
  BY <1>2, <1>3, <1>6 DEF CheckExceeded, Leads
<1>7. ASSUME NEW r \in Runners, Succeeds(r) PROVE Moves(r)
  BY <1>2, <1>7 DEF Succeeds
<1>8. ASSUME NEW r \in Runners, Compare(r) PROVE Moves(r)
  <2>1. failedAttempts \in Nat /\ config.maxRetries \in Nat \cup {-1}
    BY ConfigNumbers DEF RetryTypes
  <2>2. CASE RetriesUsedUp \/ DurationUsedUp
    BY <1>3, <1>8, <2>2 DEF Compare, Leads
  <2>3. CASE ~(RetriesUsedUp \/ DurationUsedUp)
    <3>1. config.maxRetries = -1 \/ failedAttempts <= config.maxRetries
      BY <2>1, <2>3 DEF RetriesUsedUp
    <3> QED  BY <1>3, <1>8, <2>3, <3>1 DEF Compare, Leads
  <2> QED  BY <2>2, <2>3
<1>9. ASSUME NEW r \in Runners, Decide(r) PROVE Moves(r)
  <2>1. CASE IsAbortable(outcome[r]) \/ retriesExceeded \/ ~allowsRetries
    BY <1>3, <1>9, <2>1 DEF Decide, Leads
  <2>2. CASE ~(IsAbortable(outcome[r]) \/ retriesExceeded \/ ~allowsRetries)
    BY <1>3, <1>9, <2>2 DEF Decide, Leads
  <2> QED  BY <2>1, <2>2
<1>10. ASSUME NEW r \in Runners, ReturnResult(r) PROVE Moves(r)
  <2>1. CASE GoesOn(r, "scheduling") /\ pc[r] = "retrying"
    BY <1>3, <2>1 DEF Leads
  <2>2. CASE ~(GoesOn(r, "scheduling") /\ pc[r] = "retrying")
    BY <1>2, <1>10, <2>2 DEF ReturnResult
  <2> QED  BY <2>1, <2>2
<1>11. ASSUME NEW r \in Runners, Schedule(r) PROVE Moves(r)
  <2>1. CASE End(r, "ctx.Err")
    BY <1>2, <1>11, <2>1 DEF Schedule
  <2>2. CASE ~End(r, "ctx.Err")
    <3>1. /\ pc' = [pc EXCEPT ![r] = "waiting"] /\ seen' = seen /\ attempts' = attempts
          /\ failedAttempts' = failedAttempts /\ retriesExceeded' = retriesExceeded /\ pc[r] = "scheduling"
      BY <1>11, <2>2 DEF Schedule, Goes
    <3> QED  BY <1>1, <3>1 DEF Leads
  <2> QED  BY <2>1, <2>2
<1>12. ASSUME NEW r \in Runners, Retry(r) PROVE Moves(r)
  <2>1. CASE End(r, "ctx.Err")
    BY <1>2, <1>12, <2>1 DEF Retry
  <2>2. CASE ~End(r, "ctx.Err")
    <3>1. /\ pc' = [pc EXCEPT ![r] = "call"] \/ pc' = [pc EXCEPT ![r] = "done"]
          /\ seen' = seen /\ attempts' = attempts /\ pc[r] = "waiting"
          /\ failedAttempts' = failedAttempts /\ retriesExceeded' = retriesExceeded
      BY <1>12, <2>2 DEF Retry, Goes, executor
    <3>2. Leads(r, pc[r], "call") /\ Leads(r, pc[r], "done")
      BY <3>1 DEF Leads
    <3> QED  BY <1>1, <3>1, <3>2
  <2> QED  BY <2>1, <2>2
<1>13. ASSUME NEW r \in Runners, Fails(r) PROVE Reads(r)
  BY <1>13 DEF Fails, Goes, executor, Reads, OnlyFor, RetryTypes
<1>14. ASSUME NEW r \in Runners, Increment(r) PROVE Writes(r)
  BY <1>14 DEF Increment, Goes, Writes, OnlyFor, RetryTypes
<1>15. ASSUME NEW r \in Runners, SetExceeded(r) PROVE Flags(r)
  <2>1. /\ failedAttempts' = failedAttempts /\ seen' = seen /\ attempts' = attempts
        /\ pc' = [pc EXCEPT ![r] = "counted"] /\ pc[r] \in {"exceeds", "within"}
    BY <1>15 DEF SetExceeded, Goes
  <2>2. pc'[r] = "counted" /\ OnlyFor(r)
    BY <2>1 DEF OnlyFor, RetryTypes
  <2>3. retriesExceeded' = (pc[r] = "exceeds")
    BY <1>15 DEF SetExceeded
  <2>4. \/ pc[r] = "exceeds" /\ retriesExceeded' = TRUE
        \/ pc[r] = "within" /\ retriesExceeded' = FALSE
    <3>1. CASE pc[r] = "exceeds"
      BY <2>3, <3>1, Zenon
    <3>2. CASE pc[r] = "within"
      <4>1. (pc[r] = "exceeds") = FALSE
        BY <3>2
      <4> QED  BY <2>3, <3>2, <4>1, Zenon
    <3> QED  BY <2>1, <3>1, <3>2
  <2> QED  BY <2>1, <2>2, <2>4, Zenon DEF Flags
<1>16. ASSUME Cancel \/ Ended \/ UNCHANGED retryVars PROVE Rests
  BY <1>16 DEF Cancel, Ended, retryVars, executor, Rests
<1> QED  BY <1>4, <1>5, <1>6, <1>7, <1>8, <1>9, <1>10, <1>11, <1>12, <1>13, <1>14, <1>15, <1>16
         DEF RetryNext, RunnerStep

\* What is left is a number, for every place.
LEMMA ComingNumbers ==
  ASSUME NEW w, NEW s \in Nat, NEW f \in Nat, NEW m \in Nat
  PROVE  ComingAt(w, s, f, m) \in Nat /\ DueAt(w) \in Nat
BY DEF ComingAt, DueAt, Left

\* The numbers that the invariants are about.
LEMMA DueNumbers ==
  ASSUME RetryTypes, config.maxRetries # -1, NEW q \in Runners
  PROVE  /\ config.maxRetries \in Nat /\ failedAttempts \in Nat /\ seen[q] \in Nat /\ attempts[q] \in Nat
         /\ Due(q) \in Nat /\ attempts[q] <= Due(q) /\ Stale(q) \in Nat /\ Ahead(q) \in Nat
<1>1. config.maxRetries \in Nat /\ failedAttempts \in Nat /\ seen[q] \in Nat /\ attempts[q] \in Nat
  BY ConfigNumbers DEF RetryTypes
<1>2. /\ DueAt(Place(q)) \in Nat
      /\ ComingAt(Place(q), seen[q], failedAttempts, config.maxRetries) \in Nat
  BY <1>1, ComingNumbers
<1> QED  BY <1>1, <1>2 DEF Due, Stale, Ahead

\* The numbers after a step.
LEMMA DueLater ==
  ASSUME RetryTypes, RetryTypes', Kept, config.maxRetries # -1, NEW q \in Runners
  PROVE  /\ failedAttempts' \in Nat /\ seen'[q] \in Nat /\ Due(q)' \in Nat
         /\ Stale(q)' \in Nat /\ Ahead(q)' \in Nat
<1>1. /\ config'.maxRetries \in Nat /\ failedAttempts' \in Nat /\ seen'[q] \in Nat /\ attempts'[q] \in Nat
  BY ConfigNumbers DEF RetryTypes, Kept
<1>2. PICK w : w = Place(q)'
  OBVIOUS
<1>3. DueAt(w) \in Nat /\ ComingAt(w, seen'[q], failedAttempts', config'.maxRetries) \in Nat
  BY <1>1, ComingNumbers
<1>4. Due(q)' = attempts'[q] + DueAt(w) + ComingAt(w, seen'[q], failedAttempts', config'.maxRetries)
  BY <1>2 DEF Due
<1>5. Due(q)' \in Nat
  BY <1>1, <1>3, <1>4
<1>6. Stale(q)' \in Nat
  BY <1>1 DEF Stale
<1>7. Ahead(q)' \in Nat
  <2>1. seen'[q] + 1 \in Nat /\ failedAttempts' + 1 \in Nat
    <3>1. \A i \in Nat : i + 1 \in Nat
      OBVIOUS
    <3> QED  BY <1>1, <3>1, Zenon
  <2>2. Ahead(q)' = seen'[q] + 1 \/ Ahead(q)' = failedAttempts' + 1
    BY Zenon DEF Ahead
  <2> QED  BY <2>1, <2>2, Zenon
<1> QED  BY <1>1, <1>5, <1>6, <1>7

\* A runner's own steps never raise what it has made and may still make.
LEMMA OwnStep ==
  ASSUME RetryTypes, RetryTypes', Kept, config.maxRetries # -1, NEW r \in Runners,
         Moves(r) \/ Reads(r) \/ Writes(r) \/ Flags(r)
  PROVE  Due(r)' <= Due(r)
<1>1. PICK m \in Nat, f \in Nat, s \in Nat, t \in Nat :
        m = config.maxRetries /\ f = failedAttempts /\ s = seen[r] /\ t = attempts[r]
  BY DueNumbers
<1>2. PICK g \in Nat, u \in Nat : g = failedAttempts' /\ u = seen'[r]
  BY DEF RetryTypes, Kept
<1>3. PICK w, v : w = Place(r) /\ v = Place(r)'
  OBVIOUS
<1>4. /\ Due(r) = t + DueAt(w) + ComingAt(w, s, f, m)
      /\ Due(r)' = attempts'[r] + DueAt(v) + ComingAt(v, u, g, m)
  BY <1>1, <1>2, <1>3 DEF Due, Kept
<1>5. CASE Moves(r)
  <2>1. g = f /\ u = s /\ Leads(r, pc[r], pc'[r]) /\ retriesExceeded' = retriesExceeded
    BY <1>1, <1>2, <1>5 DEF Moves
  <2>2. \/ w = "call" /\ v = "returned" /\ attempts'[r] = t + 1
        \/ /\ attempts'[r] = t
           /\ \/ w = "returned" /\ v = "checking"
              \/ w = "checking" /\ v = "handling"
              \/ w = "stored" /\ v = "exceeds"
              \/ w = "stored" /\ v = "within" /\ f <= m
              \/ w \in {"exceeds", "within"} /\ v = "ending"
              \/ w = "within" /\ v = "retrying"
              \/ w = "retrying" /\ v = "scheduling"
              \/ w = "scheduling" /\ v = "waiting"
              \/ w = "waiting" /\ v = "call"
              \/ /\ w \in {"returned", "checking", "handling", "ending", "retrying", "scheduling", "waiting"}
                 /\ v = "done"
    BY <1>1, <1>3, <2>1 DEF Leads, Place
  <2>3. attempts'[r] + DueAt(v) + ComingAt(v, s, f, m) <= t + DueAt(w) + ComingAt(w, s, f, m)
    BY <2>2 DEF DueAt, ComingAt, Left
  <2> QED  BY <1>4, <2>1, <2>3
<1>6. CASE Reads(r)
  <2>1. g = f /\ u = f /\ w = "handling" /\ v = "failed" /\ attempts'[r] = t
    BY <1>1, <1>2, <1>3, <1>6 DEF Reads, Place
  <2>2. ComingAt(v, u, g, m) = ComingAt(w, s, f, m) /\ DueAt(v) = 0 /\ DueAt(w) = 0
    BY <2>1 DEF DueAt, ComingAt
  <2>3. ComingAt(w, s, f, m) \in Nat
    BY ComingNumbers
  <2> QED  BY <1>4, <2>1, <2>2, <2>3
<1>7. CASE Writes(r)
  <2>1. g = s + 1 /\ w = "failed" /\ v = "stored" /\ attempts'[r] = t
    BY <1>1, <1>2, <1>3, <1>7 DEF Writes, Place
  <2>2. (m + 1) - (s + 1) = m - s
    OBVIOUS
  <2>3. ComingAt(v, u, g, m) = ComingAt(w, s, f, m) /\ DueAt(v) = 0 /\ DueAt(w) = 0
    BY <2>1, <2>2 DEF DueAt, ComingAt
  <2>4. ComingAt(w, s, f, m) \in Nat
    BY ComingNumbers
  <2> QED  BY <1>4, <2>1, <2>3, <2>4
<1>8. CASE Flags(r)
  <2>1. g = f /\ u = s /\ attempts'[r] = t
    BY <1>1, <1>2, <1>8 DEF Flags
  <2>2. w = v
    BY <1>3, <1>8 DEF Flags, Place
  <2>3. ComingAt(w, s, f, m) \in Nat /\ DueAt(w) \in Nat
    BY ComingNumbers
  <2> QED  BY <1>4, <2>1, <2>2, <2>3
<1> QED  BY <1>5, <1>6, <1>7, <1>8

\* Every step keeps the bound of a runner that is alone.
LEMMA AloneStep ==
  ASSUME RetryTypes, RetryTypes', AloneOK, Kept, [RetryNext]_retryVars PROVE AloneOK'
<1> SUFFICES ASSUME config.maxRetries # -1, NEW q \in Runners, Runners = {q}
             PROVE  Due(q)' <= config.maxRetries + 1
  BY DEF AloneOK, Kept
<1>1. Due(q) <= config.maxRetries + 1 /\ Due(q) \in Nat /\ config.maxRetries \in Nat
  BY DueNumbers DEF AloneOK
<1>2. Due(q)' \in Nat
  BY DueLater
<1>3. CASE Rests
  <2>1. Due(q)' = Due(q)
    BY <1>3 DEF Rests, Due, Place, Kept
  <2> QED  BY <1>1, <2>1
<1>4. ASSUME NEW r \in Runners, Moves(r) \/ Reads(r) \/ Writes(r) \/ Flags(r)
      PROVE  Due(q)' <= config.maxRetries + 1
  <2>1. q = r
    OBVIOUS
  <2>2. Due(q)' <= Due(q)
    BY <1>4, <2>1, OwnStep
  <2> QED  BY <1>1, <1>2, <2>2
<1> QED  BY <1>3, <1>4, CountingCases

\* Once nobody can hide any more that the retries are used up, nobody can later on.
LEMMA ShownStep ==
  ASSUME RetryTypes, Kept, config.maxRetries # -1, Shown, [RetryNext]_retryVars
  PROVE  Shown'
<1>1. PICK m \in Nat, f \in Nat : m = config.maxRetries /\ f = failedAttempts
  BY ConfigNumbers DEF RetryTypes
<1>2. f > m /\ \A q \in Runners : pc[q] # "within" /\ (pc[q] = "failed" => seen[q] >= m) /\ seen[q] \in Nat
  BY <1>1 DEF Shown, RetryTypes
<1> SUFFICES failedAttempts' > m /\ \A q \in Runners : pc'[q] # "within" /\ (pc'[q] = "failed" => seen'[q] >= m)
  BY <1>1 DEF Shown, Kept
<1>3. CASE Rests
  BY <1>1, <1>2, <1>3 DEF Rests
<1>4. ASSUME NEW r \in Runners, Moves(r) \/ Reads(r) \/ Writes(r) \/ Flags(r)
      PROVE  failedAttempts' > m /\ \A q \in Runners : pc'[q] # "within" /\ (pc'[q] = "failed" => seen'[q] >= m)
  <2>1. \A q \in Runners : q # r => pc'[q] = pc[q] /\ seen'[q] = seen[q]
    BY <1>4 DEF Moves, Reads, Writes, Flags, OnlyFor
  <2>2. failedAttempts' > m /\ pc'[r] # "within" /\ (pc'[r] = "failed" => seen'[r] >= m)
    <3>1. CASE Moves(r)
      BY <1>1, <1>2, <3>1 DEF Moves, Leads
    <3>2. CASE Reads(r)
      BY <1>1, <1>2, <3>2 DEF Reads
    <3>3. CASE Writes(r)
      BY <1>1, <1>2, <3>3 DEF Writes
    <3>4. CASE Flags(r)
      BY <1>1, <1>2, <3>4 DEF Flags
    <3> QED  BY <1>4, <3>1, <3>2, <3>3, <3>4
  <2> QED  BY <1>2, <2>1, <2>2
<1> QED  BY <1>3, <1>4, CountingCases

\* The rounds that remain never get longer.
LEMMA RoundsStep ==
  ASSUME RetryTypes, RetryTypes', Kept, config.maxRetries # -1, [RetryNext]_retryVars,
         NEW a \in Runners, NEW b \in Runners, a # b, Runners = {a, b}
  PROVE  Rounds(a, b) \in Nat /\ Rounds(a, b)' \in Nat /\ Rounds(a, b)' <= Rounds(a, b)
<1>1. PICK m \in Nat, x \in Nat, y \in Nat : m = config.maxRetries /\ x = Stale(b) /\ y = Ahead(a)
  BY DueNumbers
<1>2. PICK v \in Nat, z \in Nat : v = Stale(b)' /\ z = Ahead(a)'
  BY DueLater
<1>3. Rounds(a, b) = Left(m - AtMost(x, y)) /\ Rounds(a, b)' = Left(m - AtMost(v, z))
  BY <1>1, <1>2 DEF Rounds, Kept
<1>4. PICK f \in Nat, s \in Nat, u \in Nat : f = failedAttempts /\ s = seen[a] /\ u = seen[b]
  BY DueNumbers
<1>5. AtMost(x, y) <= AtMost(v, z)
  <2>1. CASE Rests
    <3>1. v = x /\ z = y
      BY <1>1, <1>2, <2>1 DEF Rests, Stale, Ahead
    <3> QED  BY <3>1 DEF AtMost
  <2>2. ASSUME NEW r \in Runners, Moves(r) \/ Reads(r) \/ Flags(r) PROVE AtMost(x, y) <= AtMost(v, z)
    <3>1. \A q \in Runners : q # r => pc'[q] = pc[q] /\ seen'[q] = seen[q]
      BY <2>2 DEF Moves, Reads, Flags, OnlyFor
    <3>2. /\ failedAttempts' = failedAttempts
          /\ IF pc'[r] = "failed" THEN seen'[r] = failedAttempts /\ pc[r] # "failed" ELSE pc[r] # "failed"
      BY <2>2 DEF Moves, Reads, Flags, Leads
    <3>3. v = x /\ z = y
      BY <1>1, <1>2, <3>1, <3>2 DEF Stale, Ahead
    <3> QED  BY <3>3 DEF AtMost
  <2>3. ASSUME NEW r \in Runners, Writes(r) PROVE AtMost(x, y) <= AtMost(v, z)
    <3>1. /\ \A q \in Runners : q # r => pc'[q] = pc[q] /\ seen'[q] = seen[q]
          /\ failedAttempts' = seen[r] + 1 /\ pc[r] = "failed" /\ pc'[r] = "stored"
      BY <2>3 DEF Writes, OnlyFor
    <3>2. CASE r = a
      <4>1. y = s + 1 /\ z = s + 2
        BY <1>1, <1>2, <1>4, <3>1, <3>2 DEF Ahead
      <4>2. v = x \/ v = s + 1
        BY <1>1, <1>2, <1>4, <3>1, <3>2 DEF Stale
      <4> QED  BY <4>1, <4>2 DEF AtMost
    <3>3. CASE r = b
      <4>1. x = u /\ v = u + 1
        BY <1>1, <1>2, <1>4, <3>1, <3>3 DEF Stale
      <4>2. z = y \/ z = u + 2
        BY <1>1, <1>2, <1>4, <3>1, <3>3 DEF Ahead
      <4> QED  BY <4>1, <4>2 DEF AtMost
    <3> QED  BY <3>2, <3>3
  <2> QED  BY <2>1, <2>2, <2>3, CountingCases
<1>6. AtMost(x, y) \in Nat /\ AtMost(v, z) \in Nat
  BY DEF AtMost
<1> QED  BY <1>3, <1>5, <1>6 DEF Left

\* The other runner may raise what a may still make in two ways: by setting retriesExceeded back,
\* which it can no longer do afterwards, or by setting the counter back, to the start of a round.
LEMMA OtherStep ==
  ASSUME RetryTypes, RetryTypes', Kept, config.maxRetries # -1,
         NEW a \in Runners, NEW b \in Runners, a # b, Runners = {a, b},
         Moves(b) \/ Reads(b) \/ Writes(b) \/ Flags(b)
  PROVE  \/ Due(a)' <= Due(a)
         \/ Due(a)' <= Due(a) + 1 /\ ~Shown /\ Shown'
         \/ /\ Due(a)' <= Due(a) + Left(config.maxRetries - seen[b])
            /\ Rounds(a, b) >= Left(config.maxRetries - seen[b])
            /\ Rounds(a, b)' = Left(config.maxRetries - (seen[b] + 1))
            /\ config.maxRetries - seen[b] > 0
<1>1. PICK m \in Nat, f \in Nat, s \in Nat, t \in Nat, u \in Nat :
        m = config.maxRetries /\ f = failedAttempts /\ s = seen[a] /\ t = attempts[a] /\ u = seen[b]
  BY DueNumbers
<1>2. PICK g \in Nat : g = failedAttempts'
  BY DueLater
<1>3. PICK w, v : w = Place(a) /\ v = Place(a)'
  OBVIOUS
<1>4. seen'[a] = s /\ attempts'[a] = t /\ pc'[a] = pc[a]
  BY <1>1 DEF Moves, Reads, Writes, Flags, OnlyFor
<1>5. /\ Due(a) = t + DueAt(w) + ComingAt(w, s, f, m)
      /\ Due(a)' = t + DueAt(v) + ComingAt(v, s, g, m)
  BY <1>1, <1>2, <1>3, <1>4 DEF Due, Kept
<1>6. CASE Moves(b) \/ Reads(b)
  <2>1. g = f /\ retriesExceeded' = retriesExceeded
    BY <1>1, <1>2, <1>6 DEF Moves, Reads
  <2>2. v = w
    BY <1>3, <1>4, <2>1 DEF Place
  <2>3. Due(a)' = Due(a) /\ Due(a) \in Nat
    BY <1>5, <2>1, <2>2, DueNumbers
  <2> QED  BY <2>3
<1>7. CASE Flags(b)
  <2>1. g = f
    BY <1>1, <1>2, <1>7 DEF Flags
  <2>2. CASE pc[a] # "counted"
    <3>1. v = w
      BY <1>3, <1>4, <2>2 DEF Place
    <3>2. Due(a)' = Due(a) /\ Due(a) \in Nat
      BY <1>5, <2>1, <3>1, DueNumbers
    <3> QED  BY <3>2
  <2>3. CASE pc[a] = "counted" /\ pc[b] = "exceeds"
    <3>1. v = "exceeds" /\ w \in {"exceeds", "within"}
      BY <1>3, <1>4, <1>7, <2>3 DEF Place, Flags
    <3>2. DueAt(v) + ComingAt(v, s, f, m) <= DueAt(w) + ComingAt(w, s, f, m)
      BY <3>1 DEF DueAt, ComingAt, Left
    <3>3. DueAt(v) \in Nat /\ ComingAt(v, s, f, m) \in Nat /\ DueAt(w) \in Nat /\ ComingAt(w, s, f, m) \in Nat
      BY ComingNumbers
    <3> QED  BY <1>5, <2>1, <3>2, <3>3
  <2>4. CASE pc[a] = "counted" /\ pc[b] = "within"
    <3>1. v = "within" /\ w \in {"exceeds", "within"}
      BY <1>3, <1>4, <1>7, <2>4 DEF Place, Flags
    <3>2. /\ DueAt(v) + ComingAt(v, s, f, m) <= DueAt(w) + ComingAt(w, s, f, m) + 1
          /\ f <= m => DueAt(v) + ComingAt(v, s, f, m) <= DueAt(w) + ComingAt(w, s, f, m)
      BY <3>1 DEF DueAt, ComingAt, Left
    <3>3. DueAt(v) \in Nat /\ ComingAt(v, s, f, m) \in Nat /\ DueAt(w) \in Nat /\ ComingAt(w, s, f, m) \in Nat
      BY ComingNumbers
    <3>4. Due(a)' <= Due(a) + 1 /\ (f <= m => Due(a)' <= Due(a))
      BY <1>5, <2>1, <3>2, <3>3
    <3>5. ~Shown
      BY <2>4 DEF Shown
    <3>6. f > m => Shown'
      <4>1. pc'[a] = "counted" /\ pc'[b] = "counted"
        BY <1>4, <1>7, <2>4 DEF Flags
      <4> QED  BY <1>1, <1>2, <2>1, <4>1 DEF Shown, Kept
    <3> QED  BY <3>4, <3>5, <3>6
  <2> QED  BY <1>7, <2>2, <2>3, <2>4 DEF Flags
<1>8. CASE Writes(b)
  <2>1. /\ g = u + 1 /\ retriesExceeded' = retriesExceeded /\ pc[b] = "failed" /\ pc'[b] = "stored"
    BY <1>1, <1>2, <1>8 DEF Writes
  <2>2. v = w
    BY <1>3, <1>4, <2>1 DEF Place
  <2>3. DueAt(w) \in Nat /\ ComingAt(w, s, f, m) \in Nat /\ ComingAt(w, s, g, m) \in Nat
    BY ComingNumbers
  <2>4. CASE pc[a] = "failed"
    <3>1. w = "failed"
      BY <1>3, <2>4 DEF Place
    <3>2. ComingAt(w, s, g, m) = ComingAt(w, s, f, m)
      BY <3>1 DEF ComingAt
    <3> QED  BY <1>5, <2>2, <2>3, <3>2
  <2>5. CASE pc[a] # "failed" /\ m <= u
    <3>1. ComingAt(w, s, g, m) <= ComingAt(w, s, f, m)
      <4>1. w # "failed"
        BY <1>3, <2>5 DEF Place
      <4> QED  BY <2>1, <2>5, <4>1 DEF ComingAt, Left
    <3> QED  BY <1>5, <2>2, <2>3, <3>1
  <2>6. CASE pc[a] # "failed" /\ m > u
    <3>1. ComingAt(w, s, g, m) <= ComingAt(w, s, f, m) + Left(m - u)
      <4>1. w # "failed"
        BY <1>3, <2>6 DEF Place
      <4> QED  BY <2>1, <2>6, <4>1 DEF ComingAt, Left
    <3>2. Left(m - u) \in Nat
      BY DEF Left
    <3>3. Due(a)' <= Due(a) + Left(m - u)
      BY <1>5, <2>2, <2>3, <3>1, <3>2
    <3>4. Stale(b) = u /\ Ahead(a) = f + 1 /\ Stale(b)' = u + 1 /\ Ahead(a)' = u + 2
      BY <1>1, <1>2, <1>4, <2>1, <2>6 DEF Stale, Ahead
    <3>5. Rounds(a, b) = Left(m - AtMost(u, f + 1)) /\ Rounds(a, b)' = Left(m - AtMost(u + 1, u + 2))
      BY <1>1, <3>4 DEF Rounds, Kept
    <3>6. Rounds(a, b) >= Left(m - u) /\ Rounds(a, b)' = Left(m - (u + 1))
      BY <3>5 DEF Left, AtMost
    <3> QED  BY <1>1, <2>6, <3>3, <3>6
  <2> QED  BY <2>4, <2>5, <2>6
<1> QED  BY <1>6, <1>7, <1>8

\* Every step keeps the bound of two runners.
LEMMA PairStep ==
  ASSUME RetryTypes, RetryTypes', PairOK, Kept, [RetryNext]_retryVars PROVE PairOK'
<1> SUFFICES ASSUME config.maxRetries # -1, NEW a \in Runners, NEW b \in Runners, a # b, Runners = {a, b}
             PROVE  2 * Due(a)' + Rounds(a, b)' * (Rounds(a, b)' + 1) + 2 * Hidden'
                      <= (config.maxRetries + 1) * (config.maxRetries + 2) + 2
  BY DEF PairOK, Kept
<1>1. PICK d \in Nat, e \in Nat, k \in Nat, l \in Nat, h \in Nat, i \in Nat, m \in Nat :
        /\ d = Due(a) /\ e = Due(a)' /\ k = Rounds(a, b) /\ l = Rounds(a, b)'
        /\ h = Hidden /\ i = Hidden' /\ m = config.maxRetries
  BY DueNumbers, DueLater, RoundsStep DEF Hidden
<1>2. l <= k /\ i <= h
  <2>1. i <= h
    BY <1>1, ShownStep DEF Hidden
  <2> QED  BY <1>1, <2>1, RoundsStep
<1>3. PICK c \in Nat : c = (m + 1) * (m + 2) + 2
  OBVIOUS
<1>4. 2 * d + k * (k + 1) + 2 * h <= c
  BY <1>1, <1>3 DEF PairOK
<1> SUFFICES 2 * e + l * (l + 1) + 2 * i <= c
  BY <1>1, <1>3
<1>5. PICK x \in Nat, y \in Nat : x = l * (l + 1) /\ y = k * (k + 1) /\ x <= y
  BY <1>2, Triangle
<1>6. CASE e <= d
  BY <1>2, <1>4, <1>5, <1>6
<1>7. CASE e <= d + 1 /\ ~Shown /\ Shown'
  <2>1. h = 1 /\ i = 0
    BY <1>1, <1>7 DEF Hidden
  <2> QED  BY <1>2, <1>4, <1>5, <1>7, <2>1
<1>8. ASSUME NEW n \in Nat, e <= d + n, k >= n, l = n - 1, n > 0 PROVE 2 * e + l * (l + 1) + 2 * i <= c
  <2>1. n * (n + 1) \in Nat /\ n * (n + 1) <= y
    BY <1>5, <1>8, Triangle
  <2>2. 2 * n + (n - 1) * ((n - 1) + 1) = n * (n + 1)
    OBVIOUS
  <2>3. 2 * n + x = n * (n + 1)
    BY <1>5, <1>8, <2>2
  <2> QED  BY <1>2, <1>4, <1>5, <1>8, <2>1, <2>3
<1>9. CASE Rests
  <2>1. e = d
    BY <1>1, <1>9 DEF Rests, Due, Place, Kept
  <2> QED  BY <1>6, <2>1
<1>10. ASSUME NEW r \in Runners, Moves(r) \/ Reads(r) \/ Writes(r) \/ Flags(r)
       PROVE  2 * e + l * (l + 1) + 2 * i <= c
  <2>1. CASE r = a
    BY <1>1, <1>6, <1>10, <2>1, OwnStep
  <2>2. CASE r = b
    <3>1. CASE /\ Due(a)' <= Due(a) + Left(config.maxRetries - seen[b])
               /\ Rounds(a, b) >= Left(config.maxRetries - seen[b])
               /\ Rounds(a, b)' = Left(config.maxRetries - (seen[b] + 1))
               /\ config.maxRetries - seen[b] > 0
      <4>1. PICK s \in Nat : s = seen[b]
        BY DueNumbers
      <4>2. e <= d + Left(m - s) /\ k >= Left(m - s) /\ l = Left(m - (s + 1)) /\ m - s > 0
        BY <1>1, <3>1, <4>1
      <4>3. m - s \in Nat /\ Left(m - s) = m - s /\ Left(m - (s + 1)) = (m - s) - 1
        BY <4>2 DEF Left
      <4> QED  BY <1>8, <4>2, <4>3
    <3> QED  BY <1>1, <1>6, <1>7, <1>10, <2>2, <3>1, OtherStep
  <2> QED  BY <2>1, <2>2
<1> QED  BY <1>9, <1>10, CountingCases

-----------------------------------------------------------------------------
(***************************************************************************)
(* The invariant.                                                          *)
(***************************************************************************)
LEMMA LastDelayStep ==
  ASSUME RetryTypes, LastDelayOK, Kept, [RetryNext]_retryVars PROVE LastDelayOK'
<1>1. FixedDelays' = FixedDelays /\ config' = config
  BY DEF FixedDelays, Kept
<1>2. CASE lastDelay' = lastDelay
  BY <1>1, <1>2 DEF LastDelayOK
<1>3. ASSUME NEW r \in Runners, Schedule(r), ~End(r, "ctx.Err") PROVE LastDelayOK'
  <2>1. PICK base \in BaseDelays(outcome[r]) : lastDelay' = base.last
    BY <1>3 DEF Schedule
  <2>2. base.last # 0 => config.delay # 0 /\ base.last \in FixedDelays
    BY BaseDelay
  <2> QED  BY <1>1, <2>1, <2>2 DEF LastDelayOK
<1>4. ASSUME NEW r \in Runners, NEW answer, End(r, answer) PROVE lastDelay' = lastDelay
  BY <1>4 DEF End, executor
<1>5. ASSUME NEW r \in Runners, NEW where, GoesOn(r, where) PROVE lastDelay' = lastDelay
  BY <1>5 DEF GoesOn, executor
<1>6. ASSUME NEW r \in Runners, RunnerStep(r), ~Schedule(r) PROVE lastDelay' = lastDelay
  <2>1. CASE CheckCanceled(r) \/ CheckExceeded(r) \/ Succeeds(r) \/ Compare(r) \/ Decide(r) \/ ReturnResult(r)
    BY <1>4, <1>5, <2>1 DEF CheckCanceled, CheckExceeded, Succeeds, Compare, Decide, ReturnResult
  <2>2. CASE CallInner(r) \/ Fails(r) \/ Increment(r) \/ SetExceeded(r)
    BY <2>2 DEF CallInner, Fails, Increment, SetExceeded, executor
  <2>3. CASE Retry(r)
    BY <1>4, <2>3 DEF Retry, executor
  <2> QED  BY <1>6, <2>1, <2>2, <2>3 DEF RunnerStep
<1>7. ASSUME Cancel \/ Ended \/ UNCHANGED retryVars PROVE lastDelay' = lastDelay
  BY <1>7 DEF Cancel, Ended, retryVars, executor
<1> QED  BY <1>2, <1>3, <1>4, <1>6, <1>7 DEF RetryNext

\* The executor of a policy that was just built.
LEMMA InvStart == RetryInit => RetryInv
<1> SUFFICES ASSUME RetryInit PROVE RetryInv
  OBVIOUS
<1>1. PICK use \in Uses :
        /\ calls = use.calls /\ config = Build(use.calls)
        /\ failedAttempts = 0 /\ retriesExceeded = FALSE /\ lastDelay = 0
        /\ retries = 0 /\ elapsed = 0 /\ canceled = FALSE
        /\ pc = [r \in use.runners |-> "call"] /\ outcome = [r \in use.runners |-> "none"]
        /\ seen = [r \in use.runners |-> 0] /\ wait = [r \in use.runners |-> 0]
        /\ attempts = [r \in use.runners |-> 0]
  BY DEF RetryInit
<1>2. Runners = use.runners /\ IsFiniteSet(use.runners)
  BY <1>1, UsesAssumption DEF Runners
<1>3. Buildable(calls)
  BY <1>1, UsesAssumption DEF Buildable
<1>4. Reflects(config, calls, Len(calls))
  BY <1>1, <1>3, ReflectsBuild
<1>5. RetryTypes
  <2>1. MaxElapsed \in Nat
    BY UsesAssumption
  <2>2. 0 \in 0 .. MaxElapsed
    BY <2>1
  <2> QED  BY <1>1, <1>2, <1>3, <1>4, <2>2 DEF RetryTypes, Answers, Places
<1>6. ASSUME NEW r \in Runners, NEW m \in Nat, m = config.maxRetries
      PROVE  Due(r) = m + 1 /\ Stale(r) = 0 /\ Ahead(r) = 1
  <2>1. attempts[r] = 0 /\ Place(r) = "call" /\ pc[r] = "call" /\ seen[r] = 0 /\ failedAttempts = 0
    BY <1>1, <1>2 DEF Place
  <2>2. Due(r) = 0 + DueAt("call") + ComingAt("call", 0, 0, m)
    BY <1>6, <2>1 DEF Due
  <2>3. DueAt("call") = 1 /\ ComingAt("call", 0, 0, m) = m
    BY DEF DueAt, ComingAt, Left
  <2> QED  BY <2>1, <2>2, <2>3 DEF Stale, Ahead
<1>7. config.maxRetries \in Nat \cup {-1}
  BY <1>5, ConfigNumbers
<1>8. PairOK
  <2> SUFFICES ASSUME config.maxRetries # -1, NEW a \in Runners, NEW b \in Runners
               PROVE  2 * Due(a) + Rounds(a, b) * (Rounds(a, b) + 1) + 2 * Hidden
                        <= (config.maxRetries + 1) * (config.maxRetries + 2) + 2
    BY DEF PairOK
  <2>1. PICK m \in Nat, h \in Nat : m = config.maxRetries /\ h = Hidden /\ h <= 1
    BY <1>7 DEF Hidden
  <2>2. Rounds(a, b) = m /\ Due(a) = m + 1
    BY <1>6, <2>1 DEF Rounds, AtMost, Left
  <2>3. 2 * (m + 1) + m * (m + 1) = (m + 1) * (m + 2)
    OBVIOUS
  <2>4. (m + 1) * (m + 2) \in Nat
    OBVIOUS
  <2>5. 2 * (m + 1) + m * (m + 1) + 2 * h <= (m + 1) * (m + 2) + 2
    BY <2>1, <2>3, <2>4
  <2> QED  BY <2>1, <2>2, <2>5
<1>9. AloneOK
  <2> SUFFICES ASSUME config.maxRetries # -1, NEW r \in Runners PROVE Due(r) <= config.maxRetries + 1
    BY DEF AloneOK
  <2>1. PICK m \in Nat : m = config.maxRetries
    BY <1>7
  <2>2. Due(r) = m + 1
    BY <1>6, <2>1
  <2> QED  BY <2>1, <2>2
<1>10. LastDelayOK
  BY <1>1 DEF LastDelayOK
<1> QED  BY <1>5, <1>8, <1>9, <1>10 DEF RetryInv

\* Every step, or none, keeps the types, the calls and the configuration.
LEMMA TypesKept == ASSUME RetryTypes, LastDelayOK, [RetryNext]_retryVars PROVE RetryTypes' /\ Kept
<1>1. CASE UNCHANGED retryVars
  <2>1. /\ calls' = calls /\ config' = config /\ failedAttempts' = failedAttempts
        /\ retriesExceeded' = retriesExceeded /\ lastDelay' = lastDelay /\ retries' = retries
        /\ elapsed' = elapsed /\ canceled' = canceled /\ seen' = seen /\ wait' = wait /\ attempts' = attempts
        /\ pc' = pc /\ outcome' = outcome
    BY <1>1 DEF retryVars
  <2>2. Runners' = Runners /\ elapsed \in Int
    BY <2>1, UsesAssumption DEF Runners, RetryTypes
  <2> QED  BY <2>1, <2>2 DEF RetryTypes, Kept
<1> QED  BY <1>1, TypesStep

\* The loop keeps the invariant: the configuration reflects the calls of the builder, and the
\* shared counter bounds the attempts of one or two runners.
THEOREM RetryInvariance == RetrySpec => []RetryInv
<1>1. RetryInv /\ [RetryNext]_retryVars => RetryInv'
  <2> SUFFICES ASSUME RetryInv, [RetryNext]_retryVars PROVE RetryInv'
    OBVIOUS
  <2>1. RetryTypes /\ AloneOK /\ PairOK /\ LastDelayOK
    BY DEF RetryInv
  <2>2. RetryTypes' /\ Kept
    BY <2>1, TypesKept
  <2>3. AloneOK'
    BY <2>1, <2>2, AloneStep
  <2>4. PairOK'
    BY <2>1, <2>2, PairStep
  <2>5. LastDelayOK'
    BY <2>1, <2>2, LastDelayStep
  <2> QED  BY <2>2, <2>3, <2>4, <2>5 DEF RetryInv
<1> QED  BY <1>1, InvStart, PTL DEF RetrySpec

-----------------------------------------------------------------------------
(***************************************************************************)
(* The attempts.                                                           *)
(***************************************************************************)
LEMMA AttemptsAre ==
  ASSUME RetryTypes
  PROVE  /\ config.maxRetries \in Nat \cup {-1}
         /\ ConfiguredAttempts = config.maxRetries + 1
<1>1. "maxRetries" \in Numbers /\ Setters("maxRetries") = {"WithMaxAttempts", "WithMaxRetries"}
  BY DEF Numbers, Setters
<1>2. PICK last : last = LastOf({"WithMaxAttempts", "WithMaxRetries"})
  OBVIOUS
<1>3. ConfiguredAttempts = CASE last.op = "WithMaxAttempts" -> IF last.arg = -1 THEN 0 ELSE last.arg
                             [] last.op = "WithMaxRetries"  -> IF last.arg = -1 THEN 0 ELSE last.arg + 1
                             [] OTHER                       -> 3
  BY <1>2 DEF ConfiguredAttempts
<1>4. CASE config["maxRetries"] = NewBuilder["maxRetries"] /\ last = [op |-> "none"]
  <2>1. last.op = "none" /\ NewBuilder["maxRetries"] = 2
    BY <1>4 DEF NewBuilder
  <2> QED  BY <1>3, <1>4, <2>1
<1>5. CASE \E j \in 1 .. Len(calls) :
             /\ calls[j].op \in Setters("maxRetries") /\ config["maxRetries"] = ValueSet(calls[j], "maxRetries")
             /\ last = calls[j] /\ IsCall(calls[j])
  <2>1. last.op \in {"WithMaxAttempts", "WithMaxRetries"} /\ config.maxRetries = ValueSet(last, "maxRetries")
        /\ IsCall(last)
    BY <1>1, <1>5
  <2>2. last.arg \in Nat \cup {-1}
    BY <2>1 DEF IsCall
  <2>3. CASE last.op = "WithMaxAttempts"
    <3>1. config.maxRetries = IF last.arg = -1 THEN -1 ELSE last.arg - 1
      BY <2>1, <2>3 DEF ValueSet
    <3> QED  BY <1>3, <2>2, <2>3, <3>1
  <2>4. CASE last.op = "WithMaxRetries"
    <3>1. config.maxRetries = last.arg
      BY <2>1, <2>4 DEF ValueSet
    <3> QED  BY <1>3, <2>2, <2>4, <3>1
  <2> QED  BY <2>1, <2>3, <2>4
<1> QED  BY <1>1, <1>2, <1>4, <1>5, NumberIs, ConfigNumbers

\* Half of a bound.
LEMMA Half == ASSUME NEW f \in Nat, NEW m \in Nat, 2 * f <= m + 2 PROVE f <= m \div 2 + 1
BY Z3

\* A goroutine that runs the policy alone makes at most the attempts that the last of
\* WithMaxAttempts and WithMaxRetries allows, n say, and one of two that share the executor at most
\* 1 + ... + n and one more.
THEOREM AttemptsConfigured == RetrySpec => []AttemptsAsConfigured
<1>1. RetryInv => AttemptsAsConfigured
  <2> SUFFICES ASSUME RetryInv, ConfiguredAttempts # 0, NEW r \in Runners
               PROVE  /\ Cardinality(Runners) = 1 => attempts[r] <= ConfiguredAttempts
                      /\ Cardinality(Runners) = 2 =>
                           attempts[r] <= (ConfiguredAttempts * (ConfiguredAttempts + 1)) \div 2 + 1
    BY DEF AttemptsAsConfigured
  <2>1. RetryTypes /\ AloneOK /\ PairOK /\ IsFiniteSet(Runners)
    BY DEF RetryInv, RetryTypes
  <2>2. PICK m \in Nat : config.maxRetries = m /\ ConfiguredAttempts = m + 1
    BY <2>1, AttemptsAre, ConfigNumbers
  <2>3. PICK t \in Nat, d \in Nat : t = attempts[r] /\ d = Due(r) /\ t <= d
    BY <2>1, <2>2, DueNumbers
  <2>4. ASSUME Cardinality(Runners) = 1 PROVE attempts[r] <= m + 1
    <3>1. Runners = {r}
      <4>1. PICK x : Runners = {x}
        BY <2>1, <2>4, FS_Singleton
      <4> QED  BY <4>1
    <3>2. d <= m + 1
      BY <2>1, <2>2, <2>3, <3>1 DEF AloneOK
    <3> QED  BY <2>3, <3>2
  <2>5. ASSUME Cardinality(Runners) = 2 PROVE attempts[r] <= ((m + 1) * ((m + 1) + 1)) \div 2 + 1
    <3>1. PICK b \in Runners : b # r /\ Runners = {r, b}
      <4>1. IsFiniteSet(Runners \ {r}) /\ Cardinality(Runners \ {r}) = 1
        BY <2>1, <2>5, FS_RemoveElement
      <4>2. PICK x : Runners \ {r} = {x}
        BY <4>1, FS_Singleton
      <4> QED  BY <4>2
    <3>2. PICK k \in Nat, h \in Nat : k = Rounds(r, b) /\ h = Hidden
      <4>1. Stale(b) \in Nat /\ Ahead(r) \in Nat
        BY <2>1, <2>2, DueNumbers
      <4> QED  BY <2>2, <4>1 DEF Rounds, Hidden, Left, AtMost
    <3>3. 2 * d + k * (k + 1) + 2 * h <= (m + 1) * (m + 2) + 2
      BY <2>1, <2>2, <2>3, <3>1, <3>2 DEF PairOK
    <3>4. k * (k + 1) \in Nat /\ (m + 1) * (m + 2) \in Nat /\ (m + 1) + 1 = m + 2
      OBVIOUS
    <3>5. PICK c \in Nat : c = (m + 1) * (m + 2) /\ 2 * t <= c + 2
      BY <2>3, <3>3, <3>4
    <3>6. t <= c \div 2 + 1
      BY <3>5, Half
    <3> QED  BY <2>3, <3>4, <3>5, <3>6
  <2> QED  BY <2>2, <2>4, <2>5
<1> QED  BY <1>1, RetryInvariance, PTL

-----------------------------------------------------------------------------
(***************************************************************************)
(* The classification of the outcomes.                                     *)
(***************************************************************************)
LEMMA FailureIsHandled == ASSUME RetryTypes, NEW o PROVE IsFailure(o) <=> HandledByCalls(o)
<1>1. /\ Buildable(calls) /\ DOMAIN calls = 1 .. Len(calls)
      /\ AppliesToAny(config.failureConditions, o) <=> \E i \in 1 .. Len(calls) : CallHandles(calls[i], o)
      /\ config.errorsChecked <=> \E i \in 1 .. Len(calls) : calls[i].op \in ErrorChecks
      /\ config.errorsChecked => config.failureConditions # {}
  BY DEF RetryTypes, Reflects, Buildable
<1>2. LastOf(ErrorChecks).op = "none" <=> ~config.errorsChecked
  <2>1. CASE \A i \in 1 .. Len(calls) : calls[i].op \notin ErrorChecks
    <3>1. LastOf(ErrorChecks) = [op |-> "none"]
      BY <1>1, <2>1, NoCall
    <3>2. LastOf(ErrorChecks).op = "none"
      BY <3>1
    <3> QED  BY <1>1, <2>1, <3>2, Zenon
  <2>2. CASE \E i \in 1 .. Len(calls) : calls[i].op \in ErrorChecks
    <3>1. PICK i \in 1 .. Len(calls) : calls[i].op \in ErrorChecks
      BY <2>2
    <3>2. PICK j \in 1 .. Len(calls) : LastOf(ErrorChecks) = calls[j]
      BY <1>1, <3>1, LastExists
    <3>3. LastOf(ErrorChecks).op # "none"
      BY <1>1, <3>2, CallsAreNamed
    <3> QED  BY <1>1, <2>2, <3>3, Zenon
  <2> QED  BY <2>1, <2>2
<1> QED  BY <1>1, <1>2, Zenon DEF IsFailure, HandledByCalls

\* The outcomes that abort are those the calls name.
LEMMA AbortIsConfigured == ASSUME RetryTypes, NEW o PROVE IsAbortable(o) <=> AbortedByCalls(o)
<1>1. /\ DOMAIN calls = 1 .. Len(calls)
      /\ AppliesToAny(config.abortConditions, o) <=> \E i \in 1 .. Len(calls) : CallAborts(calls[i], o)
  BY DEF RetryTypes, Reflects, Buildable
<1> QED  BY <1>1, Zenon DEF IsAbortable, AbortedByCalls

\* The steps that leave the states which OutcomesHandledAsConfigured is about.
LEMMA HandlingSteps ==
  ASSUME RetryTypes, RetryNext, NEW r \in Runners, pc'[r] # pc[r]
  PROVE  /\ pc[r] = "handling" => Succeeds(r) \/ Fails(r)
         /\ pc[r] = "counted" => Decide(r)
<1>1. ASSUME NEW q \in Runners, RunnerStep(q) PROVE q = r
  <2> SUFFICES ASSUME q # r PROVE FALSE
    OBVIOUS
  <2>1. ASSUME NEW where, pc' = [pc EXCEPT ![q] = where] PROVE FALSE
    BY <2>1 DEF RetryTypes
  <2>2. ASSUME NEW answer, End(q, answer) PROVE FALSE
    BY <2>1, <2>2 DEF End
  <2>3. ASSUME NEW where, GoesOn(q, where) PROVE FALSE
    BY <2>1, <2>3 DEF GoesOn, Goes
  <2> QED  BY <1>1, <2>1, <2>2, <2>3 DEF RunnerStep, CallInner, CheckCanceled, CheckExceeded, Succeeds, Fails,
              Increment, Compare, SetExceeded, Decide, ReturnResult, Schedule, Retry, Goes
<1>2. ~Cancel /\ ~Ended
  BY DEF Cancel, Ended, retryVars
<1>3. RunnerStep(r)
  BY <1>1, <1>2 DEF RetryNext
<1> QED  BY <1>3 DEF RunnerStep, CallInner, CheckCanceled, CheckExceeded, Succeeds, Fails,
            Increment, Compare, SetExceeded, Decide, ReturnResult, Schedule, Retry

\* Whatever the calls of the builder, an outcome is a failure exactly when they name it one, by its
\* result or by its error, or when it is an error and none of them is about errors; an attempt
\* follows none that they abort on, and is held back only by that and by the limits.
THEOREM OutcomesHandled == RetrySpec => OutcomesHandledAsConfigured
<1> DEFINE A(r) ==
  /\ pc[r] = "handling" /\ pc'[r] = "failed" => HandledByCalls(outcome[r])
  /\ pc[r] = "handling" /\ pc'[r] = "done" => ~HandledByCalls(outcome[r])
  /\ pc[r] = "counted" /\ pc'[r] = "retrying" => ~AbortedByCalls(outcome[r])
  /\ pc[r] = "counted" /\ pc'[r] = "ending" =>
       AbortedByCalls(outcome[r]) \/ retriesExceeded \/ ConfiguredAttempts = 1
<1>1. RetryInv /\ [RetryNext]_retryVars => [\A r \in Runners : A(r)]_retryVars
  <2> SUFFICES ASSUME RetryInv, RetryNext, NEW r \in Runners PROVE A(r)
    BY DEF retryVars
  <2>1. RetryTypes
    BY DEF RetryInv
  <2>2. ASSUME Succeeds(r) PROVE pc'[r] = "done"
    BY <2>1, <2>2 DEF Succeeds, End, RetryTypes
  <2>3. ASSUME Fails(r) PROVE pc'[r] = "failed"
    BY <2>1, <2>3 DEF Fails, Goes, RetryTypes
  <2>4. ASSUME pc[r] = "handling", pc'[r] = "failed" PROVE HandledByCalls(outcome[r])
    <3>1. Fails(r)
      BY <2>1, <2>2, <2>4, HandlingSteps
    <3> QED  BY <2>1, <3>1, FailureIsHandled DEF Fails
  <2>5. ASSUME pc[r] = "handling", pc'[r] = "done" PROVE ~HandledByCalls(outcome[r])
    <3>1. Succeeds(r)
      BY <2>1, <2>3, <2>5, HandlingSteps
    <3> QED  BY <2>1, <3>1, FailureIsHandled DEF Succeeds
  <2>6. ASSUME Decide(r)
        PROVE  pc'[r] = IF IsAbortable(outcome[r]) \/ retriesExceeded \/ ~allowsRetries THEN "ending" ELSE "retrying"
    BY <2>1, <2>6 DEF Decide, GoesOn, Goes, RetryTypes
  <2>7. ASSUME pc[r] = "counted", pc'[r] = "retrying" PROVE ~AbortedByCalls(outcome[r])
    <3>1. Decide(r)
      BY <2>1, <2>7, HandlingSteps
    <3>2. ~IsAbortable(outcome[r])
      BY <2>6, <2>7, <3>1
    <3> QED  BY <2>1, <3>2, AbortIsConfigured
  <2>8. ASSUME pc[r] = "counted", pc'[r] = "ending"
        PROVE  AbortedByCalls(outcome[r]) \/ retriesExceeded \/ ConfiguredAttempts = 1
    <3>1. Decide(r)
      BY <2>1, <2>8, HandlingSteps
    <3>2. IsAbortable(outcome[r]) \/ retriesExceeded \/ ~allowsRetries
      BY <2>6, <2>8, <3>1
    <3>3. ~allowsRetries => ConfiguredAttempts = 1
      BY <2>1, AttemptsAre DEF allowsRetries
    <3> QED  BY <2>1, <3>2, <3>3, AbortIsConfigured
  <2> QED  BY <2>4, <2>5, <2>7, <2>8
<1> QED  BY <1>1, RetryInvariance, PTL DEF RetrySpec, OutcomesHandledAsConfigured

-----------------------------------------------------------------------------
(***************************************************************************)
(* The delays.                                                             *)
(***************************************************************************)
\* What the last of WithBackoff and WithRandomDelay leaves.
LEMMA RangeIs ==
  ASSUME RetryTypes, NEW k, k = LastOf({"WithBackoff", "WithRandomDelay"})
  PROVE  \/ /\ k.op = "none"
            /\ config.maxDelay = 0 /\ config.delayMin = 0 /\ config.delayMax = 0
         \/ /\ k.op = "WithBackoff"
            /\ config.maxDelay = k.arg[2] /\ config.delayMin = 0 /\ config.delayMax = 0
         \/ /\ k.op = "WithRandomDelay" /\ k.arg[1] \in Nat /\ k.arg[2] \in Nat /\ k.arg[1] <= k.arg[2]
            /\ config.maxDelay = 0 /\ config.delayMin = k.arg[1] /\ config.delayMax = k.arg[2]
<1> DEFINE Fields == {"maxDelay", "delayMin", "delayMax"}
<1>1. \A f \in Fields : f \in Numbers /\ Setters(f) = {"WithBackoff", "WithRandomDelay"} /\ NewBuilder[f] = 0
  BY DEF Numbers, Setters, NewBuilder
<1>2. ASSUME NEW f \in Fields
      PROVE  \/ config[f] = 0 /\ k = [op |-> "none"]
             \/ /\ k.op \in {"WithBackoff", "WithRandomDelay"} /\ IsCall(k)
                /\ config[f] = ValueSet(k, f)
  <2>1. f \in Numbers /\ Setters(f) = {"WithBackoff", "WithRandomDelay"} /\ NewBuilder[f] = 0
    BY <1>1
  <2>2. CASE config[f] = NewBuilder[f] /\ LastOf(Setters(f)) = [op |-> "none"]
    BY <2>1, <2>2
  <2>3. CASE \E j \in 1 .. Len(calls) :
               /\ calls[j].op \in Setters(f) /\ config[f] = ValueSet(calls[j], f)
               /\ LastOf(Setters(f)) = calls[j] /\ IsCall(calls[j])
    BY <2>1, <2>3
  <2> QED  BY <2>1, <2>2, <2>3, NumberIs
<1>3. CASE k = [op |-> "none"]
  <2>1. k.op = "none"
    BY <1>3
  <2>2. config["maxDelay"] = 0 /\ config["delayMin"] = 0 /\ config["delayMax"] = 0
    BY <1>2, <2>1
  <2> QED  BY <2>1, <2>2
<1>4. CASE k # [op |-> "none"]
  <2>1. /\ k.op \in {"WithBackoff", "WithRandomDelay"} /\ IsCall(k)
        /\ config["maxDelay"] = ValueSet(k, "maxDelay")
        /\ config["delayMin"] = ValueSet(k, "delayMin") /\ config["delayMax"] = ValueSet(k, "delayMax")
    BY <1>2, <1>4
  <2>2. CASE k.op = "WithBackoff"
    BY <2>1, <2>2 DEF ValueSet
  <2>3. CASE k.op = "WithRandomDelay"
    <3>1. k.arg[1] \in Nat /\ k.arg[2] \in Nat /\ k.arg[1] <= k.arg[2]
      BY <2>1, <2>3 DEF IsCall
    <3> QED  BY <2>1, <2>3, <3>1 DEF ValueSet
  <2> QED  BY <2>1, <2>2, <2>3
<1> QED  BY <1>3, <1>4

\* The delays that getFixedOrRandomDelay returns are those the calls allow.
LEMMA DelayIsConfigured ==
  ASSUME RetryTypes, NEW d,
         IF config.delay # 0 THEN d \in FixedDelays
         ELSE IF config.delayMin # 0 /\ config.delayMax # 0
              THEN d \in RandomDelayInRange(config.delayMin, config.delayMax) ELSE d = 0
  PROVE  d \in ConfiguredDelays
<1> DEFINE Ops == {"WithDelay", "WithBackoff", "WithRandomDelay"}
<1>1. /\ "delay" \in Numbers /\ Setters("delay") = Ops /\ NewBuilder["delay"] = 0 /\ Buildable(calls)
  BY DEF Numbers, Setters, NewBuilder, RetryTypes
<1>2. PICK last : last = LastOf(Ops)
  OBVIOUS
<1>3. PICK k : k = LastOf({"WithBackoff", "WithRandomDelay"})
  OBVIOUS
<1> DEFINE upTo == IF k.op = "WithBackoff" THEN k.arg[2] ELSE 0
           random == IF k.op = "WithRandomDelay" THEN k.arg[1] .. k.arg[2] ELSE {0}
           Fixed(x) == IF x = 0 THEN random
                       ELSE IF upTo = 0 THEN {x} ELSE AtMost(x, upTo) .. AtLeast(x, upTo)
<1>4. ConfiguredDelays = CASE last.op = "WithDelay"       -> Fixed(last.arg)
                           [] last.op = "WithBackoff"     -> Fixed(last.arg[1])
                           [] last.op = "WithRandomDelay" -> random
                           [] OTHER                       -> {0}
  BY <1>2, <1>3 DEF ConfiguredDelays
<1>5. upTo = config.maxDelay
  BY <1>3, RangeIs
<1>6. config.delay = 0 => d \in random
  <2> SUFFICES ASSUME config.delay = 0 PROVE d \in random
    OBVIOUS
  <2>1. CASE k.op = "WithRandomDelay"
    <3>1. PICK a \in Nat, b \in Nat : a = k.arg[1] /\ b = k.arg[2] /\ a <= b /\ config.delayMin = a /\ config.delayMax = b
      BY <1>3, <2>1, RangeIs
    <3>2. d \in a .. b
      BY <3>1 DEF RandomDelayInRange
    <3> QED  BY <2>1, <3>1, <3>2
  <2>2. CASE k.op # "WithRandomDelay"
    <3>1. config.delayMin = 0
      BY <1>3, <2>2, RangeIs
    <3> QED  BY <2>2, <3>1
  <2> QED  BY <2>1, <2>2
<1>7. \A x : x = config.delay => d \in Fixed(x)
  <2>1. CASE config.delay = 0
    BY <1>6, <2>1
  <2>2. CASE config.delay # 0
    BY <1>5, <2>2 DEF FixedDelays
  <2> QED  BY <2>1, <2>2
<1> HIDE DEF Fixed, random, upTo
<1>8. CASE config["delay"] = NewBuilder["delay"] /\ last = [op |-> "none"]
           /\ \A i \in 1 .. Len(calls) : calls[i].op \notin Setters("delay")
  <2>1. config.delay = 0 /\ last.op = "none"
    BY <1>1, <1>8
  <2>2. \A i \in 1 .. Len(calls) : calls[i].op \notin {"WithBackoff", "WithRandomDelay"}
    BY <1>1, <1>8
  <2>3. k = [op |-> "none"]
    BY <1>1, <1>3, <2>2, NoCall
  <2>4. k.op = "none"
    BY <2>3
  <2>5. d \in {0}
    BY <1>6, <2>1, <2>4 DEF random
  <2> QED  BY <1>4, <2>1, <2>5
<1>9. CASE last.op \in Ops /\ config["delay"] = ValueSet(last, "delay")
  <2>1. CASE last.op = "WithDelay"
    <3>1. config.delay = last.arg
      BY <1>9, <2>1 DEF ValueSet
    <3> QED  BY <1>4, <1>7, <2>1, <3>1
  <2>2. CASE last.op = "WithBackoff"
    <3>1. config.delay = last.arg[1]
      BY <1>9, <2>2 DEF ValueSet
    <3> QED  BY <1>4, <1>7, <2>2, <3>1
  <2>3. CASE last.op = "WithRandomDelay"
    <3>1. config.delay = 0
      BY <1>9, <2>3 DEF ValueSet
    <3> QED  BY <1>4, <1>6, <2>3, <3>1
  <2> QED  BY <1>9, <2>1, <2>2, <2>3
<1>10. \/ config["delay"] = NewBuilder["delay"] /\ LastOf(Ops) = [op |-> "none"]
         /\ \A i \in 1 .. Len(calls) : calls[i].op \notin Setters("delay")
      \/ \E j \in 1 .. Len(calls) :
           /\ calls[j].op \in Ops /\ config["delay"] = ValueSet(calls[j], "delay") /\ LastOf(Ops) = calls[j]
  <2> HIDE DEF Ops
  <2>1. "delay" \in Numbers /\ Ops = Setters("delay")
    BY <1>1
  <2> QED  BY <2>1, NumberIs
<1> HIDE DEF Ops
<1> QED  BY <1>2, <1>8, <1>9, <1>10

\* The value that the last call for a jitter gives it.
LEMMA JitterIs ==
  ASSUME RetryTypes, NEW f \in {"jitter", "jitterFactor"}
  PROVE  LET k == LastOf(Setters(f))
         IN  /\ k.op = "none" => config[f] = 0
             /\ k.op # "none" => config[f] = k.arg
<1>1. f \in Numbers /\ NewBuilder[f] = 0 /\ Setters(f) \subseteq {"WithJitter", "WithJitterFactor"}
  BY DEF Numbers, NewBuilder, Setters
<1>2. CASE config[f] = NewBuilder[f] /\ LastOf(Setters(f)) = [op |-> "none"]
  <2>1. LastOf(Setters(f)).op = "none"
    BY <1>2
  <2> QED  BY <1>1, <1>2, <2>1
<1>3. CASE \E j \in 1 .. Len(calls) : /\ calls[j].op \in Setters(f) /\ config[f] = ValueSet(calls[j], f)
                                      /\ LastOf(Setters(f)) = calls[j]
  <2>1. PICK k : k = LastOf(Setters(f)) /\ k.op \in Setters(f) /\ config[f] = ValueSet(k, f)
    BY <1>3
  <2>2. k.op # "none" /\ ValueSet(k, f) = k.arg
    BY <1>1, <2>1 DEF ValueSet
  <2> QED  BY <2>1, <2>2
<1> QED  BY <1>1, <1>2, <1>3, NumberIs

\* Slack is the jitter, or without one the difference that the jitter factor makes.
LEMMA SlackCovers ==
  ASSUME RetryTypes, NEW d \in Int
  PROVE  /\ Slack(d) \in Nat
         /\ d # 0 => Slack(d) = IF config.jitter # 0 THEN config.jitter ELSE FactorSlack(d, config.jitterFactor)
<1>1. Setters("jitter") = {"WithJitter"} /\ Setters("jitterFactor") = {"WithJitterFactor"}
  BY DEF Setters
<1>2. config.jitter \in Nat /\ config.jitterFactor \in Nat
  BY ConfigNumbers
<1>3. PICK j, f : j = LastOf({"WithJitter"}) /\ f = LastOf({"WithJitterFactor"})
  OBVIOUS
<1>4. /\ j.op = "none" => config.jitter = 0
      /\ j.op # "none" => config.jitter = j.arg
  <2>1. LET k == LastOf(Setters("jitter"))
        IN  /\ k.op = "none" => config["jitter"] = 0
            /\ k.op # "none" => config["jitter"] = k.arg
    BY JitterIs
  <2> QED  BY <1>1, <1>3, <2>1
<1>5. /\ f.op = "none" => config.jitterFactor = 0
      /\ f.op # "none" => config.jitterFactor = f.arg
  <2>1. LET k == LastOf(Setters("jitterFactor"))
        IN  /\ k.op = "none" => config["jitterFactor"] = 0
            /\ k.op # "none" => config["jitterFactor"] = k.arg
    BY JitterIs
  <2> QED  BY <1>1, <1>3, <2>1
<1>6. PICK q \in Nat : q = config.jitterFactor
  BY <1>2
<1>7. FactorSlack(d, q) \in Nat /\ (q = 0 => FactorSlack(d, q) = 0)
  <2>1. PICK p \in Nat : p = AtLeast(d, -d) * q /\ (q = 0 => p = 0)
    <3>1. PICK a \in Nat : a = AtLeast(d, -d)
      BY DEF AtLeast
    <3>2. a * q \in Nat /\ (q = 0 => a * q = 0)
      OBVIOUS
    <3> QED  BY <3>1, <3>2
  <2>2. PICK s \in Int : s = (p + 3) \div 4 /\ 4 * s <= p + 3 /\ p + 3 < 4 * s + 4
    <3>1. (p + 3) \div 4 \in Int /\ 4 * ((p + 3) \div 4) <= p + 3 /\ p + 3 < 4 * ((p + 3) \div 4) + 4
      BY Quarters
    <3> QED  BY <3>1
  <2>3. s \in Nat /\ (p = 0 => s = 0)
    BY <2>2
  <2>4. FactorSlack(d, q) = s
    BY <2>1, <2>2 DEF FactorSlack
  <2> QED  BY <2>1, <2>3, <2>4
<1>8. Slack(d) = IF d = 0 THEN 0
                 ELSE IF j.op # "none" /\ j.arg # 0 THEN j.arg
                 ELSE IF f.op # "none" THEN (AtLeast(d, -d) * f.arg + 3) \div 4 ELSE 0
  BY <1>3 DEF Slack
<1>9. CASE d = 0
  BY <1>8, <1>9
<1>10. CASE d # 0 /\ config.jitter # 0
  <2>1. j.op # "none" /\ j.arg = config.jitter
    BY <1>4, <1>10
  <2> QED  BY <1>2, <1>8, <1>10, <2>1
<1>11. CASE d # 0 /\ config.jitter = 0
  <2>1. ~(j.op # "none" /\ j.arg # 0)
    BY <1>4, <1>11
  <2>2. CASE f.op = "none"
    BY <1>5, <1>6, <1>7, <1>8, <1>11, <2>1, <2>2
  <2>3. CASE f.op # "none"
    <3>1. f.arg = q
      BY <1>5, <1>6, <2>3
    <3>2. (AtLeast(d, -d) * f.arg + 3) \div 4 = FactorSlack(d, q)
      BY <3>1, Zenon DEF FactorSlack
    <3>3. Slack(d) = FactorSlack(d, q)
      BY <1>8, <1>11, <2>1, <2>3, <3>2, Zenon
    <3> QED  BY <1>6, <1>7, <1>11, <3>3
  <2> QED  BY <2>2, <2>3
<1> QED  BY <1>9, <1>10, <1>11

\* A delay with its jitter differs from the delay by Slack at most.
LEMMA JitterWithin ==
  ASSUME RetryTypes, NEW d \in Int, NEW e \in Jittered(d)
  PROVE  e \in Int /\ Slack(d) \in Nat /\ d - Slack(d) <= e /\ e <= d + Slack(d)
<1>1. PICK s \in Nat : s = Slack(d)
  BY SlackCovers
<1>2. d # 0 => s = IF config.jitter # 0 THEN config.jitter ELSE FactorSlack(d, config.jitterFactor)
  BY <1>1, SlackCovers
<1>3. config.jitter \in Nat /\ config.jitterFactor \in Nat
  BY ConfigNumbers
<1>4. CASE d = 0
  <2>1. e = 0
    BY <1>4 DEF Jittered
  <2> QED  BY <1>1, <1>4, <2>1
<1>5. CASE d # 0 /\ config.jitter # 0
  <2>1. e \in d - (config.jitter - 1) .. d + config.jitter
    BY <1>5 DEF Jittered, RandomDelay
  <2>2. e \in Int /\ d - s <= e /\ e <= d + s
    BY <1>2, <1>3, <1>5, <2>1
  <2> QED  BY <1>1, <2>2
<1>6. CASE d # 0 /\ config.jitter = 0 /\ config.jitterFactor # 0
  <2>1. e \in RandomDelayFactor(d, config.jitterFactor)
    BY <1>6 DEF Jittered
  <2>2. PICK t \in Nat : t = FactorSlack(d, config.jitterFactor) /\ e \in Int /\ d - t <= e /\ e <= d + t
    BY <1>3, <2>1, FactorWithin
  <2>3. t <= s
    BY <1>2, <1>6, <2>2
  <2>4. d - s <= e /\ e <= d + s
    BY <2>2, <2>3
  <2> QED  BY <1>1, <2>2, <2>4
<1>7. CASE d # 0 /\ config.jitter = 0 /\ config.jitterFactor = 0
  <2>1. e = d
    BY <1>7 DEF Jittered
  <2>2. d - s <= d /\ d <= d + s
    OBVIOUS
  <2> QED  BY <1>1, <2>1, <2>2
<1> QED  BY <1>4, <1>5, <1>6, <1>7

\* What DelayAsConfigured says of a runner that waits for w, after an outcome o, at time t.
WaitOK(w, o, t) ==
  /\ w >= 0
  /\ config.maxDuration # 0 /\ Cardinality(Runners) = 1 => w <= AtLeast(0, config.maxDuration - t)
  /\ \E d \in IF ComputeDelay(o) # -1 THEN {ComputeDelay(o)} ELSE ConfiguredDelays :
       /\ w <= AtLeast(0, d + Slack(d))
       /\ w >= d - Slack(d) \/ (config.maxDuration # 0 /\ t + w >= config.maxDuration)

\* getDelay returns such a delay.
LEMMA DelayComputed ==
  ASSUME RetryTypes, LastDelayOK, NEW o, NEW base \in BaseDelays(o), NEW e \in Jittered(base.delay), NEW t \in Nat
  PROVE  WaitOK(adjustForMaxDuration(e, t), o, t)
<1>1. PICK d \in Int : d = base.delay
  BY BaseDelay
<1>2. PICK s \in Nat : s = Slack(d) /\ e \in Int /\ d - s <= e /\ e <= d + s
  BY <1>1, JitterWithin
<1>3. d \in IF ComputeDelay(o) # -1 THEN {ComputeDelay(o)} ELSE ConfiguredDelays
  <2>1. CASE ComputeDelay(o) # -1
    BY <1>1, <2>1, BaseDelay
  <2>2. CASE ComputeDelay(o) = -1
    <3>1. IF config.delay # 0 THEN base.delay \in FixedDelays
          ELSE IF config.delayMin # 0 /\ config.delayMax # 0
               THEN base.delay \in RandomDelayInRange(config.delayMin, config.delayMax)
               ELSE base.delay = 0
      BY <2>2, BaseDelay
    <3>2. base.delay \in ConfiguredDelays
      BY <3>1, DelayIsConfigured
    <3> QED  BY <1>1, <2>2, <3>2
  <2> QED  BY <2>1, <2>2
<1>4. PICK x \in Nat : x = config.maxDuration
  BY ConfigNumbers
<1>5. PICK w : w = adjustForMaxDuration(e, t)
  OBVIOUS
<1>6. w = AtLeast(0, IF x # 0 THEN AtMost(e, x - t) ELSE e)
  BY <1>4, <1>5 DEF adjustForMaxDuration
<1>7. /\ w \in Nat /\ (x # 0 => w <= AtLeast(0, x - t)) /\ w <= AtLeast(0, d + s)
      /\ w >= d - s \/ (x # 0 /\ t + w >= x)
  BY <1>2, <1>6 DEF AtLeast, AtMost
<1>8. w >= 0 /\ (config.maxDuration # 0 => w <= AtLeast(0, config.maxDuration - t))
  BY <1>4, <1>7
<1>9. /\ w <= AtLeast(0, d + Slack(d))
      /\ w >= d - Slack(d) \/ (config.maxDuration # 0 /\ t + w >= config.maxDuration)
  BY <1>2, <1>4, <1>7
<1>10. WaitOK(w, o, t)
  BY <1>3, <1>8, <1>9, Zenon DEF WaitOK
<1> QED  BY <1>5, <1>10

\* It stays one when time goes on.
LEMMA WaitLater ==
  ASSUME RetryTypes, NEW w \in Nat, NEW o, NEW t \in Nat, NEW u \in Nat, WaitOK(w, o, t),
         config.maxDuration # 0 => t <= u, Cardinality(Runners) = 1 => t = u
  PROVE  WaitOK(w, o, u)
<1>1. PICK x \in Nat : x = config.maxDuration
  BY ConfigNumbers
<1>2. x # 0 /\ t + w >= x => u + w >= x
  BY <1>1
<1>3. PICK d \in IF ComputeDelay(o) # -1 THEN {ComputeDelay(o)} ELSE ConfiguredDelays :
        /\ w <= AtLeast(0, d + Slack(d))
        /\ w >= d - Slack(d) \/ (config.maxDuration # 0 /\ t + w >= config.maxDuration)
  BY DEF WaitOK
<1>4. w >= d - Slack(d) \/ (config.maxDuration # 0 /\ u + w >= config.maxDuration)
  BY <1>1, <1>2, <1>3
<1>5. w >= 0 /\ (config.maxDuration # 0 /\ Cardinality(Runners) = 1 => w <= AtLeast(0, config.maxDuration - u))
  BY DEF WaitOK
<1> QED  BY <1>3, <1>4, <1>5, Zenon DEF WaitOK

\* A runner that waits began to, or the step was another's.
LEMMA WaitingSteps ==
  ASSUME RetryTypes, [RetryNext]_retryVars, NEW r \in Runners, pc'[r] = "waiting"
  PROVE  \/ Schedule(r) /\ ~End(r, "ctx.Err")
         \/ /\ pc[r] = "waiting" /\ wait'[r] = wait[r] /\ outcome'[r] = outcome[r]
            /\ Cardinality(Runners) = 1 => elapsed' = elapsed
<1>1. ASSUME NEW q, NEW answer, End(q, answer)
      PROVE  pc' = [pc EXCEPT ![q] = "done"] /\ outcome' = [outcome EXCEPT ![q] = answer] /\ wait' = wait
  BY <1>1 DEF End
<1>2. ASSUME RunnerStep(r) PROVE Schedule(r) /\ ~End(r, "ctx.Err")
  <2>1. ASSUME NEW where, pc' = [pc EXCEPT ![r] = where] PROVE where = "waiting"
    BY <2>1 DEF RetryTypes
  <2>2. ASSUME NEW answer PROVE ~End(r, answer)
    BY <1>1, <2>1
  <2>3. ~CallInner(r) /\ ~Fails(r) /\ ~Increment(r) /\ ~SetExceeded(r)
    BY <2>1 DEF CallInner, Fails, Increment, SetExceeded, Goes
  <2>4. ASSUME NEW where, where # "waiting" PROVE ~GoesOn(r, where)
    BY <2>1, <2>4 DEF GoesOn, Goes
  <2>5. ~CheckCanceled(r) /\ ~CheckExceeded(r) /\ ~Succeeds(r)
    BY <2>2, <2>4 DEF CheckCanceled, CheckExceeded, Succeeds
  <2>6. ~Compare(r) /\ ~Decide(r) /\ ~ReturnResult(r)
    BY <2>2, <2>4 DEF Compare, Decide, ReturnResult
  <2>7. ~Retry(r)
    BY <2>1, <2>2 DEF Retry, Goes
  <2> QED  BY <1>2, <2>2, <2>3, <2>5, <2>6, <2>7 DEF RunnerStep
<1>3. ASSUME NEW q \in Runners, q # r, RunnerStep(q)
      PROVE  pc[r] = "waiting" /\ wait'[r] = wait[r] /\ outcome'[r] = outcome[r] /\ Cardinality(Runners) # 1
  <2>1. ASSUME NEW where, GoesOn(q, where)
        PROVE  pc' = [pc EXCEPT ![q] = where] /\ outcome' = outcome /\ wait' = wait
    BY <2>1 DEF GoesOn, Goes
  <2>2. \E where : pc' = [pc EXCEPT ![q] = where]
    BY <1>1, <1>3, <2>1 DEF RunnerStep, CallInner, CheckCanceled, CheckExceeded, Succeeds, Fails, Increment,
       Compare, SetExceeded, Decide, ReturnResult, Schedule, Retry, Goes
  <2>3. /\ outcome' = outcome \/ \E o : outcome' = [outcome EXCEPT ![q] = o]
        /\ wait' = wait \/ \E w : wait' = [wait EXCEPT ![q] = w]
    BY <1>1, <1>3, <2>1 DEF RunnerStep, CallInner, CheckCanceled, CheckExceeded, Succeeds, Fails, Increment,
       Compare, SetExceeded, Decide, ReturnResult, Schedule, Retry
  <2>4. pc'[r] = pc[r] /\ outcome'[r] = outcome[r] /\ wait'[r] = wait[r]
    BY <1>3, <2>1, <2>2, <2>3 DEF RetryTypes
  <2>5. Cardinality(Runners) # 1
    <3> SUFFICES ASSUME Cardinality(Runners) = 1 PROVE FALSE
      OBVIOUS
    <3>1. PICK x : Runners = {x}
      BY FS_Singleton DEF RetryTypes
    <3> QED  BY <1>3, <3>1
  <2> QED  BY <2>4, <2>5
<1>4. ASSUME Cancel \/ Ended \/ UNCHANGED retryVars
      PROVE  pc' = pc /\ wait' = wait /\ outcome' = outcome /\ elapsed' = elapsed
  BY <1>4 DEF Cancel, Ended, retryVars
<1> QED  BY <1>2, <1>3, <1>4 DEF RetryNext

\* Every delay that a runner waits for is one that the calls allow, up to the jitter and the
\* maximum duration, whatever order the calls of the builder were made in.
THEOREM DelaysConfigured == RetrySpec => []DelayAsConfigured
<1>1. DelayAsConfigured <=> \A r \in Runners : pc[r] = "waiting" => WaitOK(wait[r], outcome[r], elapsed)
  BY Zenon DEF DelayAsConfigured, WaitOK
<1>2. RetryInit => DelayAsConfigured
  <2> SUFFICES ASSUME RetryInit, NEW r \in Runners PROVE pc[r] # "waiting"
    BY DEF DelayAsConfigured
  <2> QED  BY DEF RetryInit, Runners
<1>3. RetryInv /\ DelayAsConfigured /\ [RetryNext]_retryVars => DelayAsConfigured'
  <2> SUFFICES ASSUME RetryInv, DelayAsConfigured, [RetryNext]_retryVars PROVE DelayAsConfigured'
    OBVIOUS
  <2>1. RetryTypes /\ LastDelayOK /\ RetryTypes' /\ Kept
    BY TypesKept DEF RetryInv
  <2>2. calls' = calls /\ config' = config /\ Runners' = Runners
    BY <2>1 DEF Kept
  <2>3. elapsed \in Nat /\ elapsed' \in Nat /\ (config.maxDuration # 0 => elapsed <= elapsed')
    <3>1. elapsed \in 0 .. MaxElapsed /\ elapsed' \in 0 .. MaxElapsed /\ MaxElapsed \in Nat
      BY <2>1, UsesAssumption DEF RetryTypes
    <3> QED  BY <2>1, <3>1 DEF Kept
  <2>4. ASSUME NEW r \in Runners, pc'[r] = "waiting" PROVE WaitOK(wait'[r], outcome'[r], elapsed')
    <3>1. CASE Schedule(r) /\ ~End(r, "ctx.Err")
      <4>1. PICK base \in BaseDelays(outcome[r]) : \E e \in Jittered(base.delay) :
              wait' = [wait EXCEPT ![r] = adjustForMaxDuration(e, elapsed')]
        BY <3>1 DEF Schedule
      <4>2. PICK e \in Jittered(base.delay) : wait' = [wait EXCEPT ![r] = adjustForMaxDuration(e, elapsed')]
        BY <4>1
      <4>3. wait'[r] = adjustForMaxDuration(e, elapsed') /\ outcome'[r] = outcome[r]
        BY <2>1, <3>1, <4>2 DEF Schedule, RetryTypes
      <4>4. WaitOK(adjustForMaxDuration(e, elapsed'), outcome[r], elapsed')
        BY <2>1, <2>3, DelayComputed
      <4> QED  BY <4>3, <4>4
    <3>2. CASE /\ pc[r] = "waiting" /\ wait'[r] = wait[r] /\ outcome'[r] = outcome[r]
               /\ Cardinality(Runners) = 1 => elapsed' = elapsed
      <4>1. WaitOK(wait[r], outcome[r], elapsed) /\ wait[r] \in Nat
        BY <1>1, <2>1, <3>2 DEF RetryTypes
      <4>2. WaitOK(wait[r], outcome[r], elapsed')
        BY <2>1, <2>3, <3>2, <4>1, WaitLater
      <4> QED  BY <3>2, <4>2
    <3> QED  BY <2>1, <2>4, <3>1, <3>2, WaitingSteps
  <2>5. ASSUME NEW r \in Runners, pc'[r] = "waiting" PROVE WaitOK(wait[r], outcome[r], elapsed)'
    <3>1. ConfiguredDelays' = ConfiguredDelays /\ \A d : Slack(d)' = Slack(d)
      BY <2>2 DEF ConfiguredDelays, Slack, LastOf, Made
    <3>2. ComputeDelay(outcome[r])' = ComputeDelay(outcome'[r])
      BY <2>2 DEF ComputeDelay
    <3>3. WaitOK(wait'[r], outcome'[r], elapsed')
      BY <2>4, <2>5
    <3> QED  BY <2>2, <3>1, <3>2, <3>3 DEF WaitOK
  <2>6. (\A r \in Runners : pc[r] = "waiting" => WaitOK(wait[r], outcome[r], elapsed))'
    BY <2>2, <2>5
  <2> QED  BY <2>6, Zenon DEF DelayAsConfigured, WaitOK
<1> QED  BY <1>2, <1>3, RetryInvariance, PTL DEF RetrySpec

=============================================================================
