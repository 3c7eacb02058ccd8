----------------------------- MODULE HttpClient -----------------------------
(***************************************************************************)
(* The contexts of one request that is executed with policies: the client  *)
(* side of failsafehttp, whose response outlives the call until its body   *)
(* is closed, the client interceptor of failsafegrpc, and the handlers of  *)
(* both servers.  A request has a context of its own, and so has the       *)
(* executor; MergeContexts joins them, with a goroutine that waits for     *)
(* either, once for the call and again for each attempt.                   *)
(*                                                                         *)
(* Of the policies only what happens to contexts is modelled here (see     *)
(* Execution and HedgePolicy for the rest): a retry policy alone, a retry  *)
(* policy around a timeout, and a hedge policy.                            *)
(***************************************************************************)
EXTENDS Integers, FiniteSets

CONSTANTS
  Setups,        \* the calls that are made: [kind, policy, request, executor]
  MaxAttempts    \* bound: attempts of a call, retries or hedges

ASSUME SetupsAssumption ==
  /\ Setups \subseteq [kind : {"http", "grpc", "server"}, policy : {"retry", "timeout", "hedge"},
                       request : {"bg", "R"}, executor : {"bg", "E"}]
  /\ MaxAttempts \in Nat \ {0}

Attempts == 1 .. MaxAttempts

(***************************************************************************)
(* Contexts: the background, the request's, the executor's, the merge of   *)
(* the two, and for each attempt that of its policy and the merge its      *)
(* request is sent with.                                                   *)
(***************************************************************************)
P(i) == <<"P", i>>
I(i) == <<"I", i>>
Owned == {<<"O", 0>>} \cup {P(i) : i \in Attempts} \cup {I(i) : i \in Attempts}
Bg == <<"bg", 0>>
R  == <<"R", 0>>
E  == <<"E", 0>>
O  == <<"O", 0>>

VARIABLES
  setup,         \* one of Setups
  made,          \* the contexts that were created for this call
  done,          \* the contexts that are done
  at,            \* attempt -> "none", "sent", "answered", "failed", "ended"
  inner,         \* attempt -> the context its request is sent with
  body,          \* attempt -> "none", "open", "closed": its response's wrapped body
  expired,       \* the attempts whose timeout fired before they ended
  deferCancel,   \* the flag all copies of the execution share
  call,          \* "running", "returned"
  response       \* the attempt whose response the call returned, or 0

vars == <<setup, made, done, at, inner, body, expired, deferCancel, call, response>>

Request  == IF setup.request = "R" THEN R ELSE Bg
Executor == IF setup.executor = "E" THEN E ELSE Bg

-----------------------------------------------------------------------------
(***************************************************************************)
(* MergeContexts: one of the two contexts if they are the same or the      *)
(* other is the background, else a new one.                                *)
(***************************************************************************)
MergeFirst(a, b, new) == IF a = b \/ b = Bg THEN a ELSE IF a = Bg THEN b ELSE a

MergeContexts(a, b, new) == IF a = b \/ b = Bg THEN a ELSE IF a = Bg THEN b ELSE new

\* The context of the execution.  Servers pass the executor's on as it is.
Outer == IF setup.kind = "server" THEN Executor ELSE MergeContexts(Request, Executor, O)

\* CopyForCancellable and CopyForHedge give each attempt a child of the execution's context.
HasPolicyCtx == setup.policy \in {"timeout", "hedge"}
ExecCtx(i)   == IF HasPolicyCtx THEN P(i) ELSE Outer

Inner(i) ==
  MergeContexts(IF setup.kind = "grpc" THEN Outer ELSE Request, ExecCtx(i), I(i))

Parents(c) ==
  CASE c = O    -> {R, E}
    [] c[1] = "I" -> {IF setup.kind = "grpc" THEN Outer ELSE Request, ExecCtx(c[2])}
    [] c[1] = "P" -> {Outer}
    [] OTHER    -> {}

\* A context made with context.WithCancel ends together with its parent, unless the parent is a
\* merged context: the context package then watches it from a goroutine, as MergeContexts does.
EndedWith(c) == {c} \cup {p \in made : p[1] = "P" /\ c = Outer /\ c # O}

Canceled(cs) == UNION {EndedWith(c) : c \in cs \cap made}

-----------------------------------------------------------------------------
\* The goroutine that waits for the parents of c.
Propagate(c) ==
  /\ c \in made \ done /\ Parents(c) \cap done # {}
  /\ done' = done \cup {c}
  /\ UNCHANGED <<setup, made, at, inner, body, expired, deferCancel, call, response>>

\* The owner of the request's or of the executor's context cancels it.
OwnerCancels(c) ==
  /\ c \in {Request, Executor} \ ({Bg} \cup done)
  /\ done' = done \cup EndedWith(c)
  /\ UNCHANGED <<setup, made, at, inner, body, expired, deferCancel, call, response>>

-----------------------------------------------------------------------------
(***************************************************************************)
(* An attempt.  Retries follow each other; hedges start while others run.  *)
(***************************************************************************)
Ready(i) ==
  /\ call = "running" /\ at[i] = "none"
  /\ i > 1 => /\ Outer \notin done
              /\ IF setup.policy = "hedge" THEN at[i - 1] # "none" ELSE at[i - 1] = "ended"

Send(i) ==
  /\ Ready(i)
  /\ at' = [at EXCEPT ![i] = "sent"]
  /\ inner' = [inner EXCEPT ![i] = Inner(i)]
  /\ made' = made \cup ({Inner(i), ExecCtx(i)} \cap Owned)
  /\ done' = done \cup IF HasPolicyCtx /\ Outer \in done THEN {P(i)} ELSE {}
  /\ UNCHANGED <<setup, body, expired, deferCancel, call, response>>

\* The timeout's timer: Cancel with a result, whatever the deferCancel flag says.
Expire(i) ==
  /\ setup.policy = "timeout"
  /\ at[i] \in {"sent", "answered", "failed"} /\ i \notin expired
  /\ expired' = expired \cup {i}
  /\ done' = done \cup {P(i)}
  /\ UNCHANGED <<setup, made, at, inner, body, deferCancel, call, response>>

\* reqFn returns a response.  An HTTP client wraps its body and calls DeferCancel; the others
\* cancel the attempt's context in any case.
Answer(i) ==
  /\ at[i] = "sent"
  /\ at' = [at EXCEPT ![i] = "answered"]
  /\ IF setup.kind = "http"
     THEN /\ body' = [body EXCEPT ![i] = "open"]
          /\ deferCancel' = TRUE
          /\ UNCHANGED done
     ELSE /\ done' = done \cup Canceled({I(i)})
          /\ UNCHANGED <<body, deferCancel>>
  /\ UNCHANGED <<setup, made, inner, expired, call, response>>

\* reqFn returns an error, as it does when its context is done.
Fail(i) ==
  /\ at[i] = "sent"
  /\ at' = [at EXCEPT ![i] = "failed"]
  /\ done' = done \cup Canceled({I(i)})
  /\ UNCHANGED <<setup, made, inner, body, expired, deferCancel, call, response>>

\* Cancel(nil) of the copy of the execution that attempt i was made with.
CancelUnlessDeferred(i) == IF deferCancel THEN {} ELSE Canceled({P(i)})

Returned(i) == at[i] \in {"answered", "failed"}

\* What a retry policy does with the result of an attempt before it decides: a timeout inside it
\* stops its timer and cancels its context.
Handled(i) ==
  /\ setup.policy # "hedge" /\ call = "running" /\ Returned(i)
  /\ at' = [at EXCEPT ![i] = "ended"]

HandleCancels(i) == IF i \in expired THEN {} ELSE CancelUnlessDeferred(i)

HandleAndGoOn(i) ==
  /\ Handled(i) /\ i < MaxAttempts /\ Outer \notin done
  /\ done' = done \cup HandleCancels(i)
  /\ UNCHANGED <<setup, made, inner, body, expired, deferCancel, call, response>>

-----------------------------------------------------------------------------
(***************************************************************************)
(* The end of the call.  A response is returned if it was not overtaken by *)
(* a timeout, by cancellation, or by the end of the retries.  Without one  *)
(* the outer context is canceled; the caller of the gRPC client gets no    *)
(* body in any case.                                                       *)
(***************************************************************************)
EndsEagerly(i) == Canceled({O})

EndsCall(i) == IF setup.kind = "http" /\ i # 0 THEN {} ELSE Canceled({O})

Ends(i, canceled) ==
  /\ call' = "returned"
  /\ response' = i
  /\ done' = done \cup canceled \cup EndsCall(i)
  /\ UNCHANGED <<setup, made, inner, body, expired, deferCancel>>

Responses(i) ==
  IF at[i] = "answered" /\ setup.kind = "http" /\ i \notin expired /\ Outer \notin done THEN {0, i} ELSE {0}

HandleAndReturn(i) ==
  /\ Handled(i)
  /\ \E r \in Responses(i) : Ends(r, HandleCancels(i))

\* Canceled between two attempts: while a retry waits for its delay, or when the delay of the next
\* hedge has passed.
ReturnCanceled ==
  /\ call = "running" /\ Outer \in done
  /\ \E i \in Attempts :
       /\ at[i] = "ended" \/ (setup.policy = "hedge" /\ at[i] # "none" /\ i < MaxAttempts)
       /\ \A j \in Attempts : j > i => at[j] = "none"
  /\ Ends(0, {})
  /\ UNCHANGED at

\* A hedge policy takes a result, cancels the attempt it belongs to, unless that is deferred, and
\* all others with a result.  When the parent is canceled it returns without canceling them.
ReturnHedge(i) ==
  /\ setup.policy = "hedge" /\ call = "running" /\ Returned(i)
  /\ at' = [at EXCEPT ![i] = "ended"]
  /\ IF Outer \in done THEN Ends(0, {})
     ELSE Ends(IF at[i] = "answered" /\ setup.kind = "http" THEN i ELSE 0,
               CancelUnlessDeferred(i) \cup Canceled({P(j) : j \in Attempts \ {i}}))

\* The caller closes the body it got.
CloseInnerOnly(i) == Canceled({I(i), P(i)})

CloseCancels(i) == Canceled({O, I(i)} \cup IF deferCancel THEN {P(i)} ELSE {})

Close(i) ==
  /\ call = "returned" /\ response = i /\ body[i] = "open"
  /\ body' = [body EXCEPT ![i] = "closed"]
  /\ done' = done \cup CloseCancels(i)
  /\ deferCancel' = FALSE
  /\ UNCHANGED <<setup, made, at, inner, expired, call, response>>

\* The attempts a hedge left behind have ended.
Settled == call = "returned" /\ UNCHANGED vars

-----------------------------------------------------------------------------
Init ==
  /\ setup \in Setups
  /\ made = {Outer, Request, Executor} \ {Bg}
  /\ done = {}
  /\ at = [i \in Attempts |-> "none"]
  /\ inner = [i \in Attempts |-> Bg]
  /\ body = [i \in Attempts |-> "none"]
  /\ expired = {}
  /\ deferCancel = FALSE
  /\ call = "running"
  /\ response = 0

Caller(i) == Send(i) \/ HandleAndGoOn(i) \/ HandleAndReturn(i) \/ ReturnHedge(i)

Next ==
  \/ \E c \in Owned : Propagate(c)
  \/ \E c \in {R, E} : OwnerCancels(c)
  \/ \E i \in Attempts : Caller(i) \/ Expire(i) \/ Answer(i) \/ Fail(i) \/ Close(i)
  \/ ReturnCanceled
  \/ Settled

(***************************************************************************)
(* Goroutines run, the caller closes the body it got, and what sends a     *)
(* request returns once the request's context is done.  Nothing makes it   *)
(* return before, and nobody has to cancel anything.                       *)
(***************************************************************************)
Fairness ==
  /\ \A c \in Owned : WF_vars(Propagate(c))
  /\ \A i \in Attempts :
       /\ WF_vars(Caller(i))
       /\ WF_vars(Close(i))
       /\ WF_vars(inner[i] \in done /\ Fail(i))
  /\ WF_vars(ReturnCanceled)

Spec == Init /\ [][Next]_vars /\ Fairness

-----------------------------------------------------------------------------
(***************************************************************************)
(* Properties.                                                             *)
(***************************************************************************)
OwnerCanceled == {R, E} \cap done # {}

\* No context is canceled early: that of a request in flight only by its timeout, by the end of the
\* call or by its owners, and that of a response that the caller got only by the owners, until the
\* body is closed (issue 123 of the changelog: merged contexts were canceled before that).
ContextsLiveWhileNeeded ==
  \A i \in Attempts : inner[i] \in done =>
    \/ OwnerCanceled
    \/ at[i] # "none" /\ i \in expired /\ response # i
    \/ at[i] # "sent" /\ body[i] # "open"
    \/ call = "returned" /\ response # i

\* A canceled request or executor ends the call, through whatever contexts were merged.
CanceledCallEnds == OwnerCanceled ~> call = "returned"

\* Once the call is over and the body of its response closed, the contexts made for it end, unless
\* a response was thrown away: nobody closes the body of one that is retried, times out or loses.
Discarded == \E i \in Attempts : body[i] = "open" /\ ~(call = "returned" /\ response = i)
Over == call = "returned" /\ (response = 0 \/ body[response] = "closed")

ContextsReleased == Over /\ ~Discarded ~> (made \cap Owned \subseteq done \/ Discarded)

=============================================================================
