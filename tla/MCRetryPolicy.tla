--------------------------- MODULE MCRetryPolicy ---------------------------
(***************************************************************************)
(* Builder calls for TLC: every order of two calls that set delays, jitter *)
(* or limits, every order of two conditions, a delay with both kinds of    *)
(* jitter, the builders of the integrations, and two goroutines that share *)
(* an executor.                                                            *)
(***************************************************************************)
EXTENDS RetryPolicy

Call(op, arg) == [op |-> op, arg |-> arg]

DelayCalls ==
  { Call("WithDelay", 2), Call("WithDelay", 0), Call("WithBackoff", <<1, 3>>), Call("WithRandomDelay", <<2, 4>>),
    Call("WithJitter", 2), Call("WithJitterFactor", 3), Call("WithDelayFunc", 0),
    Call("WithMaxDuration", 3), Call("WithMaxRetries", 3) }

ConditionCalls ==
  { Call("HandleErrors", {"transient", "canceled"}), Call("HandleResult", "busy"), Call("HandleResult", "zero"),
    Call("HandleIf", {"busy", "internal"}), Call("AbortOnErrors", {"canceled"}),
    Call("AbortOnResult", "busy"), Call("AbortIf", {"internal"}),
    Call("ReturnLastFailure", 0), Call("WithBudget", 0), Call("WithMaxAttempts", 2),
    Call("WithMaxRetries", 0), Call("WithMaxAttempts", -1) }

Alone(cs) == [calls |-> cs, runners |-> {1}]

MCUses ==
  {Alone(<<a, b>>) : a, b \in DelayCalls} \cup
  {Alone(<<a, b>>) : a, b \in ConditionCalls} \cup
  {Alone(<<Call(b, 0), c>>) : b \in {"http", "grpc"}, c \in DelayCalls \cup ConditionCalls} \cup
  {Alone(<<Call("WithBackoff", <<1, 3>>), Call("WithDelayFunc", 0), Call("WithMaxRetries", 3)>>),
   Alone(<<Call("WithMaxDuration", 3), Call("WithRandomDelay", <<2, 4>>), Call("WithJitter", 2)>>),
   Alone(<<Call("WithDelay", 2), Call("WithJitter", 1), Call("WithJitterFactor", 4)>>),
   Alone(<<Call("WithDelay", 2), Call("WithJitterFactor", 4), Call("WithJitter", 1)>>)} \cup
  {[calls |-> <<Call("WithMaxRetries", n)>>, runners |-> {1, 2}] : n \in {1, 2}}

=============================================================================
