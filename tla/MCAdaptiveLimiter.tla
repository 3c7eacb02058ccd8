------------------------- MODULE MCAdaptiveLimiter -------------------------
(* Limiters for TLC: queueing with a listener, and plain ones. *)
EXTENDS AdaptiveLimiter

MCConfigs ==
  { [queueing |-> TRUE, maxWait |-> TRUE, listener |-> TRUE],
    [queueing |-> FALSE, maxWait |-> TRUE, listener |-> FALSE],
    [queueing |-> FALSE, maxWait |-> FALSE, listener |-> TRUE] }
=============================================================================
