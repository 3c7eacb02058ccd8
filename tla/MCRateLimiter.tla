--------------------------- MODULE MCRateLimiter ---------------------------
(* Builder calls for TLC: two smooth limiters and two bursty ones. *)
EXTENDS RateLimiter

Builder(new, maxExecutions, per, maxWaitTime) ==
  [new |-> new, maxExecutions |-> maxExecutions, period |-> per, maxWaitTime |-> maxWaitTime]

MCBuilders ==
  { Builder("NewSmoothBuilder", 2, 5, 2),
    Builder("NewSmoothBuilderWithMaxRate", 1, 3, 0),
    Builder("NewBurstyBuilder", 2, 2, 3),
    Builder("NewBurstyBuilder", 1, 3, 0) }

MCBurstyBuilders == { Builder("NewBurstyBuilder", 2, 2, 0) }

MCRequests == {0, 1, 3}
MCMaxWaits == {-1, 1}

=============================================================================
