--------------------------- MODULE MCPrioritizer ---------------------------
(* Configurations for TLC: a limiter with two racing calibrators, two limiters and two throttlers *)
(* that share a prioritizer, and a limiter that is never full, with a usage tracker. *)
EXTENDS Prioritizer, TLC

CONSTANTS u1, u2, u3, p1, p2, k1, k2

Ctx(user, priority, level) == [user |-> user, priority |-> priority, level |-> level]

MCConfigs ==
  { [policies |-> {p1}, throttlers |-> {}, usage |-> FALSE,
     calibrators |-> {k1, k2}, scheduled |-> {k2}, queue |-> 3, hop |-> "local",
     contexts |-> {Ctx(-1, -1, -1), Ctx(-1, 1, -1)}],
    [policies |-> {p1, p2}, throttlers |-> {}, usage |-> FALSE,
     calibrators |-> {k1}, scheduled |-> {}, queue |-> 2, hop |-> "pass",
     contexts |-> {Ctx(-1, -1, -1), Ctx(-1, 1, 3)}],
    [policies |-> {p1, p2}, throttlers |-> {p1, p2}, usage |-> FALSE,
     calibrators |-> {k1}, scheduled |-> {}, queue |-> 0, hop |-> "ensure",
     contexts |-> {Ctx(-1, 0, -1)}],
    [policies |-> {p1}, throttlers |-> {}, usage |-> TRUE,
     calibrators |-> {k1}, scheduled |-> {}, queue |-> -1, hop |-> "local",
     contexts |-> {Ctx(u1, 1, -1)}] }
=============================================================================
