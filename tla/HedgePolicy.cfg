\* Two hedges and a retrying execution share a budget of one permit, or 15% of all executions.
CONSTANTS
    RetryUsers = {r1}
    Hedger = h
    minConcurrency = 1
    maxRate = 15
    maxHedges = 2
    Conditions <- Cancels
SPECIFICATION LiveSpec
INVARIANTS
    BudgetBalanced
    BudgetOvershootBounded
    NonFinalAnswerOnlyWhenAllIn
    NoAttemptOutlivesTheCall
PROPERTY HedgingEnds
