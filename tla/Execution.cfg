\* Asynchronous and synchronous executions, canceled by anyone at any time, and ones that defer.
SPECIFICATION LiveSpec
CONSTANT Configs <- AllConfigs
INVARIANTS
    AttemptsMatchExecutions
    AttemptsBounded
    TimeoutAnswerAgrees
    ChildContextsReleased
PROPERTIES
    NoRetryWhenCanceled
    ExecutionEnds
