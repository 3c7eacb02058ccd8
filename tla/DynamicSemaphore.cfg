\* Every interleaving of three callers with resizes between zero and two permits.
SPECIFICATION LiveSpec
CONSTANTS
    c1 = c1
    c2 = c2
    c3 = c3
    Callers = {c1, c2, c3}
    Sizes = {0, 1, 2}
INVARIANTS
    TypeOK
    PermitsConserved
    WaitersOnlyWhenFull
PROPERTIES
    NeverOverAdmits
    ImplementsPermitPool
    BlockedCallerServed
