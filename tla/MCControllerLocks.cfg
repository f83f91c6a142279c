CONSTANTS
    t1 = t1
    t2 = t2
    Threads <- MCThreads
    CalledBy <- Anything
    MaxDepth = 2
    MaxCalls = 4
SPECIFICATION Spec
SYMMETRY ThreadSymmetry
INVARIANTS
    TypeOK
    DeadlockExplained
CHECK_DEADLOCK FALSE
