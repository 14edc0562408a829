SPECIFICATION FairSpec
CONSTANTS
    a = a
    b = b
    c = c
    d = d
    Group <- Plan
    Dep <- PlanDep
    Rank <- PlanRank
    MaxFixAttempts = 1
    MaxRuns = 2
    LiveFlush = FALSE
    IOFails = FALSE
PROPERTIES
    Terminates
\* A call ends: the routine returns or throws.
CHECK_DEADLOCK FALSE
