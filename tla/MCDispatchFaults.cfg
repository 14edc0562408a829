SPECIFICATION Spec
CONSTANTS
    a = a
    b = b
    c = c
    d = d
    Group <- Join
    Dep <- JoinDep
    Rank <- JoinRank
    MaxFixAttempts = 1
    MaxRuns = 2
    LiveFlush = TRUE
    IOFails = TRUE
INVARIANTS
    LedgerNeverOverclaims
    DispatchedAfterDependencies
    PartialAccountsForAll
    AllDoneAtCollect
\* A call ends: the routine returns or throws.
CHECK_DEADLOCK FALSE
