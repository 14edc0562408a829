SPECIFICATION Spec
CONSTANTS
    gA = gA
    gB = gB
    gC = gC
    user = user
    NoGroup = NoGroup
    Group = {gA, gB}
    User = user
    Rank <- MCRank
    Callers = {"finalize", "ledger", "resume"}
INVARIANT FailureLeavesBase
INVARIANT Recoverable
INVARIANT WholeCallsLedgerTellsTree
\* Nobody has to call, recover or commit again.
CHECK_DEADLOCK FALSE
