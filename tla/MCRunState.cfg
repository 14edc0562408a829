SPECIFICATION FairSpec
CONSTANTS
    create = create
    addA = addA
    addB = addB
    addC = addC
    setPhase = setPhase
    groups = groups
    phase = phase
    NoDoc = NoDoc
    None = None
    Creator = create
    Task = {create, addA, addB, setPhase}
    Appender = {addA, addB}
    Field = {groups, phase}
    Target <- MCTarget
INVARIANT NoStaleMerge
INVARIANT IsolatedAppendsKept
PROPERTY ImplementsStore
PROPERTY StartedCallsSettle
\* Every call has settled: nothing is left to do.
CHECK_DEADLOCK FALSE
