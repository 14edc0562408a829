SPECIFICATION MCSpec
CONSTANTS
    a = a
    b = b
    c = c
    w = w
    v = v
    u = u
    x = x
    head = head
    lineage = lineage
    Task <- Tasks
    Index <- TaskIndex
    Workspace <- Spaces
    Homes <- TaskHomes
    Staging = {w}
    Concurrent = {}
    Needs <- TaskNeeds
    Ref = {lineage}
    NoRef = head
    MaxRetries = 1
    MaxAttempts = 3
    Concurrency = 2
    Group <- Groups
    File = {f}
    Rank <- GroupRank
INVARIANTS
    RetryBudget
    PatchesAreOwnWork
    WorkersKeepApart
    OrderSound
PROPERTIES
    CallsReturn
\* A dispatch ends with its results, and a sort with its order.
CHECK_DEADLOCK FALSE
