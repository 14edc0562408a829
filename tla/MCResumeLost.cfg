SPECIFICATION ResumeSpec
CONSTANTS
    a = a
    b = b
    Group <- Groups
    Dep <- Dependencies
    MaxWork = 2
    Commands = {"repo", "none"}
INVARIANT AppliedWorkIsInTree
CHECK_DEADLOCK FALSE
