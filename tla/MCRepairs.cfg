SPECIFICATION MCSpec
CONSTANTS
    a = a
    b = b
    Group <- Groups
    Dep <- Dependencies
    MaxWork = 2
    Commands = {"repo", "plan", "none"}
    LastGroup = 3
    WithPatches = {1, 2, 3}
    MaxResolutions = 1
    Finding = {1, 2, 3}
    FamilyOf <- Families
    FileOf <- FilesOfFindings
    Reports <- ReviewReports
    MaxAttempts = 2
    MaxRounds = 2
INVARIANTS
    CompletedIsVouchedFor
    FinishedWorkIsKept
    FixAccounts
PROPERTIES
    AppliedWhenCovered
    RepairsEnd
CHECK_DEADLOCK FALSE
