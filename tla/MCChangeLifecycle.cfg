SPECIFICATION MCSpec
CONSTANTS
    Run = {r1, r2, r3}
    NoRun = NoRun
    PlanEntry = PlanEntry
    MaxDrafts = 2
    Analysts = {1, 2}
    Descriptions = {"map", "recon"}
    Paths = {"src"}
    Structures = {"main", "topic"}
    MaxMoves = 2
    MaxAnalyses = 3
    Nothing = Nothing
    Tracked = {1, 2}
    ChangeOf <- ChangeOfRun
    Children = {"runs", "index", "failed"}
    FailedNames = {"failed"}
    MentionedIn <- Mentioned
    StaleDays = 2
    FailedDays = 1
    OlderThan = {0}
    LastDay = 3
    MaxCleans = 1
SYMMETRY RunSymmetry
INVARIANTS
    UnfinishedAreListed
    OneUnfinished
    PlanPinned
    FreshShowsPresent
PROPERTY
    RecentRunsKept
CHECK_DEADLOCK FALSE
