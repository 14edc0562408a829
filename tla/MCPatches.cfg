SPECIFICATION MCSpec
CONSTANTS
    Files = {"a", "b", "gen"}
    InScope = {"a", "gen"}
    Excluded = {"gen"}
    NoPatch = NoPatch
    MergeLast = 3
    MaxPatches = 2
    Integration = Integration
    Absent = Absent
    Lines <- TextLines
    Imports = {"import a", "import 'a'"}
    SameImport <- SameImports
    KeyOf <- LineKeys
    NoKey = "none"
    Dashed = {"-x"}
    LikeDivider = {"=="}
    Sides <- ConflictSides
    Reviews = {1, 2}
    Gated = {1}
    Required = {"security"}
    OnDemand = {"logic"}
    Keys = {"defect", "remark"}
    Remarks = {"remark"}
    Severities = {2, 3}
    Patches <- PatchesOfFiles
    MaxFiles = 3
    PageSize = 2
    MaxPages = 2
    ChunkFiles = 2
    ChunkLines = 3
    Runners = {"shell", "caller"}
INVARIANTS
    CaptureIsWhole
    MergedIsWhole
    ResolvedLosesNothing
    PassIsEarned
    ChunksKeepFiles
    CommentsHitTheirLines
CHECK_DEADLOCK FALSE
