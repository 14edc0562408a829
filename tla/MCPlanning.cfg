SPECIFICATION MCSpec
CONSTANTS
    Sessions = {1, 2}
    Dispatching = {1}
    Lanes <- LaneSet
    Optional = {"spare"}
    Agents = {"hard"}
    LaneOf <- WorkLane
    Models = {1, 2, 3, 4}
    Plain <- PlainModel
    Bare = {2}
    Wants <- WantedLanes
    Fits <- AllFit
    Definitions <- ProfileFiles
    Registries <- Registered3
    MaxChanges = 1
    LaneNames <- WizardLaneNames
    AgentNames <- WizardAgentNames
    MultiProvider = {"logic"}
    Registered <- WizardModels
    ProviderOf <- WizardProvider
    LoggedIn = {"m1"}
    WithTools = {"m1", "m2"}
    Suited <- WizardSuited
    Levels = {"high"}
    MaxSaves = 2
    MaxWizards = 3
    None = None
    Torn = Torn
    Simple = {"design"}
    GroupNames = {1, 2}
    MaxPlannerRetries = 1
    MaxRepairs = 1
    MaxPrepares = 2
    Missing = Missing
    PlanReviewers <- Tiers
    Core = {"correctness", "integration"}
    MaxRetries = 1
    MaxVersion = 2
    Copies = {1, 2, 3}
    VersionOf <- ExtensionVersion
    Window = 20
    Threshold = 12
    MinDelta = 1
    Growth = {4, 9}
    Kept = {3}
    NoCopy = NoCopy
    Package <- PackageVersions
INVARIANTS
    EnsuredLanesWork
    NoModelTwice
    EndedSavesAreKept
    OfferedPlanIsWhole
    ApprovedWasReviewed
    HandoffFollows
    SuccessIsComplete
CHECK_DEADLOCK FALSE
