SPECIFICATION HubSpec
CONSTANTS
    Tasks <- RevisionTasks
    Deps <- RevisionDeps
    Sequence <- RevisionSequence
    Batches <- RevisionBatches
    Kind <- RevisionKind
    Employee <- RevisionEmployee
    Root = "plan"
    MaxAttempts = 2
    MaxWaits = 1
    Slots = 2
    LostHeartbeats = FALSE
    Tabs = {}
    OwnerActions = {}
    MaxClicks = 0
    MaxCalls = 2
    MaxRows = 2
    MinDrop = 2
    Stale = 4
    Horizon = 4
    InAll = 7
    AtStart = 5
    Instant <- BoardInstants
    Hidden <- BoardTests
    Loose <- BoardLoose
    PageSize = 2
    SinceCap = 3
    MaxRefreshes = 2
INVARIANT BuildsOnDelivered
INVARIANT NeverStranded
INVARIANT PlanIsWhole
INVARIANT GivesUpOnlyAfterBudget
INVARIANT BoardHasNoHole
INVARIANT ViewsAreTrue
INVARIANT WatchTells
INVARIANT FiguresAddUp
CHECK_DEADLOCK FALSE
