SPECIFICATION OwnerSpec
CONSTANTS
    Tasks <- ChainTasks
    Deps <- ChainDeps
    Sequence <- ChainSequence
    Batches <- ChainBatches
    Kind <- ChainKind
    Employee <- ChainEmployee
    Root = "plan"
    MaxAttempts = 2
    MaxWaits = 0
    Slots = 2
    LostHeartbeats = TRUE
    Tabs = {"tab1","tab2"}
    OwnerActions = {"stop","resume"}
    MaxClicks = 2
    Screens <- JobThenHome
    MaxChanges = 3
    MaxMishaps = 1
    MaxActions = 2
INVARIANT AnswersStand
INVARIANT RunningIsRecoverable
PROPERTY ImplementsObjective
CHECK_DEADLOCK FALSE
INVARIANTS ScreenKeepsUp EvidenceDecides
PROPERTY DeadRoutesRest
