SPECIFICATION Spec
CONSTANTS
    Turns <- SessionTurns
    Publishes <- OnGitHub
    MaxTurns = 3
    MaxText = 2
    MaxErrors = 2
    MaxGate = 2
    MaxCi = 1
    MaxPolls = 0
    MaxWaits = 0
    Expected = 3
    KeepRecent = 1
    Batch = 1
    CompactAt = 2
    MaxReplies = 1
    MaxResumes = 1
    MaxCrashes = 1
    Values <- TwoFigures
    Drafts <- Texts
    Drills <- StageDrills
    Kinds <- StageKinds
    MaxAttempts = 2
    MaxFaults = 1
    Messages = 2
    HubJobs <- HubJob
    Asks <- Question
    Limit = 2
    HubLimit = 3
    Rate = 1
    MaxMishaps = 1
INVARIANTS ShipsOnlyTrueFigures HandoffPerEdge HeardAndToldOnce WhatTheModelReads PublishedPassedGate
PROPERTIES ImplementsAccount Finishes
CHECK_DEADLOCK FALSE
