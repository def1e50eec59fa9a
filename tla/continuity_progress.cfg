SPECIFICATION FairSpec
CONSTANTS
    s1 = s1
    s2 = s2
    s3 = s3
    f1 = f1
    f2 = f2
    Sessions = {s1, s2}
    Flows = {f1, f2}
    Workers = {"office", "codex"}
    Native = {"office"}
    None = None
    Requests = {"start"}
    MaxFaults = 0
    Stalls = FALSE
PROPERTY EndedLetsGo
CHECK_DEADLOCK FALSE
