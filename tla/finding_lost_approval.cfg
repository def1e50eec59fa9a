SPECIFICATION Spec
CONSTANTS
    a = a
    b = b
    Workers = {a}
    Turns <- EditAndAsk
    Gated = {"write"}
    Publish = "branch"
    MaxTurns = 2
    MaxFaults = 0
    MaxClicks = 1
INVARIANT AwaitingIsAsked
CHECK_DEADLOCK FALSE
