SPECIFICATION Spec
CONSTANTS
    a = a
    b = b
    Workers = {a, b}
    Turns <- EditAndAsk
    Gated = {"write"}
    Publish = "pull_request"
    MaxTurns = 3
    MaxFaults = 1
    MaxClicks = 2
SYMMETRY Symmetric
INVARIANT ApprovedFirst
INVARIANT CarrierAgrees
PROPERTY ClosedIsFinal
PROPERTY NeverForgets
\* A closed session is left alone once the bounds are reached.
CHECK_DEADLOCK FALSE
