SPECIFICATION MCSpec
CONSTANTS
    a = a
    b = b
    Workers = {a}
    Turns <- EditAndFinish
    Gated = {"merge"}
    Publish = "pull_request"
    MaxTurns = 2
    MaxFaults = 1
    MaxClicks = 1
INVARIANT CallOnce
INVARIANT PublishedIsReal
PROPERTY SessionsRest
\* A closed session is left alone once the bounds are reached.
CHECK_DEADLOCK FALSE
