CONSTANTS
    Click = {c1}
    c1 = c1
    Resets = 2
    maxRounds = 2
    Relay = {r1}
    r1 = r1
    Events <- MCEvents
    MaxRelayLists = 1
SPECIFICATION FairSpec
INVARIANT NothingForgotten
PROPERTIES
    RoundsEnd
    HeardInTheEnd
CHECK_DEADLOCK FALSE
