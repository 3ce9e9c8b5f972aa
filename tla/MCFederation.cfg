CONSTANTS
    d1 = d1
    d2 = d2
    user = user
    Event = {1, 2, 3, 4, 5}
    Participant = {d1, d2}
    Daemon = {d1, d2}
    Author = {d1, d2, user}
    User = user
    Chat = {1, 2}
    Channel = {}
    ReplyTo = {1, 2, 3, 4, 5}
    MaxTags = 1
    EchoOwn = {TRUE, FALSE}
    MaxFaults = 1
SPECIFICATION Spec
SYMMETRY MCSymmetry
INVARIANTS
    DagAsSpecified
    CanonicalHeldByQuorum
PROPERTY AckCoversGraph
CHECK_DEADLOCK FALSE
