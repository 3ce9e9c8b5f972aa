CONSTANTS
    d1 = d1
    d2 = d2
    user = user
    Event = {1, 2, 3, 4, 5, 6, 7}
    Participant = {d1, d2}
    Daemon = {d1, d2}
    Author = {d1, d2, user}
    User = user
    Chat = {1, 2}
    Channel = {3}
    ReplyTo = {1, 3, 4}
    MaxTags = 1
    EchoOwn = {TRUE}
    MaxFaults = 0
SPECIFICATION FairSpec
PROPERTY MessagesBecomeCanonical
CHECK_DEADLOCK FALSE
