CONSTANTS
    WORKGROUP_SIZE = 1
    KEYS_PER_THREAD = 2
    OFFSET_TABLE_BITS = 2
    MAX_KEYS_PER_DISPATCH = 5
    MAX_RECOVERY_ATTEMPTS = 1
    Loop = {l1}
    Device = {g1, g2, g3}
    NoDevice = NoDevice
    RangeStart = 6
    RangeEnd = 11
    l1 = l1
    g1 = g1
    g2 = g2
    g3 = g3
SPECIFICATION FairSpec
INVARIANTS
    SizeInBounds
    StridesAgree
PROPERTIES
    HitsExact
    StoppedEnds
