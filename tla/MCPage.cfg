CONSTANTS
    WORKGROUP_SIZE = 1
    KEYS_PER_THREAD = 1
    OFFSET_TABLE_BITS = 1
    MAX_KEYS_PER_DISPATCH = 2
    MAX_RECOVERY_ATTEMPTS = 1
    Loop = {l1, l2}
    Device = {g1, g2}
    NoDevice = NoDevice
    RangeStart = 4
    RangeEnd = 4
    MaxRechecks = 2
    l1 = l1
    l2 = l2
    g1 = g1
    g2 = g2
SPECIFICATION PageSpec
SYMMETRY MCSymmetry
INVARIANTS
    OneSearch
    StopAvailable
    StartOffered
