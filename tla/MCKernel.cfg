CONSTANTS
    WORKGROUP_SIZE = 2
    KEYS_PER_THREAD = 3
    OFFSET_TABLE_BITS = 2
    MAX_KEYS_PER_DISPATCH = 12
    MAX_RECOVERY_ATTEMPTS = 1
    P = 43
    N = 31
    GX = 2
    GY = 12
    KEY_BITS = 5
    Key = {1, 2, 3, 6, 7, 9, 15, 18}
    HASHES = 7
    MAX_HITS = 2
    Unwritten = Unwritten
SPECIFICATION Spec
INVARIANTS
    HitsKept
    ThreadsScan
    ShaderMultiplies
CHECK_DEADLOCK FALSE
