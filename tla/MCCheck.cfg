CONSTANTS
    TESTS <- MCTests
    NoDevice = NoDevice
    Device = {1, 2}
    Check = {1, 2}
    Recheck = {2}
    MaxLosses = 1
    TEST_TIMEOUT = 0
    COMPILE_BUDGET = 1
    TEST_CEILING = 2
SPECIFICATION FairSpec
INVARIANTS
    UsesOwnObjects
    PassMeansTested
PROPERTIES
    TimeoutJustified
    ChecksEnd
CHECK_DEADLOCK FALSE
