CONSTANTS
    HALF_BITS = 2
    LIMBS = 3
    C977 = 7
    P = 4073
    Operand <- MCOperand
SPECIFICATION CallSpec
INVARIANTS
    Exact
    TwoPassesSuffice
CHECK_DEADLOCK FALSE
