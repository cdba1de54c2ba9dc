CONSTANTS
    DIGITS = 2
    E_NUM = 271
    E_10_NUM = 2202646
    Inputs <- MCInputs
SPECIFICATION Spec
INVARIANTS
    TypeOK
    ExpExactAtIntegers
