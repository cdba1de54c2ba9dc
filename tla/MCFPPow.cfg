CONSTANTS
    DIGITS = 2
    NoValue = NoValue
    Inputs <- MCInputs
SPECIFICATION Spec
INVARIANTS
    TypeOK
