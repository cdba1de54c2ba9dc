CONSTANTS
    DIGITS = 2
    Inputs <- MCInputs
    NoValue = NoValue
    Pending = Pending
SPECIFICATION Spec
INVARIANTS
    TypeOK
    SqrtFloorOnConvergence
PROPERTIES
    SqrtImplementsContract
