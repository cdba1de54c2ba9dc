CONSTANTS
    DIGITS = 2
    Inputs <- MCInputs
    NoValue = NoValue
    Pending = Pending
SPECIFICATION Spec
INVARIANT
    SqrtNeverAborts
