CONSTANTS
    DIGITS = 3
    Nums <- MCNums
    Shifts <- MCShifts
    NoValue = NoValue
    Malformed = Malformed
    Panic = Panic
SPECIFICATION Spec
INVARIANTS
    TypeOK
    RoundTruncates
    DivIntErrorBound
    WrapAgree
