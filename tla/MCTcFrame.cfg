CONSTANTS
    Inputs <- MCInputs
    ULong = 131072
    NaN = NaN
SPECIFICATION TCSpec
INVARIANTS
    ParametersReadBack
    HeadersAgree
CHECK_DEADLOCK FALSE
