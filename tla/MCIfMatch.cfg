CONSTANTS
    MaxVersion = 12
    Headers <- MCHeaders
    NoHeader = NoHeader
SPECIFICATION Spec
CHECK_DEADLOCK FALSE
INVARIANTS
    OneStrongTag
    RoundTrip
