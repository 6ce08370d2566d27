CONSTANTS
    Requests = {r1, r2}
    Numbers = {n1}
    Severities = {3, 6}
    Versions = {1, 2}
    InitialRows <- MCWorked
    NoRow = NoRow
    NoCall = NoCall
SYMMETRY MCSymmetry
SPECIFICATION Spec
CHECK_DEADLOCK FALSE
INVARIANT CreateReturnsVersionOne
