CONSTANTS
    Requests = {r1, r2}
    Numbers = {n1}
    Severities = {3, 6}
    Versions = {1, 2}
    MaxRetryCount = 1
    InitialRows <- MCCreated
    NoRow = NoRow
    NoCall = NoCall
SYMMETRY MCSymmetry
SPECIFICATION Spec
CHECK_DEADLOCK FALSE
INVARIANT ConflictMeansNoMutation
