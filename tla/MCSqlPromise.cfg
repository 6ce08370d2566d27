CONSTANTS
    Requests = {r1, r2}
    Numbers = {n1}
    Severities = {3, 6}
    Versions = {1, 2}
    MaxRetryCount = 2
    InitialRows <- MCWorked
    NoRow = NoRow
    NoCall = NoCall
SPECIFICATION FairSpec
CHECK_DEADLOCK FALSE
PROPERTIES
    EveryCallEnds
    ImplementsVersionedCases
