CONSTANTS
    Requests = {r1, r2, r3}
    Numbers = {n1}
    Severities = {3, 6}
    Versions = {1, 2}
    InitialRows <- MCCreated
    NoRow = NoRow
    NoCall = NoCall
SPECIFICATION FairSpec
CHECK_DEADLOCK FALSE
INVARIANTS
    TypeOK
    NoLostUpdate
    OneRepresentationPerVersion
PROPERTIES
    EveryCallEnds
    ImplementsVersionedCases
