CONSTANTS
    Requests = {r1, r2}
    Numbers = {n1}
    Severities = {3, 6}
    Versions = {1, 2}
    InitialRows <- MCInitialRows
    Roles <- MCRoles
    Anonymous = Anonymous
    IfMatches <- MCIfMatches
    Supplied <- MCSupplied
    InvalidIds = {"!"}
    MaxVersion = 12
    NoRow = NoRow
    NoCall = NoCall
    NoHeader = NoHeader
    NoRequest = NoRequest
    NoResponse = NoResponse
SPECIFICATION FairSpec
CHECK_DEADLOCK FALSE
INVARIANTS
    TypeOK
    ClientErrorMeansNoEffect
    StrongValidator
    CorrelationIdsTellRequestsApart
PROPERTIES
    OnlyAskedForChanges
    UsesVersionedCases
    EveryRequestEnds
