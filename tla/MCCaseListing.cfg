CONSTANTS
    Requests = {r1, r2}
    Numbers = {1, 2}
    Severities = {5}
    Versions = {1, 2}
    InitialRows <- MCRows
    NoRow = NoRow
    NoCall = NoCall
SYMMETRY MCSymmetry
SPECIFICATION ListingSpec
CHECK_DEADLOCK FALSE
INVARIANTS
    ListingIsCurrent
    ListingIsComplete
    OpenListingInOrder
