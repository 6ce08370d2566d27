CONSTANTS
    Requests = {c1, c2}
    Tabs = {t1, t2}
    Numbers = {n1}
    Severities = {3}
    Versions = {1}
    InitialRows <- MCCreated
    NoRow = NoRow
    NoCall = NoCall
SYMMETRY MCSymmetry
SPECIFICATION Spec
CHECK_DEADLOCK FALSE
INVARIANT FormCarriesLastTag
