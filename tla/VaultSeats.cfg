CONSTANTS
    Account = {a, b}
    Worker = {w1, w2}
    MaxRequests = 2
    MaxPushes = 1
SPECIFICATION Spec
SYMMETRY Symmetry
CHECK_DEADLOCK FALSE
INVARIANTS TypeOK CanonicalOwns CyclesNeedDeletion
PROPERTIES WritersAreMembers EndsLawfully
