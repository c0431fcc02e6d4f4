SPECIFICATION Spec
CONSTANTS
    m1 = m1
    m2 = m2
    r1 = r1
    r2 = r2
    r3 = r3
    None = None
    Given <- MCGiven
    Requests <- MCRequests
    Languages <- MCLanguages
SYMMETRY MCSymmetry
INVARIANTS
    GroupsAreWhole
    RecordsFollowTheirModule
PROPERTIES
    ProgressIsKept
CHECK_DEADLOCK FALSE
