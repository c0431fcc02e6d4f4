SPECIFICATION Spec
CONSTANTS
    r1 = r1
    r2 = r2
    copy = copy
    a1 = a1
    a2 = a2
    a3 = a3
    a4 = a4
    None = None
    Requests <- MCRequests
    Original = original
    Copies <- MCCopies
    Assets <- FourAssets
    Quota = 2
SYMMETRY MCSymmetry
INVARIANTS
    TypeOK
    RowsHaveObjects
    ObjectsAreAccountedFor
    QuotaOvershoot
PROPERTIES
    DeleteEmptiesModule
CHECK_DEADLOCK FALSE
