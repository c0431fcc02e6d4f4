SPECIFICATION Spec
CONSTANTS
    r1 = r1
    r2 = r2
    r3 = r3
    First = first
    None = None
    Requests <- MCRequests
SYMMETRY MCSymmetry
INVARIANTS
    SessionsAreExplained
    OneTimeItems
    EnabledWasConfirmed
    ErasedStaysErased
PROPERTIES
    EndedStaysEnded
CHECK_DEADLOCK FALSE
