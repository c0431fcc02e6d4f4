SPECIFICATION FairSpec
CONSTANTS
    t1 = t1
    t2 = t2
    p1 = p1
    p2 = p2
    p3 = p3
    None = None
    Tabs <- MCTabs
    PageIds <- MCPageIds
    MaxPages = 2
    MaxChanges = 5
SYMMETRY MCSymmetry
INVARIANTS
    TypeOK
    TokenVouchesForView
    ContiguousPositions
    VersionNumbering
PROPERTIES
    NoBlindWrite
    EveryEditIsClaimed
    ServedOnlyByPublish
    DeletedIsTerminal
    ImplementsRegister
    RequestsEnd
