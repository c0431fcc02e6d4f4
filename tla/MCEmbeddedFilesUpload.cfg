SPECIFICATION Spec
CONSTANTS
    t1 = t1
    t2 = t2
    f1 = f1
    f2 = f2
    m1 = m1
    None = None
    Authors <- MCAuthors
    Makers <- NoMaker
    Files <- MCFiles
    MaxVersions = 1
SYMMETRY MCSymmetry
PROPERTIES
    UploadGivesItsOwn
CHECK_DEADLOCK FALSE
