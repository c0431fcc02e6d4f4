SPECIFICATION Spec
CONSTANTS
    anna = anna
    tab1 = tab1
    tab2 = tab2
    german = german
    english = english
    g1 = g1
    g2 = g2
    e1 = e1
    None = None
    Learners <- OneLearner
    Viewers <- MCTabs
    OwnerOf <- Both
    Variants <- TwoVariants
    PagesOf <- OnePageEach
    MaxVersions <- OneEach
SYMMETRY VariantSymmetry
PROPERTIES
    VariantMovesOnlyOnSwitch
    EvidenceKept
    ImplementsRecord
CHECK_DEADLOCK FALSE
