SPECIFICATION Spec
CONSTANTS
    anna = anna
    tab1 = tab1
    tab2 = tab2
    german = german
    english = english
    g1 = g1
    g2 = g2
    e1 = e1
    None = None
    Learners <- OneLearner
    Viewers <- MCTabs
    OwnerOf <- Both
    Variants <- OneVariant
    PagesOf <- TwoPages
    MaxVersions <- TwoGerman
SYMMETRY OneLearnerSymmetry
INVARIANTS
    NoDeadlock
CHECK_DEADLOCK FALSE
