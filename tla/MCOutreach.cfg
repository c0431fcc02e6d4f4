SPECIFICATION Spec
CONSTANTS
    anna = anna
    ben = ben
    p1 = p1
    p2 = p2
    s1 = s1
    s2 = s2
    None = None
    Team = team
    Learners <- OneLearner
    Assigners <- MCAssigners
    Standing <- MCStanding
    Senders <- MCSenders
    Dues <- OneDue
    LastDay = 1
    MaxChanges = 1
SYMMETRY MCSymmetry
INVARIANTS
    TypeOK
    OneMailADay
    NudgesTakeTurns
    EveryoneWasTold
    AssignedOnlyInFlight
PROPERTIES
    NobodyIsMissed
CHECK_DEADLOCK FALSE
