SPECIFICATION FairSpec
CONSTANTS
    o1 = o1  o2 = o2
    None = None
    Old <- MCTwoOld
    MaxRequests = 3
    MaxMishaps = 1
INVARIANTS TypeOK SessionsOverlap
PROPERTIES TokenSpentOnce EveryRequestEnds
CHECK_DEADLOCK FALSE
