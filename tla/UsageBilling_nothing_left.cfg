SPECIFICATION FairSpec
CONSTANTS
    k1 = k1  k2 = k2  k3 = k3  c1 = c1  c2 = c2  t1 = t1  t2 = t2  w1 = w1  w2 = w2
    None = None
    Keys <- MCTwoKeys
    ClientOf <- MCOneClient
    TypeOfEvent <- MCOneType
    Workers <- MCTwoWorkers
    Frequencies <- MCDailyWeekly
    MaxRuns = 3
    MaxTime = 3
    MaxSends = 1
    MaxFaults = 1
    MaxChanges = 0
    MaxLag = 0
INVARIANTS NothingLeftBehind
PROPERTIES AcceptedIsRecorded
CHECK_DEADLOCK FALSE
