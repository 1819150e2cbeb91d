SPECIFICATION Spec
CONSTANTS
    k1 = k1  k2 = k2  k3 = k3  c1 = c1  c2 = c2  t1 = t1  t2 = t2  w1 = w1  w2 = w2
    None = None
    Keys <- MCTwoKeys
    ClientOf <- MCClientOf
    TypeOfEvent <- MCOneType
    Workers <- MCOneWorker
    Frequencies <- MCDailyWeekly
    MaxRuns = 2
    MaxTime = 3
    MaxSends = 2
    MaxFaults = 1
    MaxChanges = 1
    MaxLag = 1
INVARIANTS TypeOK BilledOnce
PROPERTIES ImplementsExactlyOnce UsageIsWriteOnce
CHECK_DEADLOCK FALSE
