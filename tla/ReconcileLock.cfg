SPECIFICATION FairSpec
CONSTANTS
    w1 = w1  w2 = w2  w3 = w3  c1 = c1
    Nobody = Nobody
    Workers <- MCWorkers
    Callers <- MCCallers
    Timeout = 2
    MaxRun = 4
INVARIANTS TypeOK OverlapNeedsTimeout
PROPERTIES LockIsItsHolders ReconciliationRecurs
