SPECIFICATION FairSpec
CONSTANTS
    p1 = p1  p2 = p2  night = night  manual = manual
    None = None
    Unbound = Unbound
    Projects <- MCProjects
    Period <- MCPeriod
    Runs <- MCRuns
    Night = night
    MaxTime = 2
    MaxFaults = 2
INVARIANTS TypeOK EarlyEndHasCause CompletedRunHasBilled
PROPERTIES BilledOrGone
