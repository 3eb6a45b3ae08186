SPECIFICATION FairSpec
CONSTANTS
    g1 = g1
    g2 = g2
    t1 = t1
    t2 = t2
    t3 = t3
    pod = pod
    tmp = tmp
    Goroutine = {g1, g2}
    Thread = {t1, t2, t3}
    Home = Home
    Named = {pod}
    Temp = {tmp}
    None = None
    MaxDepth = 2
    MaxCalls = 3
    MaxFaults = 2
INVARIANTS
    TypeOK
    RunsInTarget
    NothingLeftBehind
PROPERTY CallsReturn
CHECK_DEADLOCK FALSE
