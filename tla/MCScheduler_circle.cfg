SPECIFICATION FairSpec
CONSTANTS
    t1 = t1
    t2 = t2
    w1 = w1
    w2 = w2
    Targets = {t1, t2}
    Workers = {w1, w2}
    Times = 1
    Source = "circle"
    Origins = {}
    JobCount = 2
    MaxFinds = 1
    MaxQueue = 2
    MaxCrashes = 1
    MaxFaults = 1
    MaxFills = 2
INVARIANTS
    CircleKeeps
PROPERTIES
    EveryTurn
\* nobody has to fill the circle
CHECK_DEADLOCK FALSE
