SPECIFICATION Spec
CONSTANTS
    t1 = t1
    t2 = t2
    w1 = w1
    w2 = w2
    Targets = {t1}
    Workers = {w1, w2}
    Times = 1
    Source = "list"
    Origins = {"hot", "renew", "next"}
    JobCount = 2
    MaxFinds = 1
    MaxQueue = 1
    MaxCrashes = 1
    MaxFaults = 1
    MaxFills = 0
SYMMETRY Symmetry
INVARIANTS
    BanEarned
PROPERTIES
    NotForgotten
\* no target has to be found, and the work may be done
CHECK_DEADLOCK FALSE
