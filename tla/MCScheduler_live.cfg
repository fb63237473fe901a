SPECIFICATION FairSpec
CONSTANTS
    t1 = t1
    t2 = t2
    w1 = w1
    w2 = w2
    Targets = {t1, t2}
    Workers = {w1}
    Times = 1
    Source = "list"
    Origins = {"spider"}
    JobCount = 1
    MaxFinds = 2
    MaxQueue = 2
    MaxCrashes = 1
    MaxFaults = 0
    MaxFills = 0
INVARIANTS
    RowsBounded
PROPERTIES
    TimesNeverDecrease
    Settles
\* no target has to be found, and the work may be done
CHECK_DEADLOCK FALSE
