SPECIFICATION Spec
CONSTANTS
    c1 = c1
    c2 = c2
    Clients = {c1, c2}
    Keys = {}
    Cap = 2
    MaxTicks = 0
    MaxRequests = 2
    MaxSteps = 1
    OutPubKey = FALSE
    InCrawling = TRUE
SYMMETRY Symmetry
INVARIANTS
    OneOutcome
    OutcomeReachable
    FinishedIsAnnounced
    OnlyCrawlingAfterOutcome
    StrandedIsKnown
    LeaksAreKnown
PROPERTIES
    Contract
\* goroutines may all be gone, or blocked for ever on a nil channel
CHECK_DEADLOCK FALSE
