SPECIFICATION FairSpec
CONSTANTS
    c1 = c1
    c2 = c2
    Clients = {c1, c2}
    Keys = {"randcode"}
    Cap = 1
    MaxTicks = 0
    MaxRequests = 1
    MaxSteps = 1
    OutPubKey = TRUE
    InCrawling = FALSE
PROPERTIES
    RequestsEnd
    NoneLostAfterExpiry
    RunUnblocks
    CacheDrains
\* goroutines may all be gone, or blocked for ever on a nil channel
CHECK_DEADLOCK FALSE
