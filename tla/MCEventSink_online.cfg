SPECIFICATION FairSpec
CONSTANTS
    Retries = 2
    OnLine = TRUE
    MaxEvents = 3
    MaxCrashes = 1
INVARIANTS
    CopiesBounded
    NothingForgotten
PROPERTIES
    LateOnlyIfAbandoned
    Contract
    BufferDrains
\* everything may be accepted, sent and received
CHECK_DEADLOCK FALSE
