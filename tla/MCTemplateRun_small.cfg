SPECIFICATION Spec
CONSTANTS
    Tags = {"a", "b"}
    DefaultGotos = 1
    Templates <- SmallTemplates
INVARIANTS
    GotosBounded
    EndsOnce
PROPERTIES
    JumpLands
    Terminates
\* run ends
CHECK_DEADLOCK FALSE
