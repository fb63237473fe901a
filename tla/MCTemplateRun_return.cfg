SPECIFICATION Spec
CONSTANTS
    Tags = {"a", "b", "c"}
    DefaultGotos = 30
    Templates <- ReturnTemplates
PROPERTY GotoFollowsContext
\* run ends
CHECK_DEADLOCK FALSE
