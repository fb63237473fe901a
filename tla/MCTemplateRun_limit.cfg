SPECIFICATION Spec
CONSTANTS
    Tags = {"a"}
    DefaultGotos = 30
    Templates <- LimitTemplates
INVARIANT GotoTimesIsTheMaximum
\* run ends
CHECK_DEADLOCK FALSE
