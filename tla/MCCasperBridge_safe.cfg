SPECIFICATION Spec
CONSTANTS
    Cap = 2
    PipeCap = 2
    MaxLines = 7
INVARIANTS
    RightAnswer
    BlocksOnlyAfterGivingUp
\* a template may block for ever, and the process wait for ever for it
CHECK_DEADLOCK FALSE
