SPECIFICATION FairSpec
CONSTANTS
    Pages = {"app", "qr"}
    Codes = {"password2"}
    MaxCrawls = 2
    MaxSends = 2
    MaxTimeouts = 1
    MaxSays = 2
INVARIANTS
    Followed
    MeetsItsQuestion
    FormReaches
PROPERTY Settles
\* everything may be over, and nobody has to press a button
CHECK_DEADLOCK FALSE
