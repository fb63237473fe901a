SPECIFICATION Spec
CONSTANTS
    Started = {"jd_buyer", "jd_shop", "gjp_login", "lagou", "taobao_ua", "taobaoSearch", "tianyancha_longtime", "tianyancha_long", "chinatax"}
    Cap = 10
    PipeCap = 10
    MaxLines = 30
INVARIANTS
    VerdictIsFreshButGjp
    HangsAreKnown
    RoundsSuffice
    SuccessIsEarnedButTwice
PROPERTIES
    ImplementsBridge
    ProcessEnds
\* a process may hang, and a template block for ever
CHECK_DEADLOCK FALSE
