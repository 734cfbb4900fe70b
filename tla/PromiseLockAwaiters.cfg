SPECIFICATION FairSpec
CONSTANTS
    Users = {u1, u2}
    Body = body
    Ops = {"Awaiters", "Resolve"}
    Nested = {}
    Kinds = {"bare"}
    MaxCalls = 1
    WritersFirst = TRUE
CHECK_DEADLOCK FALSE
PROPERTIES
    EveryCallReturns
