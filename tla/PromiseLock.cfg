SPECIFICATION FairSpec
CONSTANTS
    Users = {u1, u2}
    Body = body
    Ops = {"Done", "Resolved", "Rejected", "Value", "Exception", "UseCount",
           "WaitDone", "WaitAwaited", "Resolve", "Reject", "Await", "Then"}
    Nested = {"UseCount"}
    Kinds = {"coroutine", "resolver", "bare"}
    MaxCalls = 2
    WritersFirst = TRUE
CHECK_DEADLOCK FALSE
INVARIANTS
    NoDataRace
    LocksOnce
    AnswersHold
PROPERTIES
    EveryCallReturns
