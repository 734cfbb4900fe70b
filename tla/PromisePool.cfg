SPECIFICATION FairSpec
CONSTANTS
    Workers = {w1, w2}
    Coros = {c1, c2}
    Switches = {s1, s2}
    Functions = {}
    Callbacks = {k1}
    Delayed = {s2}
    Careful = TRUE
CHECK_DEADLOCK FALSE
INVARIANTS
    AcceptedOrRefused
    OnPoolThread
PROPERTIES
    EveryDispatchSettles
