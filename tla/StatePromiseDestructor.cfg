SPECIFICATION Spec
CONSTANTS
    Waiters = {w1}
    Reentrant = {}
    MaxResets = 0
    MaxDepth = 1
CHECK_DEADLOCK FALSE
INVARIANT VoidMeansReady
