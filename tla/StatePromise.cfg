SPECIFICATION Spec
CONSTANTS
    Waiters = {w1, w2, w3}
    Reentrant = {"wait", "ready", "done"}
    MaxResets = 2
    MaxDepth = 3
SYMMETRY Symmetric
CHECK_DEADLOCK FALSE
INVARIANTS
    DoneUnblocksAll
    NoneForgotten
PROPERTIES
    VoidMeansReadyFirst
    EndMeansDoneFirst
