SPECIFICATION FairSpec
CONSTANTS
    Guards = {g1, g2, g3}
    MaxLocks = 5
    Plain = plain
    Gone = gone
    Idle = idle
    Trust = "granted"
INVARIANTS
    MutualExclusion
    MutexAssertions
    HeldByOneGuard
    Fifo
PROPERTY EveryLockGranted
