SPECIFICATION MFairSpec
CONSTANTS
    Consumers = {c1, c2}
    Producers = {p1, p2}
    Guards = {c1, c2, p1, p2}
    Enders = {e1}
    MaxRounds = 3
    MaxLocks = 6
    Plain = plain
    Gone = gone
    Idle = idle
    Trust = "granted"
INVARIANTS
    NoNotificationLost
    RoundsSettled
PROPERTY EveryoneEnds
