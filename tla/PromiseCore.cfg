SPECIFICATION FairSpec
CONSTANTS
    Resolves = {r1}
    Rejects = {j1}
    Body = body
    Coroutines = {c1}
    Continuations = {k1}
    Racers = {x1}
    Owners = {o1}
    Watchers = {w1}
    Kinds = {"coroutine", "resolver", "bare", "resolved", "rejected"}
    Policy = "join"
CHECK_DEADLOCK FALSE
INVARIANTS
    TypeOK
    OneWinner
    NoneStranded
    NoLostWakeup
    CoroutineFindsPromise
    CallbackFindsPromise
    NoLeak
    AwaiterAccounted
    RegistrationOrder
PROPERTIES
    ImplementsContract
    EveryAwaiterServed
    EveryWaitEnds
