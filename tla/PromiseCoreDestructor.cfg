SPECIFICATION Spec
CONSTANTS
    Resolves = {}
    Rejects = {}
    Body = body
    Coroutines = {}
    Continuations = {}
    Racers = {}
    Owners = {o1}
    Watchers = {}
    Kinds = {"coroutine"}
    Policy = "destructor"
CHECK_DEADLOCK FALSE
INVARIANT CoroutineFindsPromise
