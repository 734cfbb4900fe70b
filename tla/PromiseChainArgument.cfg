SPECIFICATION Spec
CONSTANTS
    N = 1
    Users = {u1}
    Forms <- ReferenceForms
INVARIANT ArgumentAlive
CHECK_DEADLOCK FALSE
