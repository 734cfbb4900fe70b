SPECIFICATION FairSpec
CONSTANTS
    N = 3
    Users = {u1}
    Forms <- MixedForms
INVARIANTS
    OutcomeExplained
    CalledOnce
    NoStageLost
PROPERTIES
    EveryStageSettles
CHECK_DEADLOCK FALSE
