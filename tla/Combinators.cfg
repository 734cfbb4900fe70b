SPECIFICATION FairSpec
CONSTANTS
    Members = {1, 2, 3}
    AllOf = {1, 2}
    Contestants <- ThreeContestants
    Lazy = {2}
    Stuck = {3}
    AllCaller = ta
    RaceCaller = tr
CHECK_DEADLOCK FALSE
INVARIANTS
    AllOutcome
    OneWinner
    NoLoserRegistered
PROPERTIES
    AllSettles
    RaceSettles
