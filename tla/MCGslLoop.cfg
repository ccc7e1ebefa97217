SPECIFICATION FairSpec
CONSTANTS
    Actions = {x}
    Nothing = Nothing
    StepCount = 2
    MaxActions = 1
    MaxStrategies = 2
    FailuresBeforeSwitch = 2
    ParkAt = 2
    MaxCuts = 2
INVARIANTS StepsRestOnWork 
PROPERTIES OutcomeStands EveryGoalEnds
CHECK_DEADLOCK FALSE
