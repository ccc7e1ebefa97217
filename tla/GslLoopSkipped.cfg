SPECIFICATION Spec
CONSTANTS
    Actions = {x, y}
    Nothing = Nothing
    StepCount = 1
    MaxActions = 2
    MaxStrategies = 2
    FailuresBeforeSwitch = 2
    ParkAt = 2
    MaxCuts = 0
INVARIANTS ChosenActionRan
CHECK_DEADLOCK FALSE
