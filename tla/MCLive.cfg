SPECIFICATION LiveSpec
CONSTANTS
    Messages = {1, 2}
    Goals = {"g1"}
    Social = Social
    Event = Event
    Nothing = Nothing
    DefersMax = 1
    MaxAttempts = 2
    MaxNotices = 2
    MaxEvents = 0
    MaxFaults = 1
    Bypass = 24
    Threshold = 400
    Limit = 1
    Priority <- MCPriority
    Dues = {12, 40}
    WorkBound = 2
    Tick = 24
    Horizon = 48
    Polled = {"telegram"}
    Pushed = {"chat"}
    Versions = 2
    Rescan = 2
    MaxSaves = 2
    DoorFaults = 2
    MaxStrikes = 2
    TTL = 2
    KeyBound = 3
    FaultBound = 2
    TaskBound = 2
PROPERTIES MessagesSettle NoticesSettle LiveBeforeMissed EveryPromiseIsReached StaysInOrder DoorsSettle
CHECK_DEADLOCK FALSE
