SPECIFICATION BodySpec
CONSTANTS
    HostFiles = {"stop", "paused", "emergency"}
    Verbs = {"stop", "resume", "emergency_stop"}
    MaxPresses = 3
    MaxCrashes = 1
    Texts = {t1, t2}
    NoEntry = NoEntry
    Budget = 1
    BatchFull = 2
    MaxSends = 2
    MaxFaults = 1
INVARIANTS NoLostStop NoLostWake 
PROPERTIES FilesHold 
CHECK_DEADLOCK FALSE
