SPECIFICATION Spec
CONSTANTS
    Messages = {1, 2}
    Goals = {g1}
    Social = Social
    Event = Event
    Nothing = Nothing
    DefersMax = 1
    MaxAttempts = 2
    MaxNotices = 1
    MaxEvents = 0
    MaxFaults = 0
INVARIANT DecidedForIt
