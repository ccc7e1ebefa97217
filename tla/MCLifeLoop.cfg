SPECIFICATION Spec
CONSTANTS
    Messages = {1, 2}
    Goals = {g1, g2}
    Social = Social
    Event = Event
    Nothing = Nothing
    DefersMax = 1
    MaxAttempts = 2
    MaxNotices = 2
    MaxEvents = 1
    MaxFaults = 1
INVARIANTS BoundedDeferral
 
