SPECIFICATION Spec
CONSTANTS
    Callers = {c1, c2}
    Discretionary = {c1}
    Catalogue = {m1}
    Bases = {b1}
    NoBase = NoBase
    Keyless = {}
    Suits <- MCSuits
    Hinted <- MCHinted
    DailyCap = 2
    Reserve = 1
    MaxAttempts = 2
    MaxFailures = 1
    PinLimit = 1
    MaxEvents = 1
  
PROPERTIES EveryCallEnds
