SPECIFICATION Spec
CONSTANTS
    Events = {1, 2}
    Window = 1
    DrainLimit = 1
    MaxEchoes = 1
    Writers = {"core", "toolhost"}
    Appenders = {1, 2}
    MaxRows = 3
    AuditFaults = 2
    AuditLimit = 2
    Messages <- MCMessages
    Handlers = {"s1", "s2"}
    SeenLimit = 1
    SeenDrop = 1
    MaxWritten = 3
    MaxDelay = 2
    Tools <- MCTools
    Sanitized <- MCSanitized
    WireTurns = 2
    WireCalls = 2
    MaxTurns = 4
    NarrateEvery = 2
    MaxLines = 1
    PersistTurns = 3
    Salience <- MCSalience
    TurnBound = 6
    FactBound = 3
    Callers = {"c1", "c2"}
    Old <- MCOld
    Nights = 2
    Troubles = 1
    min_cluster_size = 2
    Positions = {0, 1, 2, 3, 4, 5}
    MaxPoints = 6
    Files = {"f1", "f2"}
    Roots = {"r1", "r2"}
    none = "none"
    MaxCommands = 1
    StatedBound = 1
    StateWindow = 1
    DelegationWindow = 2
    MaxDelegations = 1
    Replies <- MCReplies
    Horizon = 2
    ActionBound = 1
    Calls = {"c1", "c2", "c3"}
    SessionIds = {"shop", "mail"}
    max_sessions = 1
    Starts = {"j1", "j2", "j3", "j4"}
    Texts = {"t1", "t2"}
    NoEntry = NoEntry
    Budget = 1
    BatchFull = 2
    MaxSends = 3
    Senders = {"life", "flush"}
    Conversations = {"a", "b", "c"}
    UrlLimit = 2
    Lifetimes = {2}
    Margin = 1
    Floor = 1
    NoToken = NoToken
    MaxClock = 2
    Sendings = 2
    MaxPieces = 2
    MaxFaults = 1
INVARIANT EveryFamilyServes
CHECK_DEADLOCK FALSE
