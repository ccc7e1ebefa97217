SPECIFICATION Spec
CONSTANTS
    Paths = {"dir", "inside", "outside"}
    Holds <- MCHolds
    Commands <- MCCommands
    Callers = {"c1", "c2"}
    NoVersion = NoVersion
    MaxVersions = 2
    MaxCalls = 2
    Opens = {"o1", "o2"}
    Execs = {"x1", "x2"}
    PoolThreads = 2
    MaxResets = 1
    Threads = {"d", "v", "s"}
    Workers = {"w1"}
    Role <- MCRole
    Modes = {"inprocess", "process"}
    MaxConcurrent = 1
    Retention = 1
    Spawners = 2
    Supers = {"s1", "s2"}
    Children = {"core", "web"}
    Optional = {"web"}
    MAX_RESTARTS = 1
    Launches = {"u1", "u2"}
    MaxKills = 1
    OneShots = {"alarm"}
    Repeating = {"heartbeat"}
    MaxFires = 2
    MaxFaults = 1
INVARIANTS  TerminalsSafe  TimersSafe
  
CHECK_DEADLOCK FALSE
