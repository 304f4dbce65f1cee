\* script waits for ever for a child that has failed before it opened the slave.
CHECK_DEADLOCK FALSE
CONSTANTS
    Settings = {u1, u2}
    MaxStops = 2
    MaxConts = 1
    MaxTyped = 3
    MaxOutput = 3
    InSize = 1
    OutSize = 1
    NumChildren = 3
    MaxFd = 3
    MaxClose = 3
    JobSize = 3
    MaxJobSigs = 2
    MaxTtySigs = 3
    HupChildren = 2
SPECIFICATION MCSpec
INVARIANTS SuspendHandsOver ScriptTrue SessionsTrue
PROPERTIES EndGivesBack TerminalsEnd
