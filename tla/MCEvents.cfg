CONSTANTS
    PipeSize = 2
    MaxSignals = 4
    MaxKeys = 4
    NumSigs = 3
    QueueMax = 2
    MaxSleep = 3
    MaxInts = 2
    MaxMsgs = 4
    QueueSize = 2
    Workers = {"w1", "w2", "w3", "w4"}
    Fds = {"f1", "f2"}
    MaxEvents = 1
    MaxBuf = 1
    MaxBytes = 2
    MaxOpens = 2
    NumPipes = 2
    MaxWrites = 4
    PollCap = 3
    FdSetSize = 2
    MaxFds = 2
    MaxSent = 4
    Rounds = 2
SPECIFICATION MCSpec
INVARIANTS NothingStranded ReportsTrue
PROPERTY EventsEnd
