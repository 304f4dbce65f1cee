CONSTANTS
    Procs = {d1, d2, d3}
    MaxInodes = 3
    MaxExecs = 1
    LockUsers = {"p1", "p2"}
    LibUsers = {"p3"}
    Flockers = {"f1", "f2", "f3"}
    MaxLocks = 3
    Shells = {"s1", "s2"}
    MaxObjs = 2
    MaxTools = 4
    SemMax = 2
    MaxLen = 2
SPECIFICATION MCSpec
INVARIANTS OneInstanceIfKept FileNamesInstance LocksTrue ObjectsTrue
PROPERTIES RefusedOnlyByLive FlocksEnd
