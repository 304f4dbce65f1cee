CONSTANTS
    N = 3
    MaxStops = 3
    NumChildren = 3
    PipeCap = 2
    MaxData = 4
    MaxPatterns = 2
    MaxChanges = 3
    BufSize = 2
    MaxFile = 3
    MaxOps = 3
    MaxTouched = 2
SPECIFICATION MCSpec
INVARIANTS NoLostChild HandlerOnlySuspended SyncedWithChildren SharedTrue
PROPERTY ChildrenEnd
