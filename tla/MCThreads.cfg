CONSTANTS
    N = 3
    IntMax = 6
SPECIFICATION MCSpec
INVARIANTS FinalCount JoinCannotBlock NoLostWakeup
INVARIANT ThreadsOwn
PROPERTY ThreadsEnd
