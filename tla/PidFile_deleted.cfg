CONSTANTS
    Procs = {d1, d2, d3}
    MaxInodes = 3
    MaxExecs = 0
SPECIFICATION Spec
INVARIANT OnlyOneInstance
