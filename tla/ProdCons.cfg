CONSTANTS
    Producers = {p1, p2}
    MaxCnt = 2
SPECIFICATION Spec
INVARIANTS Conservation NoLostWakeup
PROPERTY EndsIffUnits
