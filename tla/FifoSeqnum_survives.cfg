CHECK_DEADLOCK FALSE
CONSTANTS
    Clients = {c1, c2}
    MaxLen = 1
    Ints = 4
SPECIFICATION Spec
INVARIANT ServerSurvives
