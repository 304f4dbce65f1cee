\* The servers wait for ever, as does a client in open() whose server has exited.
CHECK_DEADLOCK FALSE
CONSTANTS
    Clients = {"c1", "c2", "c3"}
    TcpClients = {"c1", "c2"}
    MaxLen = 2
    Ints = 4
    MaxAddrs = 3
    MaxStream = 3
    MaxN = 4
    MaxEintr = 1
    LongMax = 127
    IntLimit = 31
    MaxDigits = 2
    MaxField = 2
SPECIFICATION MCSpec
INVARIANTS NoNumberTwice LibraryFunctions
PROPERTIES ImplementsService EveryoneServed
