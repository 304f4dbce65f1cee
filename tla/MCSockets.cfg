\* The servers wait for ever.
CHECK_DEADLOCK FALSE
CONSTANTS
    Clients = {c1, c2}
    Pieces = 2
    DgClients = {"c1", "c2"}
    NumMsgs = 2
    MaxSize = 2
    BufSize = 1
    MaxDups = 1
    Senders = {"s1", "s2"}
    MaxBlocks = 3
    Skip = 1
    XfrServers = {"v1", "v2"}
    XfrClients = {"x1", "x2"}
    Backlog = 0
    XfrBuf = 2
    SockCap = 1
    MaxXfr = 3
    MaxFaults = 1
SPECIFICATION MCSpec
INVARIANTS NoForgottenZombie EchoComplete MessagesTrue AncillaryTrue
PROPERTY SocketsEnd
