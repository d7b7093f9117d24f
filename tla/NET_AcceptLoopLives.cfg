\* Clients need not finish their request nor hang up: one that sent "GET "
\* and stays connected blocks the only io_context thread in read_until.
CONSTANTS
    c1 = c1
    c2 = c2
    Clients = {c1, c2}
    Streams <- MCStreams
    MDB_PREAMBLE = 1296318977
    HTTP_GET_PREAMBLE = 1195725856
    Delim = 13
    Upgrade <- MCUpgrade
    SetupSteps = {"open", "set options", "bind", "listen"}
    IoThreads = 1
SPECIFICATION NetSpec
PROPERTY AcceptLoopLives
\* The server stops when every client is done, or when the listener failed.
CHECK_DEADLOCK FALSE
