\* The shared pool: two workers, 2 slots, a file of 2 to 3 pages, 2 writes,
\* one pin per worker.  The listener: two clients, one io thread, and the
\* streams of MC_NetworkListener.
CONSTANTS
    w1 = w1
    w2 = w2
    None = None
    Workers <- MCWorkers
    PoolSize = 2
    InitPages = 2
    MaxPages = 3
    MaxWrites = 2
    MaxHeld = 1
    c1 = c1
    c2 = c2
    Clients = {c1, c2}
    Streams <- MCStreams
    MDB_PREAMBLE = 1296318977
    HTTP_GET_PREAMBLE = 1195725856
    Delim = 13
    Upgrade <- MCUpgrade
    SetupSteps = {"open", "set options", "bind", "listen"}
    IoThreads = 1
SPECIFICATION MCSpec
INVARIANT TypeOK
INVARIANT PinsMatchHolders
INVARIANT NetTypeOK
INVARIANT RoutedByPreamble
 
INVARIANT NeverSpins
PROPERTY PinnedNeverReassigned
PROPERTY StallOnlyByUpgrades
PROPERTY EverySettled
\* The listener stops once its setup fails or every client is closed.
CHECK_DEADLOCK FALSE
