CONSTANTS
    w1 = w1
    w2 = w2
    None = None
    Workers <- MCWorkers
    PoolSize = 2
    InitPages = 2
    MaxPages = 3
    MaxWrites = 2
    MaxHeld = 1
SPECIFICATION Spec
INVARIANT NoLostWrite
