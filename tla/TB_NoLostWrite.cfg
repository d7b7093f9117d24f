\* The file grows from 2 to 3 pages through append_page; 2 slots.
CONSTANTS
    PoolSize = 2
    InitPages = 2
    MaxPages = 3
    MaxWrites = 2
    MaxHeld = 1
SPECIFICATION Spec
INVARIANT NoLostWrite
CHECK_DEADLOCK FALSE
