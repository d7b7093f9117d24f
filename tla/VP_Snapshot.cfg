CONSTANTS
    w1 = w1
    w2 = w2
    None = None
    Workers <- MCWorkers
    PoolSize = 3
    InitPages = 1
    MaxPages = 2
    MaxVersion = 2
    MaxHeld = 1
SPECIFICATION Spec
SYMMETRY MCSymmetry
PROPERTY ReadsSeeSnapshot
