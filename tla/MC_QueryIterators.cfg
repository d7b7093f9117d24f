CONSTANTS
    Nodes = {0, 1, 2}
    Pairs <- MCPairs
    MaxCost = 1
    Conn <- MCConn
    AutStart = 0
    AutFinal = 1
    Good = {0, 1}
    MaxResets = 1
    NumTrees = 2
    Objects = {o1, o2, o3}
    o1 = o1
    o2 = o2
    o3 = o3
    Sim <- MCSim
    MaxDepth = 2
    MaxLSHResets = 1
SPECIFICATION MCSpec
INVARIANT TypeOK ResultsAreShortest ResultsInOrder AllReported IteratorOwnedByTop
INVARIANT LSHTypeOK NoDuplicateResults ResultsByLevel ExhaustsStore
PROPERTY NextReturns
PROPERTY LSHNextReturns
CHECK_DEADLOCK FALSE
