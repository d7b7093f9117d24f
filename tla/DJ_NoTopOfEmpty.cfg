CONSTANTS
    Nodes = {0, 1, 2}
    Pairs <- MCPairs
    MaxCost = 1
    Conn <- MCConn
    AutStart = 0
    AutFinal = 1
    Good = {0, 1}
    MaxResets = 1
SPECIFICATION Spec
INVARIANT NoTopOfEmpty
CHECK_DEADLOCK FALSE
