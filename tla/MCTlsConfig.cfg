SPECIFICATION Spec
CONSTANTS
    conn1 = conn1
    conn2 = conn2
    Conns <- MCConns
    Names <- MCNames
    Files <- MCFiles
    MaxRotations = 1
INVARIANTS
    
    WholeChainServed
    OneConfig
PROPERTIES
    EveryCallReturns
CHECK_DEADLOCK FALSE
