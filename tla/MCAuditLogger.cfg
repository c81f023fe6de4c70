SPECIFICATION Spec
CONSTANTS
    ftp = ftp
    admin = admin
    main = main
    other = other
    Callers <- MCCallers
    Recovering <- MCRecovering
    Closers <- MCClosers
    Deadline <- MCDeadline
    QueueCap = 2
    BatchSize = 2
    MaxEvents = 2
INVARIANTS
    NoSilentLoss
    
    ClosedOnce
PROPERTIES
    CloseTerminates
    ImplementsTrail
CHECK_DEADLOCK FALSE
