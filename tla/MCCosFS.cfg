SPECIFICATION Spec
CONSTANTS
    ftp = ftp
    sftp = sftp
    f = f
    g = g
    NoObject = NoObject
    Sessions <- MCSessions
    SFTP <- MCSFTP
    Names <- MCNames
    Workers = 2
    MaxChunks = 2
    MaxOps = 2
INVARIANTS
    OffsetsKept
    RenameKeeps
    EventAgrees
PROPERTIES
    ImplementsStore
    OperationsEnd
CHECK_DEADLOCK FALSE
