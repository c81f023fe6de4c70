SPECIFICATION SafeSpec
CONSTANTS
    ftp = ftp
    sftp = sftp
    f = f
    g = g
    NoObject = NoObject
    Sessions <- MCSessions
    SFTP <- MCSFTP
    Names <- MCNames
    Workers = 2
    MaxChunks = 2
    MaxOps = 2
INVARIANT UploadAudited
CHECK_DEADLOCK FALSE
