SPECIFICATION Spec
CONSTANTS
    ftp1 = ftp1
    sftp1 = sftp1
    alice = alice
    p1 = p1
    p2 = p2
    k1 = k1
    k2 = k2
    NoKey = NoKey
    Conns <- MCConns
    FTPConns <- MCFTPConns
    Users <- MCUsers
    Accounts <- MCAccounts
    Passwords <- MCPasswords
    Keys <- MCKeys
    Limit = 2
    Window = 2
    MaxEdits = 1
INVARIANTS
    TypeOK
    LockoutBound
    NoStaleLogin
    AuditFaithful
PROPERTIES
    ForgivenByProof
    LockoutEnds
CHECK_DEADLOCK FALSE
