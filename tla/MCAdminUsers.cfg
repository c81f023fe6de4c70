SPECIFICATION Spec
CONSTANTS
    req1 = req1
    req2 = req2
    alice = alice
    home = home
    away = away
    p1 = p1
    p2 = p2
    k1 = k1
    NoKey = NoKey
    Omitted = Omitted
    Requests <- MCRequests
    Names <- MCNames
    Folders <- MCFolders
    Passwords <- MCPasswords
    Keys <- MCKeys
    Bodies <- MCBodies
INVARIANTS
    AcknowledgedKept
    EventsTrue
PROPERTIES
    DeletedIsFinal
    FolderFirst
