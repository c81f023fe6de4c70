SPECIFICATION Spec
CONSTANTS
    tab1 = tab1
    tok1 = tok1
    tok2 = tok2
    req1 = req1
    req2 = req2
    NoTab = NoTab
    NoToken = NoToken
    Tabs <- MCTabs
    Tokens <- MCTokens
    Requests <- MCRequests
    TTL = 2
INVARIANTS
    LogoutSticks
PROPERTIES
    IdleSessionEnds
    ImplementsSession
CHECK_DEADLOCK FALSE
