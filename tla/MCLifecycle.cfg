SPECIFICATION Spec
CONSTANTS
    s1 = s1
    s2 = s2
    Sessions <- MCSessions
INVARIANTS
    WriterHasPool
    SettledAtExit
PROPERTIES
    NoLateSession
    SignalEnds
CHECK_DEADLOCK FALSE
