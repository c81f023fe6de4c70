SPECIFICATION Spec
CONSTANTS
    a = a
    b = b
    Ops <- MCOps
    TTL = 3
    Margin = 2
    Slack = 1
    MaxIssues = 2
    MaxRefusals = 1
INVARIANTS
    TypeOK
    NoNilClient
    CallsUnexpired
    SingleFlight
PROPERTIES
    OperationsEnd
CHECK_DEADLOCK FALSE
