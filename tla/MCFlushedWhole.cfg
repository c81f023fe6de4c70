SPECIFICATION SafeSpec
CONSTANTS
    a = a
    b = b
    Ops <- MCOps
    TTL = 3
    Margin = 2
    Slack = 1
    MaxIssues = 2
    MaxRefusals = 1
INVARIANT FlushedWhole
CHECK_DEADLOCK FALSE
