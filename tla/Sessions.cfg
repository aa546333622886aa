SPECIFICATION SessionsSpec
CONSTANTS
    MaxOpens = 3
    RetryCount = 2
    MaxAttempts = 1
    QuietLimit = 1
    MaxBreaks = 2
    none = none
    Runs = {r1, r2}
    Duplicates = TRUE
    MaxKicks = 2
    FlowLimits = {0, 8192}
    ThreeHours = TRUE
    MaxConns = 4
    ClientLeaves = TRUE
\* A terminal, a pipe or a local connection, and a server that may send anything.
    Modes = {"console", "raw", "forward"}
    Messages = {"output", "zero interval", "invalid", "close"}
    MaxInput = 3
    MaxMessages = 2
INVARIANTS OpenIsHeard OneReader RunningIsKnown HandlerIsAwaited InputKept
PROPERTIES SessionsEnd
\* A channel, a session or a forwarding that has ended stays so.
CHECK_DEADLOCK FALSE
