SPECIFICATION TimersSpec
\* A timer whose callback refreshes it, and which is skipped and stopped.
CONSTANTS
    Kind = "mutable"
    Intervals = {1, 2, 3}
    Callbacks = {c1, c2}
    Stoppable = TRUE
    Skippable = TRUE
    Refreshes = TRUE
    Prompt = TRUE
    MaxDeliveries = 3
    MaxCrashes = 2
    MaxFailures = 2
    Chunk = 2
    Pre = 3
    DefaultQuota = 6
    LogQuota = 1
    Periodic = {TRUE, FALSE}
    Cancels = TRUE
    Rounds = 1
    MaxBytes = 10
    c1 = c1 c2 = c2 p1 = p1 p2 = p2
    d1 = d1 d2 = d2 d3 = d3 Missing = Missing
INVARIANTS CallbackExclusive NoStaleWait OneInvocation ScriptIsSafe EveryByteOnce RightTimeAndPlace
PROPERTIES NobodyIsStuck
CHECK_DEADLOCK FALSE
