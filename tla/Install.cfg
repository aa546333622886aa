SPECIFICATION InstallSpec
\* Three processes that load the list of plugins, with accesses that fail; and
\* three versions, three offers and three failures while an update is prepared.
CONSTANTS
    Processes = {A, B, C}
    Json = "plugins"
    MaxLoads = 5
    MaxFaults = 2
    Managers = {A, B, C}
    Releases = {1}
    Requests <- OneVersion
    Persistent = TRUE
    MaxStarts = 6
    MaxKills = 2
    MaxId = 3
    Versions = {1, 2, 3}
    Invalid = {}
    First = 2
    Elapsed = {1, 20, 36}
    Preparation = 40
    MaxDownload = 30
    MaxOffers = 3
    MaxTroubles = 3
    Cmds = {c1}
    Refusals = {"error", "code"}
    MaxRegs = 3
    MaxFailures = 3
    Troubles = {"request", "crash"}
    A = A
    B = B
    C = C
    p = p
INVARIANTS WhatRunsIsWhole MigratedOnce
PROPERTIES RunningKept InstanceIsKept RecordsAreTrue AttemptsSucceed
\* Every process that may load the list, or be started, has ended.
CHECK_DEADLOCK FALSE
