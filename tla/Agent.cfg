SPECIFICATION AgentSpec
\* Two checks of the load that overlap.
CONSTANTS
    Checks = {c1, c2}
    MaxCount = 4
    MaxTasks = 3
    CgroupWorks = {TRUE, FALSE}
    a = a
    j1 = j1
    j2 = j2
\* Two callbacks of one configuration, while nothing is read from the disk: the other
\* instances restart the agent.
    Configs = {a}
    Jobs = {j1, j2}
    Modes = {"ApplyAndAutoCorrect"}
    Schedules = {"rate", "cron"}
    Intervals = {1}
    MaxChange = 2
    MaxCrash = 0
    Monitored = FALSE
    None = None
\* Two types with two contents.
    Types = {i1, i2}
    Contents = {a, b}
    Missing = Missing
    MaxChanges = 2
    MaxTroubles = 2
\* Two commands on one key.
    KeyIds = {k1}
    Names = {n1}
    Commands = {c1, c2}
    Timeouts = {1}
    MaxTime = 2
    Operations = {"gen", "remove", "use"}
    NoKey = NoKey
    c1 = c1
INVARIANTS StatesInStep KillIsEarned
PROPERTIES KeyNotReplaced SettledInTheEnd
\* The clock of the encrypted data and the crashes are bounded.
CHECK_DEADLOCK FALSE
