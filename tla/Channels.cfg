SPECIFICATION ChannelsSpec
\* An instance in ECS, whose server may be overloaded; kicks that are throttled in rings of one to three.
CONSTANTS
    Hybrid = FALSE
    GshellSupport = TRUE
    CoolDownCount = 1
    RetryCount = 1
    Attempts = 1
    MaxConns = 2
    MaxOpens = 2
    MaxTroubles = 1
    Prompt = FALSE
    Overload = TRUE
    Counts = {1, 2, 3}
    Periods = {0, 2}
    FirstCount = 3
    MaxTime = 6
    HttpAgain = 3
    Quota = 3
    PingAttempts = 3
    Settings <- PingSettings
    g1 = g1 g2 = g2 None = None
    Callers = {g1, g2}
    Worlds <- ServerWorlds
    Here = "here"
    MaxHitches = 1
    MaxRestarts = 1
    Fetchers = {g1, g2}
    Tasks = {"keeps", "replaces", "other", "unowned", "unsigned"}
    Info <- SentFiles
    Systems = {"linux", "freebsd", "windows"}
    Absent = None
    Apart = TRUE
    AskTimes = 2
    Rounds = 2
    MaxDeliveries = 3
    MaxMishaps = 1
INVARIANTS NeverOrphaned BeatsArrive RightServer
PROPERTIES ServerIsReached LimitIsExact FilesArrive
