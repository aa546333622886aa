SPECIFICATION LiveSpec
CONSTANTS
    Kicks = {k1, k2}
    Main = main
    TaskIds = {a, b}
    MaxKicks = 4
    SlowGap = FALSE
    Updater = updater
    NoOne = NoOne
INVARIANTS ScriptRunsAlone StartupOnce
PROPERTIES ImplementsGate NeitherStarves
CHECK_DEADLOCK FALSE
