SPECIFICATION Spec
CONSTANTS
    OnceIds = {}
    PeriodicIds = {p1}
    Versions = {1, 2}
    Tasks = {t1, t2, t3}
    Dispatchers = {d1}
    Workers = {w1, w2}
    MaxPending = 1
    NoTask = NoTask
    NoOne = NoOne
INVARIANT PeriodicNeverOverlaps
CHECK_DEADLOCK FALSE
