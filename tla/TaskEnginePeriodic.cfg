SPECIFICATION Spec
CONSTANTS
    OnceIds = {}
    PeriodicIds = {p1}
    Versions = {1, 2}
    Tasks = {t1, t2}
    Dispatchers = {d1, d2}
    Workers = {w1}
    MaxPending = 1
    NoTask = NoTask
    NoOne = NoOne
SYMMETRY Symmetry
INVARIANTS NoOrphanTimer PeriodicExclusive
CHECK_DEADLOCK FALSE
