SPECIFICATION Spec
CONSTANTS
    OnceIds = {o1, o2}
    PeriodicIds = {}
    Versions = {1}
    Tasks = {t1, t2, t3}
    Dispatchers = {d1, d2}
    Workers = {w1, w2}
    MaxPending = 1
    NoTask = NoTask
    NoOne = NoOne
SYMMETRY Symmetry
INVARIANTS OnceKnownOnce OnceReported
PROPERTIES StopOnceAcknowledged ImplementsOnceTask
CHECK_DEADLOCK FALSE
