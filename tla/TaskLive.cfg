SPECIFICATION Spec
CONSTANTS
    o1 = o1
    o2 = o2
    o3 = o3
    p1 = p1
    t1 = t1
    t2 = t2
    t3 = t3
    d1 = d1
    d2 = d2
    w1 = w1
    NoTask = NoTask
    NoOne = NoOne
PROPERTIES TasksEnd
\* Nothing moves when the server sends no more tasks.
CHECK_DEADLOCK FALSE
