CONSTANTS
    t1 = t1  t2 = t2  t3 = t3  t4 = t4
    NoTask = NoTask
    NumWorkers = 2
    Task <- SmallTask
    Priority <- SmallPriority
    Initial <- SmallInitial
    Spawns <- SmallSpawns
    MayFail = {}
SPECIFICATION Spec
INVARIANT TrueMeansAllRan
CHECK_DEADLOCK FALSE
