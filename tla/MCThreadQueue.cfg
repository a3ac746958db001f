CONSTANTS
    t1 = t1  t2 = t2  t3 = t3  t4 = t4
    NoTask = NoTask
    NumWorkers = 2
    Task <- MCTask
    Priority <- MCPriority
    Initial <- MCInitial
    Spawns <- MCSpawns
    MayFail <- MCMayFail
SPECIFICATION LiveSpec
INVARIANTS TypeOK OnePlace ClearedOnlyOnFailureOrShutdown QuietOnceNotRunning
PROPERTIES ImplementsWorkQueue EveryTaskSettles WaitReturns ShutdownReturns
CHECK_DEADLOCK FALSE
