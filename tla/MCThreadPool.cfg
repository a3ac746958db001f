CONSTANTS
    NoTask = NoTask
    NumWorkers = 3
    Batches <- PassBatches
    MayFail <- LastFails
    Wrap = 8
SPECIFICATION LiveSpec
INVARIANTS TypeOK AtMostOnce AllRanOnSuccess NumWorkingExact NobodyRunsAfterWait
PROPERTIES WaitReturns ShutdownReturns
CHECK_DEADLOCK FALSE
