SPECIFICATION Spec
CONSTANTS
    main = main  lib = lib  gone = gone  locked = locked
    w1 = w1  w2 = w2
    EmptyPath = EmptyPath
    Worker <- Two
    Initial <- FromMain
    Path <- TwoPaths
    File <- WhenFiles
    Globals <- WhenGlobals
INVARIANT QueuedWhenWaiting
CHECK_DEADLOCK FALSE
