SPECIFICATION LiveSpec
CONSTANTS
    main = main  lib = lib  gone = gone  locked = locked
    w1 = w1  w2 = w2
    EmptyPath = EmptyPath
    Worker <- Two
    Initial <- FromMain
    Path <- TwoPaths
    File <- BrokenFiles
    Globals <- BrokenGlobals
PROPERTY ImportReturns
CHECK_DEADLOCK FALSE
