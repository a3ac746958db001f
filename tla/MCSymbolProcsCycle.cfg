SPECIFICATION LiveSpec
CONSTANTS
    a = a  b = b  c = c  s = s  m = m  f = f
    w1 = w1  w2 = w2  w3 = w3
    NoProc = NoProc
    Proc <- CycleProc
    Worker <- Two
    Program <- CycleProgram
    Later = {s}
    Parent <- NoParent
    MaxErrors = 3
INVARIANTS NoWaitCycle LeftForAReason
PROPERTY ComesToRest
CHECK_DEADLOCK FALSE
