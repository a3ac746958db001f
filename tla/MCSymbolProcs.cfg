SPECIFICATION Spec
CONSTANTS
    a = a  b = b  c = c  s = s  m = m  f = f
    w1 = w1  w2 = w2  w3 = w3
    NoProc = NoProc
    Proc <- LibraryProc
    Worker <- Two
    Program <- LibraryProgram
    Later = {f}
    Parent <- LibraryParent
    MaxErrors = 1
INVARIANTS TypeOK OneRunner EdgesMatch NoEdgeToFinished NoLostWakeup SuspendedUnwanted NoStall NoFalseError
CHECK_DEADLOCK FALSE
