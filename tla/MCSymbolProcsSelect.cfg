SPECIFICATION Spec
CONSTANTS
    a = a  b = b  c = c  s = s  m = m  f = f
    w1 = w1  w2 = w2  w3 = w3
    NoProc = NoProc
    Proc <- SelectProc
    Worker <- Two
    Program <- SelectProgram
    Later = {f}
    Parent <- NoParent
    MaxErrors = 1
INVARIANTS SelectedIsAnalyzed
CHECK_DEADLOCK FALSE
