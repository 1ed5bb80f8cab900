SPECIFICATION Spec
CONSTANTS
    Proc = {p, q}
    NoProc = NoProc
    NoSet = NoSet
    Vectors <- Undoing
    Calls = {"rmid", "setval", "exit", "signal", "freeze"}
    SemMni = 2
    SemMns = 3
    SemMnu = 1
    SemUme = 1
    SetSizes = {1, 2}
    Values = {1}
    MaxVal = 1
    MaxSeq = 2
    MaxCnt = 1
INVARIANTS TypeOK PoolPacked UndoFits
PROPERTY AtomicSets
SYMMETRY Symmetry
CHECK_DEADLOCK FALSE
