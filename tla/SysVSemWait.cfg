SPECIFICATION Spec
CONSTANTS
    Proc = {p, q, r}
    NoProc = NoProc
    NoSet = NoSet
    Vectors <- Waiting
    Calls = {"setval", "setall", "exit", "freeze", "fault"}
    SemMni = 1
    SemMns = 2
    SemMnu = 1
    SemUme = 1
    SetSizes = {2}
    Values = {0, 2}
    MaxVal = 2
    MaxSeq = 1
    MaxCnt = 3
INVARIANTS CountsAgree NoMissedWakeup
SYMMETRY Symmetry
CHECK_DEADLOCK FALSE
