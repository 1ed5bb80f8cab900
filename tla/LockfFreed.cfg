SPECIFICATION Spec
CONSTANTS
    p1 = p1
    p2 = p2
    p3 = p3
    f1 = f1
    f2 = f2
    Proc = {p1, p2, p3}
    FileOf <- MCFileOf
    Requests <- PosixRequests
    Unlocks <- PosixUnlocks
    Byte = {0, 1, 2}
    EOF = EOF
    maxlockdepth = 3
    MallocSleeps = FALSE
INVARIANT NoFreedUse

CHECK_DEADLOCK FALSE
