SPECIFICATION FairSpec
CONSTANTS
    p1 = p1
    p2 = p2
    p3 = p3
    f1 = f1
    f2 = f2
    Proc = {p1, p2, p3}
    FileOf <- MCFileOf
    Requests <- MixedRequests
    Unlocks <- MixedUnlocks
    Byte = {0, 1, 2}
    EOF = EOF
    maxlockdepth = 3
    MallocSleeps = TRUE
INVARIANT OnItsList
PROPERTY AllServed
CHECK_DEADLOCK FALSE
