SPECIFICATION FairSpec
CONSTANTS
    f1 = f1
    f2 = f2
    Func = {f1, f2}
    Ticks <- MCTicks
    NCallout = 4
    MaxLate = 2
    NoFunc = NoFunc
INVARIANTS TypeOK
PROPERTIES KeepsPromise CalledInTheEnd
CHECK_DEADLOCK FALSE
