SPECIFICATION Spec
CONSTANTS
    child = child
    parent = parent
    ev = ev
    Proc = {child, parent}
    Parent <- MCParent
    NoProc = NoProc
    Event = {ev}
    NoWchan = NoWchan
    Proc0 = Proc0
    Lookup <- Colliding
    Signals <- AllSignals
    Swapping = TRUE
INVARIANTS TypeOK SleepersWakeable TimerOwned
PROPERTY StopHolds
CHECK_DEADLOCK FALSE
