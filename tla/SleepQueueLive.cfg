SPECIFICATION FairSpec
CONSTANTS
    child = child
    parent = parent
    ev = ev
    Proc = {child, parent}
    Parent <- NoParent
    NoProc = NoProc
    Event = {ev}
    NoWchan = NoWchan
    Proc0 = Proc0
    Lookup <- Apart
    Signals <- WithoutTstp
    Swapping = FALSE
INVARIANT ReturnTellsWhy
PROPERTIES TimedSleepEnds WokenReturns
