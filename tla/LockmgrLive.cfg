SPECIFICATION FairSpec
CONSTANTS
    Proc = {p1, p2, p3, p4}
    NoProc = NoProc
    Types = {"SHARED", "EXCLUSIVE", "UPGRADE", "DOWNGRADE", "RELEASE", "DRAIN"}
    Opts = {"CANRECURSE", "REENABLE"}
    MaxRecurse = 2
    Pcatch = FALSE
    Timo = FALSE
INVARIANT NoStranded
PROPERTIES WriterServed UpgradeServed SleeperWoken
CHECK_DEADLOCK FALSE
