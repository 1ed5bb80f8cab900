SPECIFICATION Spec
CONSTANTS
    Proc = {p1, p2, p3, p4}
    NoProc = NoProc
    Types = {"SHARED", "EXCLUSIVE", "UPGRADE", "EXCLUPGRADE", "DOWNGRADE", "RELEASE", "DRAIN"}
    Opts = {"NOWAIT", "SLEEPFAIL", "CANRECURSE", "REENABLE"}
    MaxRecurse = 2
    Pcatch = TRUE
    Timo = TRUE
SYMMETRY Symmetry
INVARIANTS TypeOK MutualExclusion CountsAgree DrainedIdle BarsHaveOwner DrainTold
CHECK_DEADLOCK FALSE
PROPERTY AbstractSpec
