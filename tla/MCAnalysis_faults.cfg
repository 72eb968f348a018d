SPECIFICATION FairSpec
CONSTANTS
    Procs = {p1, p2, p3}
    Worlds <- AllWorlds
INVARIANTS
    OneAtATime
    SuccessHasProducts
    RunningHasOwner
PROPERTIES
    SuccessStays
    AnalysisEnds
CHECK_DEADLOCK FALSE
