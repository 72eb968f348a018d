SPECIFICATION Spec
CONSTANTS
    MaxWindow = 3
    MaxCopies = 2
    MaxAlive = 2
    Callers = {c1, c2}
    Schedules = {s1, s2}
    Worlds <- AllWorlds
INVARIANTS
    NoGapInTimeline
    OneWindowAtATime
    NoGapInTable
    EndedIsStopped
    SchedulesFireAsListed
PROPERTIES
    NothingNewOnceStopped
    ChainGoesOn
    WindowsAreAnalysed
CHECK_DEADLOCK FALSE
