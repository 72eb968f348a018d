SPECIFICATION FairSpec
CONSTANTS
    Tasks = {t1, t2}
    Agents = {a1}
    MaxQueue = 1
INVARIANTS
    NoMissedWakeup
PROPERTY AnsweredWhenFinished
CHECK_DEADLOCK FALSE
