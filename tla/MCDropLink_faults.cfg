SPECIFICATION CleanupSpec
CONSTANTS
    Tasks = {t1}
    Agents = {a1}
    MaxQueue = 1
    MaxAgentQueue = 1
    MaxTries = 3
    Faults = {"deadline", "lost_request", "lost_response", "shutdown", "crash", "restart"}
INVARIANTS
    TypeOK
    QueuedIsPending
    RunsOnce
    StatusMatchesResult
PROPERTY WaitingEnds
