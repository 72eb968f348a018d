SPECIFICATION WaiterSpec
CONSTANTS
    Tasks = {t1}
    Agents = {a1}
    MaxQueue = 1
    MaxAgentQueue = 1
    MaxTries = 1
    Faults = {"deadline", "lost_request", "lost_response", "crash", "restart"}
    APIEvents = {"dispatch_fails", "fetch_fails", "put_fails", "delete"}
INVARIANTS
    RowTellsTheTruth
    AnalysisHasInput
PROPERTIES
    ImplementsLifecycle
    RowSettles
