SPECIFICATION SpecAll
CONSTANTS
    Tasks = {t1}
    Agents = {a1}
    MaxQueue = 1
    MaxAgentQueue = 1
    MaxTries = 1
    Faults = {}
    APIEvents = {}
INVARIANT SuccessIsAnalysed
