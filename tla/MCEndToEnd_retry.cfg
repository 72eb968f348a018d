SPECIFICATION RetrySpec
CONSTANTS
    Tasks = {t1, t2}
    Agents = {a1}
    MaxQueue = 1
    MaxAgentQueue = 1
    MaxTries = 1
    Faults = {}
    APIEvents = {"api_crash"}
SYMMETRY Symmetry
INVARIANTS
    RowTellsTheTruth
    AnalysisHasInput
