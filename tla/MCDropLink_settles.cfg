SPECIFICATION FairSpec
CONSTANTS
    Tasks = {t1, t2}
    Agents = {a1}
    MaxQueue = 1
    MaxAgentQueue = 1
    MaxTries = 1
    Faults = {"shutdown", "lost_response"}
PROPERTIES
    EveryTaskSettles
    AcceptedIsAnswered
