SPECIFICATION PromptSpec
CONSTANTS
    Tasks = {t1, t2}
    Agents = {a1}
    MaxQueue = 2
    MaxAgentQueue = 1
    MaxTries = 1
    Faults = {}
PROPERTY TerminalIsFinal
