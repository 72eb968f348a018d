SPECIFICATION Spec
CONSTANTS
    Procs = {p1}
    Worlds <- KilledWorld
PROPERTY FallbackKeepsOutcome
CHECK_DEADLOCK FALSE
