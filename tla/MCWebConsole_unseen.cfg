SPECIFICATION Spec
CONSTANTS
    Worlds <- UnhurriedWorlds
    Tids = {"t1", "t2"}
    MaxLoads = 2
    MaxTasks = 2
    MaxPolls = 2
    MaxWins = 2
    MaxLists = 2
    MaxFlames = 2
    Frames = {"f", "g"}
    MaxLines = 2
    MaxCount = 1
    MaxDiffs = 2
    Users = {"u", "v"}
    MaxCalls = 2
    Gids = {1, 2}
    Others = {"a"}
    MaxOps = 2
    MaxItems = 5
    PageSize = 1
    Urls = {"new", "bad"}
CHECK_DEADLOCK FALSE
PROPERTY FollowsTask
