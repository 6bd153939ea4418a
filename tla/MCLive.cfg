SPECIFICATION LiveSpec
CONSTANTS
    Parts = {"lock", "tasks", "jobs", "proxy", "clones"}
    Threads = {"t1", "t2", "t3"}
    Paths = {"main", "link"}
    Stores = {"storeA"}
    Canon <- MCCanon
    MaxDepth = 2
    Nobody = "nobody"
    StoreJobs = {"r1"}
    DistillJobs = {"c1"}
    IndexJobs = {}
    Plans <- MCPlans
    MaxChildren = 2
    MaxRules = 1
    MaxAttempts = 2
    MaxResumed = 1
    MaxIds = 1
    StoreDeadline = 1
    DistillDeadline = 2
    PruneAge = 3
    CallTime = 1
    LlmTime = 1
    Exports = {"e1", "e2"}
    MaxSpawns = 1
    MaxKills = 1
    Syncs = {"y1"}
    Readers = {"x1"}
    Teams <- MCTeams
    Refs = {"a"}
    MaxChanges = 0
    MaxDeaths = 1
    None = None
    Convs = {"c1"}
    Slugs = {"k1", "k2"}
    SessionIds = {"s1", "s2"}
    TaskProcs = {"me"}
    Conv <- MCConv
    Commands = {"add", "start", "done", "reopen", "clear", "clear_session", "session_new", "session_replace", "session_finish", "task_create"}
    Flags = {"child", "abandon_open"}
    MaxAdds = 2
    MaxLoop = 0
PROPERTIES EventuallyReleased JobSettles StaleLockEnds  CommandEnds
CHECK_DEADLOCK FALSE
