SPECIFICATION HooksSpec
CONSTANTS
    Parts = {"jobs", "state", "read", "stop", "gate", "ledger", "link", "log"}
    r1 = r1
    r2 = r2
    c1 = c1
    i1 = i1
    main = main
    a1 = a1
    a2 = a2
    StoreJobs = {r1, r2}
    DistillJobs = {c1}
    IndexJobs = {i1}
    Plans <- MCPlans
    MaxChildren = 2
    MaxRules = 2
    MaxAttempts = 2
    MaxResumed = 1
    MaxIds = 1
    StoreDeadline = 1
    DistillDeadline = 2
    PruneAge = 3
    CallTime = 1
    LlmTime = 1
    Strict = {s1, s2}
    Lenient = {l1}
    MaxAgings = 1
    ReadAgents = {main, sub}
    MainReader = main
    ReadFiles = {f1}
    TtlSeconds = 2
    MaxSecond = 2
    MaxVersion = 2
    Texts = {"t1", "t2"}
    StopNudgeEvery = 2
    RepeatThreshold = 1
    SilenceMultiple = 3
    Commits = {p1, p2}
    Edits = {e1}
    NudgeAfter = 1
    NudgeEvery = 1
    MaxEdits = 1
    Subs = {a1, a2}
    MainAgent = main
    Records = {m1}
    MaxAgents = 1
    PendingCap = 1
    MaxResets = 1
    Crews <- MCCrews
    LinkHooks = {"h1", "h2"}
    Csids = {"c1", "c2"}
    MapCap = 1
    PendingTtl = 1
    MaxSeconds = 1
    MaxTranscripts = 3
    MaxFaults = 1
    Appenders = {"a1", "a2"}
    KeptRotations = 2
    FullAt = 1
    MaxFiles = 4
    MaxLines = 5
    MaxAgeings = 1
    MaxHalts = 1
INVARIANTS
    HooksTypeOK
    WorkDoneOnce WorkNotLost UpdatesKept GuardsMatchContext FilteredWasShown
      GenerationsInOrder CalmLogKeepsLines
PROPERTIES ReminderOncePerCause GateFollowsDeny TasksMatchSubagents
CHECK_DEADLOCK FALSE
