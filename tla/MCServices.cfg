SPECIFICATION ServicesSpec
CONSTANTS
    Parts = {"lock", "proxy", "cache", "clones", "login", "fold", "glob", "merge", "perm"}
    Threads = {"t1", "t2"}
    Paths = {"main", "link", "other"}
    Stores = {"storeA", "storeB"}
    Canon <- MCCanon
    MaxDepth = 3
    Nobody = "nobody"
    Exports = {"e1", "e2"}
    MaxSpawns = 2
    MaxKills = 1
    Configs = {"A", "B"}
    CacheFiles = {"b1", "s"}
    Bundled = {"b1"}
    FilesOf <- MCFilesOf
    Renders = {"r1", "r2"}
    MaxUpsets = 2
    MaxIdle = 1
    Syncs = {"y1", "y2"}
    Readers = {"x1"}
    Teams <- MCTeams
    Refs = {"a", "b"}
    MaxChanges = 1
    MaxDeaths = 1
    Accounts = {"A", "B"}
    LoginFolders = {"f1", "f2"}
    Exporters = {"e1"}
    DeadFolderTtl = 1
    TokenLife = 1
    MaxTime = 2
    MaxLogins = 2
    Homes = {"f1", "f2"}
    Names = {"n"}
    Sessions = {"s1"}
    Folds = {"e1", "e2"}
    MaxInodes = 2
    MaxStamp = 2
    PatternSymbols = {"a", " ", "*", "?"}
    TextSymbols = {"a", " ", "z"}
    MaxPattern = 3
    MaxText = 4
    Bundles = {"b1", "b2"}
    Tags = {"x", "y"}
    Values = {"v", "w"}
    TagSets = {{"x"}, {"y"}}
    ScopesInUse = {1, 5}
    MaxScopes = 2
    Rules = {"Write", "Edit", "mcp"}
    Normalize <- MCNormalize
    TierTools = {"mcp"}
    TierOf <- MCTierOf
    MaxAuthored = 3
INVARIANTS
    ServicesTypeOK
    NoSelfWait HeldAreOuterCalls ProxyAccounted  ClonesKept LoginsKept
     PatternsAnswerRight MergeIsDetermined 
PROPERTIES MutexSpec
CHECK_DEADLOCK FALSE
