SPECIFICATION LoginSpec
CONSTANTS
    Accounts = {"A", "B"}
    LoginFolders = {"f1", "f2"}
    Exporters = {"e1"}
    DeadFolderTtl = 1
    TokenLife = 1
    MaxTime = 2
    MaxLogins = 2
INVARIANT SessionLoginCached
CHECK_DEADLOCK FALSE
