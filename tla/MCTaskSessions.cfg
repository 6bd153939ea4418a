CONSTANTS
    None = None
    me = me
    you = you
    shell = shell
    c1 = c1
    c2 = c2
    Convs = {c1, c2}
    Conv <- MCConv
    Slugs = {t1, t2}
    SessionIds = {s1, s2}
    Procs = {me, shell}
    MaxAdds = 2
    MaxLoop = 1
    Commands = {"add", "block", "start", "done", "wait", "reopen", "clear", "clear_session", "session_start", "session_new", "session_resume", "session_replace", "session_finish", "task_create", "task_update", "die"}
    Flags = {"child", "reopen", "abandon_open"}
SYMMETRY Symmetry
SPECIFICATION Spec
PROPERTIES ClosedTakesNoWork BoardSpec
CHECK_DEADLOCK FALSE
