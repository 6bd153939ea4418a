CONSTANTS
    None = None
    me = me
    you = you
    shell = shell
    c1 = c1
    c2 = c2
    Convs = {c1, c2}
    Conv <- MCConv
    Slugs = {t1, t2, t3}
    SessionIds = {s1, s2}
    Procs = {me, you}
    MaxAdds = 3
    MaxLoop = 0
    Commands = {"add", "start", "done", "reopen", "session_new", "session_finish"}
    Flags = {"child", "parallel", "over", "abandon_open"}
SYMMETRY Symmetry
SPECIFICATION Spec
INVARIANTS QueueSerial StartedUnderStarted DoneCoversSubtasks SomeTaskCanMove
PROPERTIES StartsOwnTasksOnly
CHECK_DEADLOCK FALSE
