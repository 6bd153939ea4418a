CONSTANTS
    None = None
    me = me
    you = you
    shell = shell
    c1 = c1
    c2 = c2
    Convs = {c1, c2}
    Conv <- MCConv
    Slugs = {t1, t2}
    SessionIds = {s1}
    Procs = {me}
    MaxAdds = 2
    MaxLoop = 0
    Commands = {"add", "start", "done", "session_new"}
    Flags = {"child", "reopen"}
SYMMETRY Symmetry
SPECIFICATION Spec
INVARIANT DoneCoversSubtasks
CHECK_DEADLOCK FALSE
