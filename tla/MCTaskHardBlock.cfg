CONSTANTS
    None = None
    me = me
    you = you
    shell = shell
    c1 = c1
    c2 = c2
    Convs = {c1, c2}
    Conv <- MCConv
    Slugs = {t1, t2, t3}
    SessionIds = {s1}
    Procs = {me}
    MaxAdds = 3
    MaxLoop = 0
    Commands = {"add", "start", "session_new"}
    Flags = {"child", "after", "parallel"}
SYMMETRY Symmetry
SPECIFICATION Spec
PROPERTY HardBlock
CHECK_DEADLOCK FALSE
