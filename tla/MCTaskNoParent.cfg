CONSTANTS
    None = None
    me = me
    you = you
    shell = shell
    c1 = c1
    c2 = c2
    Convs = {c1, c2}
    Conv <- MCConv
    Slugs = {t1, t2}
    SessionIds = {s1}
    Procs = {me}
    MaxAdds = 2
    MaxLoop = 0
    Commands = {"add", "edit", "start", "clear", "session_new"}
    Flags = {"child"}
SYMMETRY Symmetry
SPECIFICATION Spec
PROPERTY NoParentFixesStart
CHECK_DEADLOCK FALSE
