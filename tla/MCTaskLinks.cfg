CONSTANTS
    None = None
    me = me
    you = you
    shell = shell
    c1 = c1
    c2 = c2
    Convs = {c1, c2}
    Conv <- MCConv
    Slugs = {t1, t2, t3}
    SessionIds = {s1, s2}
    Procs = {me, you}
    MaxAdds = 4
    MaxLoop = 0
    Commands = {"add", "edit", "clear", "session_new", "session_finish", "die"}
    Flags = {"parent", "child", "abandon_open"}
SYMMETRY Symmetry
SPECIFICATION Spec
INVARIANTS TypeOK CycleNeedsReuse LinksStayInSession
CHECK_DEADLOCK FALSE
