SPECIFICATION Spec
CONSTANTS
    p1 = p1
    p2 = p2
    p3 = p3
    a = a
    b = b
    t = t
    Proc = {p1}
    Fd = {4}
    NewsRoom = 2
    CellRoom = 6
    Name = {a}
    Topic = {t}
    MaxNews = 2
    INITIAL_CON_COUNT = 3
    BUFFER_SERVER = 6
    Cropped = FALSE
    ReallocMayFail = FALSE
    nameOf <- OneUser
    MaxCommands <- OneCommand
    UnsubSf = {0}
    RecvNews = 2
INVARIANTS RunsUntilExit
CHECK_DEADLOCK FALSE
