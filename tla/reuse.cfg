SPECIFICATION Spec
CONSTANTS
    p1 = p1
    p2 = p2
    p3 = p3
    a = a
    b = b
    t = t
    Proc = {p1, p2, p3}
    Fd = {4, 5}
    NewsRoom = 2
    CellRoom = 6
    Name = {a, b}
    Topic = {t}
    MaxNews = 0
    INITIAL_CON_COUNT = 3
    BUFFER_SERVER = 4
    Cropped = FALSE
    ReallocMayFail = TRUE
    nameOf <- TwoUsers
    MaxCommands <- OnlySecond
    UnsubSf = {0}
    RecvNews = 2
INVARIANTS OneConnectionPerId EmptiesSound DescriptorsWatchedOnce LoopKnows
CHECK_DEADLOCK FALSE
