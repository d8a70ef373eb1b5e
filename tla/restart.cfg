SPECIFICATION Spec
CONSTANTS
    p1 = p1
    p2 = p2
    p3 = p3
    a = a
    b = b
    t = t
    Proc = {p1, p2}
    Fd = {4, 5}
    NewsRoom = 1
    CellRoom = 6
    Name = {a}
    Topic = {t}
    MaxNews = 2
    INITIAL_CON_COUNT = 3
    BUFFER_SERVER = 5
    Cropped = FALSE
    ReallocMayFail = FALSE
    nameOf <- OneUser
    MaxCommands <- OneCommand
    UnsubSf = {0, 2}
    RecvNews = 2
SYMMETRY SameUser
INVARIANTS TypeOK OneConnectionPerId NewsInOrder SendNeverBlocks
PROPERTIES KeepsPromise
CHECK_DEADLOCK FALSE
