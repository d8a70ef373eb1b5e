SPECIFICATION FairSpec
CONSTANTS
    p1 = p1
    p2 = p2
    p3 = p3
    a = a
    b = b
    t = t
    Proc = {p1, p2}
    Fd = {4, 5}
    NewsRoom = 1
    CellRoom = 6
    Name = {a}
    Topic = {t}
    MaxNews = 1
    INITIAL_CON_COUNT = 3
    BUFFER_SERVER = 5
    Cropped = FALSE
    ReallocMayFail = FALSE
    nameOf <- OneUser
    MaxCommands <- OnlyFirst
    UnsubSf = {0}
    RecvNews = 2
PROPERTIES ConnectAnswered QueueDrains StopReachesSubscribers
CHECK_DEADLOCK FALSE
