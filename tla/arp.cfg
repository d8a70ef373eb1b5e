SPECIFICATION FairSpec
CONSTANTS
    h = h
    g = g
    far = far
    s = s
    r0 = r0
    r1 = r1
    nowhere = nowhere
    m1 = m1
    m2 = m2
    Addr = {h, g, far, s, r0, r1, nowhere}
    Mac = {m1, m2}
    Iface = {0, 1}
    my_ip <- RouterIp
    routes <- Routes
    Traffic <- All
    MaxPackets = 2
    MaxArp = 1
    Lossy = TRUE
INVARIANTS TypeOK NoneLeftBehind InOrder
PROPERTIES ToLastLearnt WaitingIsSent
CHECK_DEADLOCK FALSE
