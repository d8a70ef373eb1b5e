SPECIFICATION Spec
CONSTANTS
    Lengths = {3, 4, 7}
    LenSize = 2
    BUFFER_CLIENT = 5
    RecvNews = 2
    MaxNews = 5
INVARIANTS TypeOK StreamKept
PROPERTIES ImplementsReader
CHECK_DEADLOCK FALSE
