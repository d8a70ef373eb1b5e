SPECIFICATION Spec
CONSTANTS
    Address <- Addresses
    Masked <- BitAnd
    my_ip = 1
    Tables <- AllTables
    Packets <- AllPackets
    ErrorOthers = {65535}
    MaxEntries = 3
    Edge = 1
INVARIANTS LongestPrefix
CHECK_DEADLOCK FALSE
