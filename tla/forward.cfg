SPECIFICATION FairSpec
CONSTANTS
    Address <- Addresses
    Masked <- BitAnd
    my_ip = 1
    Tables <- AllTables
    Packets <- AllPackets
    ErrorOthers = {65535}
    MaxEntries = 3
    Edge = 270
INVARIANTS TypeOK FindsLast FindsRoute SentToRoutable SoundHeader
PROPERTIES TurnEnds
CHECK_DEADLOCK FALSE
