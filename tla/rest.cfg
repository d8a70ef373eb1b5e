SPECIFICATION FairSpec
CONSTANTS
    Typed = {1, 9, 17, 33}
    IntRange = 16
    LongRange = 64
    MaxCommands = 4
    MaxFaults = 2
INVARIANTS TypeOK Credentials OwnAnswer OnceUnlessLost SentInt
PROPERTIES SuccessIsReal CommandsEnd
CHECK_DEADLOCK FALSE
