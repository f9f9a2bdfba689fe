SPECIFICATION FairSpec
CONSTANTS
    Conn = {c1, c2, c3}
    NoConn = NoConn
CHECK_DEADLOCK FALSE
INVARIANTS TypeOK NoHandlerLeft ClientsExist NoUseAfterFree FirstEnableServes CrashesOnlyUnparsed
PROPERTIES CommandsReturn
