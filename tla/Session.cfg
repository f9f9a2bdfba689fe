SPECIFICATION FairSpec
CONSTANTS
    Conn = {c1, c2, c3, c4}
    NoConn = NoConn
    MAX_CLIENTS = 3
    CountValues = 3
    TURNTIME = 2
    IDLE_TIMEOUT = 1
    INGAME_TIME = FALSE
    AUTOSAVE_WHILE_IDLE = TRUE
INVARIANTS TypeOK DriverConnected NoGhostDriver WithinCapacity HeaderTruth
PROPERTIES TurnContract AutosaveTiming TurnEnds IdleSaves
