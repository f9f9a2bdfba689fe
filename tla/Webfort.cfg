SPECIFICATION WFairSpec
CONSTANTS
    Conn = {c1, c2}
    NoConn = NoConn
    MAX_CLIENTS = 2
    CountValues = 256
    TURNTIME = 1
    IDLE_TIMEOUT = 0
    INGAME_TIME = TRUE
    AUTOSAVE_WHILE_IDLE = FALSE
    Admins = {c1}
    ClientKeys = {"ESC"}
    MaxKeys = 1
    MaxMouse = 1
INVARIANTS PauseHolds
PROPERTIES FocusMouse SafeEscape IngameTurnEnds
