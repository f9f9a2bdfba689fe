SPECIFICATION FairSpec
CONSTANTS
    Conn = {c1, c2}
    NoConn = NoConn
    Tile = {t1}
    Value = {x, y, blank}
    Blank = blank
    Cleared = cleared
    Resizes = TRUE
    MaxChanges = 3
INVARIANTS TypeOK DeltaExact
PROPERTIES Converges
