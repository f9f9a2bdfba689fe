SPECIFICATION Spec
CONSTANTS
    Conn = {c1}
    NoConn = NoConn
    Tile = {t1}
    Value = {x, y}
    Blank = blank
    Cleared = cleared
    Resizes = FALSE
    MaxChanges = 4
INVARIANTS MaskSolid
