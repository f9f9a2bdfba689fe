SPECIFICATION FairSpec
CONSTANTS
    Conn = {c1, c2}
    NoConn = NoConn
    MAP = 3
    SCREEN = 2
    MARGIN = 1
    Delta <- OneStep
    MaxChanges = 6
INVARIANTS TypeOK GameUndisturbed CursorsTrue
PROPERTIES SpectatorMoves ViewSettles
