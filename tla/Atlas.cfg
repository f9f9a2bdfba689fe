SPECIFICATION FairSpec
CONSTANTS
    a = a
    b = b
    Sprites = {a, b}
    NoSprites = NoSprites
    NoAtlas = NoAtlas
    Glyphs = Glyphs
    Count <- Sizes
    Versions = 2
    Lag = 1
    MaxRetries = 1
INVARIANTS TypeOK UpToDate
PROPERTIES BuildCurrent AtlasConverges
