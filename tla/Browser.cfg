SPECIFICATION FairSpec
CONSTANTS
    MaxConnects = 3
    MaxClicks = 2
INVARIANTS OneLoop WayBack
PROPERTIES ClickMeansIt StatusSettles
