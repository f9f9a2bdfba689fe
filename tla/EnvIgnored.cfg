SPECIFICATION Spec
CONSTANTS
    NaN = NaN
    Missing = Missing
    Unset = Unset
    Text <- MCText
    Stol <- MCStol
    Files <- MCFiles
    Envs <- MCEnvs
    Uint16 = 65536
    Uint32 = 1048576
    MaxLoads = 2
CHECK_DEADLOCK FALSE
INVARIANTS EnvHonoured
