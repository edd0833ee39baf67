CONSTANTS
    N = 2
    Commands = {}
    Autostart = TRUE
    BondTimeout = TRUE
    AttemptRespawn = TRUE
    Faults = FALSE
    MaxCrashes = 1
SPECIFICATION RespawnSpec
PROPERTY RespawnRecovers
CHECK_DEADLOCK FALSE
