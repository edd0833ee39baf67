CONSTANTS
    N = 3
    Commands = {"startup", "reset", "shutdown", "pause", "resume"}
    Autostart = FALSE
    BondTimeout = TRUE
    AttemptRespawn = TRUE
    Faults = TRUE
    MaxCrashes = 2
SPECIFICATION FairSpec
INVARIANTS
    Monitored
PROPERTIES
    DependencyOrder
    ActiveWhenReported
    CrashDetected
CHECK_DEADLOCK FALSE
