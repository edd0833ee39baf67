CONSTANTS
    Goals = {g1, g2}
    NoGoal = NoGoal
    SpinThread = FALSE
    MaxPoses = 2
SPECIFICATION NavFairSpec
INVARIANTS
    MistrackedGoalHasError
    ErrorsAreOfThisRun
    MuxerReleased
PROPERTIES
    NavImplementsServer
    NavigationStops
CHECK_DEADLOCK FALSE
