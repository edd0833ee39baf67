CONSTANTS
    Goals = {g1, g2, g3}
    NoGoal = NoGoal
    SpinThread = TRUE
    EmptyPaths = {g3}
SPECIFICATION ControlFairSpec
PROPERTIES
    SucceedsOnOwnPath
    ControlImplementsServer
    CancelHonoured
    ControlDeactivates
