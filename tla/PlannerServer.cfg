CONSTANTS
    Goals = {g1, g2, g3}
    NoGoal = NoGoal
    SpinThread = TRUE
SPECIFICATION PlanFairSpec
INVARIANTS
    NullGoalOnlyByDeactivation
PROPERTIES
    SucceedsWithOwnPlan
    PlanImplementsServer
    PlannedGoalEnds
CHECK_DEADLOCK FALSE
