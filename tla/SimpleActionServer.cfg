CONSTANTS
    Goals = {g1, g2, g3}
    NoGoal = NoGoal
    SpinThread = TRUE
SPECIFICATION FairSpec
INVARIANTS
    SlotsConsistent
    NoGoalLost
    QuietWhenDeactivated
    FeedbackLostOnlyByDeactivation
PROPERTIES
    CallbackKeepsItsGoal
    GoalsFollowProtocol
    DeactivateReturns
    ExecutedGoalEnds
