CONSTANTS
    Goals = {g1, g2}
    None = None
SPECIFICATION FairSpec
INVARIANTS
    NoNullHandle
    ResultIsOfLastGoal
    KnownGoalNotAbandoned
PROPERTY RunningEnds
