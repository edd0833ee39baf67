CONSTANTS
    Goals = {g1, g2, g3}
    NoGoal = NoGoal
    SpinThread = FALSE
SPECIFICATION Spec
INVARIANT PreemptionNeverForgotten
