CONSTANTS
    Goals = {g1}
    NoGoal = NoGoal
    SpinThread = FALSE
SPECIFICATION Spec
INVARIANT DeactivationCompletes
