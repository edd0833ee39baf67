CONSTANTS
  Trees = {"default"}
  Period = 2
  Retries = 1
SPECIFICATION TreeSpec
INVARIANT
  GoalUpdateReplanned
