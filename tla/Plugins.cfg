CONSTANTS
  Trees = {"time", "speed", "goal_updated", "distance", "default", "only_invalid", "follow_point", "recovery", "trigger", "approach", "selectors", "planner_help", "controller_help", "route_help", "smoother_help", "time_expired", "distance_traveled", "goal_updated_condition", "path_expiring", "transform", "stuck", "battery"}
  Period = 2
  Retries = 2
  MaxPoses = 4
  MaxCoord = 2
  Span = 1
  Tolerances = {0, 1}
  Allowances = {1, 2}
SPECIFICATION PluginsSpec
INVARIANTS
  NoOrphanedAction
  RecoveriesBounded
  RoundIsComplete
  FollowsComputedPath
  ReplansInTime
  PathToolsCorrect
  AnswersAreOfThisGoal
PROPERTY
  NavigationEnds
