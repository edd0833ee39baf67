------------------------------ MODULE BtTrees ------------------------------
(***************************************************************************)
(* The behaviour trees of nav3d_bt_navigator/behavior_trees, ticked the    *)
(* way BehaviorTreeEngine::run does, with the control, decorator and       *)
(* condition nodes of nav3d_behavior_tree/plugins.                         *)
(*                                                                         *)
(* A tree is a sequence of nodes; node 1 is its root.  tick() of a node    *)
(* may tick children, which may answer in several ways, so executeTick is  *)
(* an operator from a state of the tree to the SET of its outcomes, each   *)
(* with the status r that is returned and the state s that is left.  A     *)
(* state of the tree has                                                   *)
(*   st    the status of each node (TreeNode::status()),                   *)
(*   mem   the data members of each node, by kind of node,                 *)
(*   bb    the entries of the blackboard that the trees use,               *)
(*   ran   history: the actions that answered RUNNING in the last tick,    *)
(*   complete  history: no round of a RoundRobin was given up too early.   *)
(* A path is a pair <<goal it leads to, length>>.  Time and distance are   *)
(* measured in units of which a node's period (its arg) is a small number. *)
(*                                                                         *)
(* The action nodes are seen through BtActionNode: RUNNING for as long as  *)
(* they like, then an answer.  That nobody but the tree cancels the        *)
(* planner's goal is assumed (no plugin does).                             *)
(***************************************************************************)
EXTENDS Integers, Sequences, FiniteSets, ControlNodes

CONSTANTS
  Trees,      \* the names of the trees to tick
  Period,     \* the period of the replanning decorators, in units of time
  Retries     \* number_of_retries of the recovery nodes

ASSUME BtTreesAssumption ==
  Period \in Nat \ {0} /\ Retries \in Nat

VARIABLES
  tree,       \* the tree that was loaded
  s,          \* its state
  navigating, \* BehaviorTreeEngine::run is in its loop
  ticked,     \* the tree was ticked since time last passed
  last,       \* how the navigation ended, until the next one begins
  stale       \* history: time spent, not planning, on a path to an old goal

treeVars == <<tree, s, navigating, ticked, last, stale>>

Goals == {1, 2}
NoGoal == 0
NoPath == <<0, 0>>
Unstamped == 3  \* a goal whose message has no time stamp
-----------------------------------------------------------------------------
(***************************************************************************)
(* The trees.                                                              *)
(***************************************************************************)
Node(kind, kids, arg) == [kind |-> kind, kids |-> kids, arg |-> arg]
Selector(kind, default, messages) ==
  Node(kind, <<>>, [default |-> default, messages |-> messages])
Compute(goal) == Node("ComputePathToPose", <<>>, goal)
Follow(path) == Node("FollowPath", <<>>, path)
Action == Node("Action", <<>>, 0)

\* PipelineSequence(ControllerSelector, PlannerSelector, d(ComputePathToPose), FollowPath)
Replanning(decorator) ==
  << Node("PipelineSequence", <<2, 3, 4, 6>>, 0),
     Selector("ControllerSelector", 1, {}), Selector("PlannerSelector", 1, {}),
     Node(decorator, <<5>>, Period), Compute("goal"), Follow("path") >>

\* The same with a test of the path in front of ComputePathToPose; only the
\* tree that also looks at the goal has nodes 12 and 13 below its root.
ReplanningIfInvalid(sequence, tests) ==
  << Node("PipelineSequence", <<2, 3, 4, 8>>, 0),
     Selector("ControllerSelector", 1, {}), Selector("PlannerSelector", 1, {}),
     Node("RateController", <<5>>, Period),
     Node("ReactiveFallback", <<6, 7>>, 0),
     Node(sequence, tests, 0), Compute("goal"), Follow("path"),
     Node("TruncatePathLocal", <<>>, 0), Node("PublishPath", <<>>, 0),
     Node("IsPathValid", <<>>, 0),
     Node("Inverter", <<13>>, 0), Node("GlobalUpdatedGoal", <<>>, 0) >>

\* ReactiveFallback(condition, action): the condition interrupts the action.
Watch(condition) ==
  << Node("ReactiveFallback", <<2, 3>>, 0), Node(condition, <<>>, Period), Action >>

\* A recovery is tried when the error code says that it would help.
RecoverFrom(condition) ==
  << Node("RecoveryNode", <<2, 3>>, Retries), Node("ErrorAction", <<>>, 0),
     Node("Sequence", <<4, 5>>, 0), Node(condition, <<>>, 0), Action >>

navigate_w_replanning_time == Replanning("RateController")
navigate_w_replanning_speed == Replanning("SpeedController")
navigate_w_replanning_only_if_goal_is_updated == Replanning("GoalUpdatedController")
navigate_w_replanning_distance ==
  << Node("PipelineSequence", <<2, 4>>, 0),
     Node("DistanceController", <<3>>, Period), Compute("goal"), Follow("path") >>
navigate_w_replanning_if_path_becomes_invalid_or_goal_is_updated ==
  ReplanningIfInvalid("ReactiveSequence", <<12, 9, 10, 11>>)
navigate_w_replanning_only_if_path_becomes_invalid ==
  ReplanningIfInvalid("Sequence", <<9, 10, 11>>)
follow_point ==
  << Node("PipelineSequence", <<2, 7>>, 0),
     Node("RateController", <<3>>, Period), Node("Sequence", <<4, 6>>, 0),
     Node("GoalUpdater", <<5>>, 0), Compute("updated_goal"),
     Node("TruncatePath", <<>>, 0), Follow("local") >>

\* The trees of the repository, and small ones for the nodes that none of them
\* uses.
Shape ==
  [ time         |-> navigate_w_replanning_time,
    speed        |-> navigate_w_replanning_speed,
    goal_updated |-> navigate_w_replanning_only_if_goal_is_updated,
    distance     |-> navigate_w_replanning_distance,
    default      |-> navigate_w_replanning_if_path_becomes_invalid_or_goal_is_updated,
    only_invalid |-> navigate_w_replanning_only_if_path_becomes_invalid,
    follow_point |-> follow_point,
    recovery     |->
      << Node("RecoveryNode", <<2, 5>>, Retries),
         Node("RecoveryNode", <<3, 4>>, Retries), Action, Action,
         Node("RoundRobin", <<6, 7, 8>>, 0), Action, Action, Action >>,
    trigger      |->
      << Node("RecoveryNode", <<2, 7>>, Retries),
         Node("PipelineSequence", <<3, 4, 6>>, 0),
         Selector("SmootherSelector", 0, {2}), Node("SingleTrigger", <<5>>, 0), Action, Action, Action >>,
    approach     |->
      << Node("PipelineSequence", <<2, 4>>, 0),
         Node("PathLongerOnApproach", <<3>>, 2), Action, Action >>,
    selectors    |->
      << Node("Sequence", <<2, 3, 4>>, 0), Selector("GoalCheckerSelector", 0, {1, 2}),
         Selector("ProgressCheckerSelector", 1, {2}), Action >>,
    planner_help |-> RecoverFrom("WouldAPlannerRecoveryHelp"),
    controller_help |-> RecoverFrom("WouldAControllerRecoveryHelp"),
    route_help   |-> RecoverFrom("WouldARouteRecoveryHelp"),
    smoother_help |-> RecoverFrom("WouldASmootherRecoveryHelp"),
    time_expired |-> Watch("TimeExpired"),
    distance_traveled |-> Watch("DistanceTraveled"),
    goal_updated_condition |-> Watch("GoalUpdated"),
    path_expiring |-> Watch("PathExpiringTimer"),
    transform    |-> Watch("TransformAvailable"),
    stuck        |-> Watch("IsStuck"),
    battery      |->
      << Node("ReactiveFallback", <<2, 3, 4, 5>>, 0), Node("IsBatteryLow", <<>>, 0),
         Node("IsBatteryCharging", <<>>, 0), Node("InitialPoseReceived", <<>>, 0), Action >> ]

Kind(n) == Shape[tree][n].kind
Kids(n) == Shape[tree][n].kids
Arg(n) == Shape[tree][n].arg
Nodes == DOMAIN Shape[tree]
KidsOf(n) == {Kids(n)[i] : i \in DOMAIN Kids(n)}

\* A function on Nodes is a sequence; written as one, TLC evaluates it at once.
NodeTuple(f) == f \o <<>>
-----------------------------------------------------------------------------
(***************************************************************************)
(* The data members of the nodes when the tree is made.  A member that is  *)
(* not initialized is always written before it is read: its value does not *)
(* matter.  Period and distance are the arg of the node.                   *)
(***************************************************************************)
Sequence_members == [idx |-> 1, skipped |-> 0]
RateController_members == [first |-> FALSE, age |-> 0]
DistanceController_members == [first |-> FALSE, dist |-> 0]
SpeedController_members == [first |-> FALSE, age |-> 0, period |-> 1, goal |-> NoGoal]
GoalUpdatedController_members == [goal |-> NoGoal, updated |-> FALSE]
GoalUpdater_members == NoGoal  \* last_goal_received_
PathLongerOnApproach_members == [old |-> NoPath, first |-> TRUE]
SingleTrigger_members == FALSE  \* first_time_
TimeExpired_members == [age |-> 0]
DistanceTraveled_members == [dist |-> 0]
GoalUpdated_members == [goal |-> NoGoal]
GlobalUpdatedGoal_members == [first |-> TRUE, goal |-> NoGoal]
PathExpiringTimer_members == [first |-> TRUE, path |-> NoPath, age |-> 0]
TransformAvailable_members == FALSE  \* was_found_
IsStuck_members == [odom |-> 0, braking |-> FALSE]
IsBatteryLow_members == FALSE
IsBatteryCharging_members == FALSE
FollowPath_members == NoPath  \* the path of the goal that was sent

initial_members(n) ==
  CASE Kind(n) = "PipelineSequence"     -> PipelineSequence_members
    [] Kind(n) = "RecoveryNode"         -> RecoveryNode_members
    [] Kind(n) = "RoundRobin"           -> RoundRobin_members
    [] Kind(n) = "Sequence"             -> Sequence_members
    [] Kind(n) = "RateController"       -> RateController_members
    [] Kind(n) = "DistanceController"   -> DistanceController_members
    [] Kind(n) = "SpeedController"      -> SpeedController_members
    [] Kind(n) = "GoalUpdatedController" -> GoalUpdatedController_members
    [] Kind(n) = "GoalUpdater"          -> GoalUpdater_members
    [] Kind(n) = "PathLongerOnApproach" -> PathLongerOnApproach_members
    [] Kind(n) = "SingleTrigger"        -> SingleTrigger_members
    [] Kind(n) = "TimeExpired"          -> TimeExpired_members
    [] Kind(n) = "DistanceTraveled"     -> DistanceTraveled_members
    [] Kind(n) = "GoalUpdated"          -> GoalUpdated_members
    [] Kind(n) = "GlobalUpdatedGoal"    -> GlobalUpdatedGoal_members
    [] Kind(n) = "PathExpiringTimer"    -> PathExpiringTimer_members
    [] Kind(n) = "TransformAvailable"   -> TransformAvailable_members
    [] Kind(n) = "IsStuck"              -> IsStuck_members
    [] Kind(n) = "IsBatteryLow"         -> IsBatteryLow_members
    [] Kind(n) = "IsBatteryCharging"    -> IsBatteryCharging_members
    [] Kind(n) = "FollowPath"           -> FollowPath_members
    [] OTHER                            -> 0
-----------------------------------------------------------------------------
(***************************************************************************)
(* BehaviorTree.CPP: what the nodes inherit from TreeNode, ControlNode and *)
(* DecoratorNode.                                                          *)
(***************************************************************************)
Outcome(r, t) == [r |-> r, s |-> t]
isStatusActive(n, t) == t.st[n] \notin {"IDLE", "SKIPPED"}
setStatus(n, t) == [t EXCEPT !.st[n] = "RUNNING"]

RECURSIVE executeTick(_, _)

\* The nodes on which halt() is called when it is called on n: a node passes
\* it on to its children that are RUNNING.
RECURSIVE HaltedBy(_, _)
HaltedBy(n, t) ==
  {n} \cup UNION {HaltedBy(k, t) : k \in {k \in KidsOf(n) : t.st[k] = "RUNNING"}}

\* PipelineSequence::halt, RecoveryNode::halt and RoundRobinNode::halt reset
\* their members; those of the other nodes outlive a halt.
halt_members(n, m) ==
  IF Kind(n) \in {"PipelineSequence", "RecoveryNode", "RoundRobin", "Sequence"}
  THEN initial_members(n) ELSE m

\* ComputePathToPoseAction::halt empties the path on the blackboard.
halt_path(H, path) ==
  IF \E n \in H : Kind(n) = "ComputePathToPose" THEN NoPath ELSE path

\* halt() on the nodes of H; their children, and the nodes of R, are reset.
halted(H, R, t) ==
  LET idle == H \cup R \cup UNION {KidsOf(n) : n \in H}
  IN [t EXCEPT !.st = NodeTuple([n \in Nodes |-> IF n \in idle THEN "IDLE" ELSE t.st[n]]),
               !.mem = NodeTuple([n \in Nodes |-> IF n \in H THEN halt_members(n, t.mem[n]) ELSE t.mem[n]]),
               !.bb.path = halt_path(H, @)]

halt(n, t) == halted(HaltedBy(n, t), {}, t)
haltChild(k, t) == halted(IF t.st[k] = "RUNNING" THEN HaltedBy(k, t) ELSE {}, {k}, t)
haltChildren(n, t) ==
  halted(UNION {HaltedBy(k, t) : k \in {k \in KidsOf(n) : t.st[k] = "RUNNING"}}, KidsOf(n), t)
haltTree(t) == halted(Nodes, Nodes, t)

Decorators == {"RateController", "SpeedController", "DistanceController", "GoalUpdatedController",
               "GoalUpdater", "SingleTrigger", "PathLongerOnApproach", "Inverter"}

\* DecoratorNode::executeTick resets a child that has ended.
reset_ended_child(n, t) ==
  [t EXCEPT !.st = NodeTuple([k \in Nodes |->
     IF Kind(n) \in Decorators /\ k \in KidsOf(n) /\ t.st[k] \in {"SUCCESS", "FAILURE"}
     THEN "IDLE" ELSE t.st[k]])]

\* Sequence::tick, with memory: a child that has succeeded is not ticked again.
RECURSIVE Sequence_tick(_, _)
Sequence_tick(n, t) ==
  LET m == t.mem[n]
      reset(u) == [haltChildren(n, u) EXCEPT !.mem[n] = halt_members(n, m)]
  IN IF m.idx > Len(Kids(n))
     THEN {Outcome(IF m.skipped = Len(Kids(n)) THEN "SKIPPED" ELSE "SUCCESS", reset(t))}
     ELSE UNION {
            CASE o.r = "RUNNING" -> {o}
              [] o.r = "FAILURE" -> {Outcome("FAILURE", reset(o.s))}
              [] OTHER ->
                   Sequence_tick(n, [o.s EXCEPT
                     !.mem[n] = [idx |-> m.idx + 1,
                                 skipped |-> m.skipped + (IF o.r = "SKIPPED" THEN 1 ELSE 0)]])
            : o \in executeTick(Kids(n)[m.idx], setStatus(n, t))}

\* ReactiveSequence::tick and ReactiveFallback::tick start with the first child
\* every time; "done" is the answer of a child that ends the loop.
RECURSIVE reactive_from(_, _, _, _, _)
reactive_from(n, i, done, skipped, t) ==
  LET others == KidsOf(n) \ {Kids(n)[i]}
  IN IF i > Len(Kids(n))
     THEN {Outcome(CASE skipped = Len(Kids(n)) -> "SKIPPED"
                     [] OTHER -> IF done = "FAILURE" THEN "SUCCESS" ELSE "FAILURE",
                   haltChildren(n, t))}
     ELSE UNION {
            CASE o.r = done -> {Outcome(done, haltChildren(n, o.s))}
              [] o.r = "RUNNING" ->
                   {Outcome("RUNNING",
                      halted(UNION {HaltedBy(k, o.s) : k \in {k \in others : o.s.st[k] = "RUNNING"}},
                             others, o.s))}
              [] o.r = "SKIPPED" -> reactive_from(n, i + 1, done, skipped + 1, haltChild(Kids(n)[i], o.s))
              [] OTHER -> reactive_from(n, i + 1, done, skipped, o.s)
            : o \in executeTick(Kids(n)[i], setStatus(n, t))}

Inverter_tick(n, t) ==
  { CASE o.r = "SUCCESS" -> Outcome("FAILURE", o.s)
      [] o.r = "FAILURE" -> Outcome("SUCCESS", o.s)
      [] OTHER -> o
    : o \in executeTick(Kids(n)[1], setStatus(n, t)) }
-----------------------------------------------------------------------------
(***************************************************************************)
(* Control nodes.                                                          *)
(***************************************************************************)
\* Fault: the children are not halted.
pipeline_reset_forgets_to_halt(n, t) == [t EXCEPT !.mem[n] = 1]
pipeline_reset(n, t) == [haltChildren(n, t) EXCEPT !.mem[n] = 1]

RECURSIVE PipelineSequence_from(_, _, _, _)
PipelineSequence_from(n, i, skipped, t) ==
  IF i > Len(Kids(n))
  THEN {Outcome(IF skipped = Len(Kids(n)) THEN "SKIPPED" ELSE "SUCCESS", pipeline_reset(n, t))}
  ELSE UNION {
         CASE o.r = "FAILURE" -> {Outcome("FAILURE", pipeline_reset(n, o.s))}
           [] o.r = "RUNNING" /\ pipeline_stops(o.s.mem[n], i) ->
                {Outcome("RUNNING", [o.s EXCEPT !.mem[n] = i])}
           [] OTHER -> PipelineSequence_from(n, i + 1,
                         skipped + (IF o.r = "SKIPPED" THEN 1 ELSE 0), o.s)
         : o \in executeTick(Kids(n)[i], t)}

\* The loop of RecoveryNode::tick.
RECURSIVE RecoveryNode_tick(_, _)
RecoveryNode_tick(n, t) ==
  LET m == t.mem[n]
      k == Kids(n)[m.idx]
  IN IF ~ recovery_in_loop(m, Arg(n))
     THEN {Outcome("FAILURE", halt(n, t))}
     ELSE UNION {
            CASE o.r = "RUNNING" -> {o}
              [] m.idx = 1 /\ o.r \in {"SKIPPED", "SUCCESS"} -> {Outcome(o.r, halt(n, haltChild(Kids(n)[2], o.s)))}
              [] m.idx = 1 /\ o.r = "FAILURE" ->
                   IF recovery_left(m, Arg(n))
                   THEN RecoveryNode_tick(n, [haltChild(k, o.s) EXCEPT !.mem[n] = recovery_begins(m)])
                   ELSE {Outcome("FAILURE", halt(n, o.s))}
              [] m.idx = 2 /\ o.r = "SKIPPED" ->
                   {Outcome("FAILURE", [haltChild(k, o.s) EXCEPT !.mem[n] = recovery_skipped(m)])}
              [] m.idx = 2 /\ o.r = "SUCCESS" ->
                   RecoveryNode_tick(n, [haltChild(k, o.s) EXCEPT !.mem[n] = recovery_succeeds(m)])
              [] m.idx = 2 /\ o.r = "FAILURE" -> {Outcome("FAILURE", halt(n, o.s))}
            : o \in executeTick(k, setStatus(n, t))}

\* The loop of RoundRobinNode::tick.
RECURSIVE RoundRobin_from(_, _, _)
RoundRobin_from(n, skipped, t) ==
  LET m == t.mem[n]
      N == Len(Kids(n))
  IN IF round_robin_gives_up(m, skipped, N)
     THEN {Outcome(IF skipped = N THEN "SKIPPED" ELSE "FAILURE",
                   [halt(n, t) EXCEPT !.complete = @ /\ m.tried = 1 .. N])}
     ELSE UNION {
            CASE o.r = "RUNNING" -> {o}
              [] o.r = "SUCCESS" ->
                   {Outcome("SUCCESS", [haltChildren(n, o.s) EXCEPT
                      !.mem[n] = round_robin_success(round_robin_ended(m, N, o.r))])}
              [] OTHER -> RoundRobin_from(n, skipped + (IF o.r = "SKIPPED" THEN 1 ELSE 0),
                                          [o.s EXCEPT !.mem[n] = round_robin_ended(m, N, o.r)])
            : o \in executeTick(Kids(n)[m.idx], setStatus(n, t))}
-----------------------------------------------------------------------------
(***************************************************************************)
(* Decorators.  pass(n, t) ticks the only child.                           *)
(***************************************************************************)
pass(n, t) == executeTick(Kids(n)[1], t)
child_runs(n, t) == t.st[Kids(n)[1]] = "RUNNING"
wait(n, t) == {Outcome("RUNNING", t)}

\* Fault: the period never ends.
rate_due_never(n, m, t) == m.first \/ child_runs(n, t)
rate_due(n, m, t) == m.first \/ child_runs(n, t) \/ m.age >= Arg(n)

RateController_tick(n, t) ==
  LET m == IF isStatusActive(n, t) THEN t.mem[n] ELSE [first |-> TRUE, age |-> 0]
      u == [setStatus(n, t) EXCEPT !.mem[n] = m]
  IN IF ~ rate_due(n, m, t)
     THEN wait(n, u)
     ELSE { IF o.r = "SUCCESS" THEN Outcome("SUCCESS", [o.s EXCEPT !.mem[n].age = 0]) ELSE o
            : o \in pass(n, [u EXCEPT !.mem[n].first = FALSE]) }

\* getCurrentPose may fail: before the node is RUNNING, or after.
DistanceController_tick(n, t) ==
  LET m == IF isStatusActive(n, t) THEN t.mem[n] ELSE [first |-> TRUE, dist |-> 0]
      u == [setStatus(n, t) EXCEPT !.mem[n] = m]
      fails(v) == {Outcome("FAILURE", v)}
  IN fails(t) \cup fails(u) \cup
     IF ~ (m.first \/ child_runs(n, t) \/ m.dist >= Arg(n))
     THEN wait(n, u)
     ELSE UNION { IF o.r = "SUCCESS"
                  THEN fails(o.s) \cup {Outcome("SUCCESS", [o.s EXCEPT !.mem[n].dist = 0])}
                  ELSE {o}
                  : o \in pass(n, [u EXCEPT !.mem[n].first = FALSE]) }

\* updatePeriod: between 1 / max_rate, one unit, and 1 / min_rate, the arg.
updatePeriod(n) == 1 .. Arg(n)

SpeedController_tick(n, t) ==
  LET m == IF isStatusActive(n, t) /\ t.mem[n].goal = t.bb.goal
           THEN t.mem[n]
           ELSE [first |-> TRUE, age |-> 0, period |-> 1, goal |-> t.bb.goal]
      u == [setStatus(n, t) EXCEPT !.mem[n] = m]
      ticking(v) == pass(n, [v EXCEPT !.mem[n].first = FALSE])
  IN IF m.age >= m.period
     THEN UNION { ticking([u EXCEPT !.mem[n] = [m EXCEPT !.period = p, !.age = 0]])
                  : p \in updatePeriod(n) }
     ELSE IF m.first \/ child_runs(n, t) THEN ticking(u) ELSE wait(n, u)

GoalUpdatedController_tick(n, t) ==
  LET updated == \/ ~ isStatusActive(n, t)
                 \/ t.mem[n].goal # t.bb.goal
                 \/ t.mem[n].updated
      u == [setStatus(n, t) EXCEPT !.mem[n] = [goal |-> t.bb.goal, updated |-> FALSE]]
  IN IF child_runs(n, t) \/ updated THEN pass(n, u) ELSE wait(n, u)

\* The messages that are waiting are received in the tick: the last one counts.
\* Goals are stamped in the order of their numbers.
GoalUpdater_tick(n, t) ==
  UNION { pass(n, [t EXCEPT !.mem[n] = r,
                            !.bb.updated_goal = IF r \in Goals /\ r >= t.bb.goal THEN r ELSE t.bb.goal])
          : r \in {t.mem[n], Unstamped} \cup Goals }

SingleTrigger_tick(n, t) ==
  IF ~ isStatusActive(n, t) \/ t.mem[n]
  THEN { [o EXCEPT !.s.mem[n] = o.r \in {"SKIPPED", "RUNNING"}] : o \in pass(n, setStatus(n, t)) }
  ELSE {Outcome("FAILURE", setStatus(n, t))}

\* isPathUpdated, isRobotInGoalProximity and isNewPathLonger: the new path has
\* the same end and more than twice the length of the old one, which is short.
path_gets_longer(new, old, prox_len) ==
  /\ old # NoPath /\ new # NoPath
  /\ new[1] = old[1] /\ new[2] # old[2]
  /\ old[2] < prox_len
  /\ new[2] > 2 * old[2]

PathLongerOnApproach_tick(n, t) ==
  LET new == t.bb.path
      old == t.mem[n].old
      first == t.mem[n].first \/ old = NoPath \/ new = NoPath \/ old[1] # new[1]
      u == setStatus(n, t)
      seen(v, f) == [v EXCEPT !.mem[n] = [old |-> new, first |-> f]]
  IN IF path_gets_longer(new, old, Arg(n)) /\ ~ first
     THEN { IF o.r \in {"SUCCESS", "FAILURE"}
            THEN Outcome(o.r, haltChild(Kids(n)[1], seen(o.s, first))) ELSE o
            : o \in pass(n, u) }
     ELSE {Outcome("SUCCESS", seen(u, FALSE))}
-----------------------------------------------------------------------------
(***************************************************************************)
(* Conditions.                                                             *)
(***************************************************************************)
Answer(b, t) == {Outcome(IF b THEN "SUCCESS" ELSE "FAILURE", t)}

TimeExpired_tick(n, t) ==
  IF isStatusActive(n, t) /\ t.mem[n].age < Arg(n)
  THEN Answer(FALSE, t)
  ELSE Answer(isStatusActive(n, t), [t EXCEPT !.mem[n].age = 0])

\* Without a pose the answer is FAILURE and start_pose_ is kept.
DistanceTraveled_tick(n, t) ==
  Answer(FALSE, t) \cup
  IF isStatusActive(n, t) /\ t.mem[n].dist < Arg(n)
  THEN Answer(FALSE, t)
  ELSE Answer(isStatusActive(n, t), [t EXCEPT !.mem[n].dist = 0])

GoalUpdated_tick(n, t) ==
  Answer(isStatusActive(n, t) /\ t.mem[n].goal # t.bb.goal, [t EXCEPT !.mem[n].goal = t.bb.goal])

\* first_time is set once, when the tree is made: the goal of the last
\* navigation is remembered.
GlobalUpdatedGoal_tick(n, t) ==
  Answer(t.mem[n].first \/ t.mem[n].goal # t.bb.goal,
         [t EXCEPT !.mem[n] = [first |-> FALSE, goal |-> t.bb.goal]])

PathExpiringTimer_tick(n, t) ==
  LET m == t.mem[n]
      age == IF m.first \/ m.path # t.bb.path THEN 0 ELSE m.age
      due == ~ m.first /\ age >= Arg(n)
  IN Answer(due, [t EXCEPT !.mem[n] =
       [first |-> FALSE, path |-> t.bb.path, age |-> IF due THEN 0 ELSE age]])

\* was_found_ is never reset.
TransformAvailable_tick(n, t) ==
  UNION { Answer(f, [t EXCEPT !.mem[n] = f]) : f \in IF t.mem[n] THEN {TRUE} ELSE BOOLEAN }

\* Any number of odometry messages came since the last tick.  The acceleration
\* is computed from the third on; before that it is zero.
IsStuck_tick(n, t) ==
  UNION { Answer(m.braking, [t EXCEPT !.mem[n] = m])
          : m \in {t.mem[n]} \cup
                  {[odom |-> c, braking |-> b /\ c > 2] :
                     c \in {c \in 1 .. 3 : c > t.mem[n].odom \/ c = 3}, b \in BOOLEAN} }

\* What the last of the messages says that came since the last tick, if any came.
last_heard(n, t) == UNION { Answer(b, [t EXCEPT !.mem[n] = b]) : b \in BOOLEAN }
IsBatteryLow_tick(n, t) == last_heard(n, t)
IsBatteryCharging_tick(n, t) == last_heard(n, t)

\* A flag on the blackboard that the navigator's process may set at any time.
InitialPoseReceived_tick(n, t) == Answer(TRUE, t) \cup Answer(FALSE, t)

\* The codes of ComputePathToPose: the alias for the results of
\* ComputePathThroughPoses names the same type, and its codes (300 on) are not
\* among them.
WouldAPlannerRecoveryHelp == {200, 207, 208}
WouldAControllerRecoveryHelp == {100, 104, 105, 106}
WouldARouteRecoveryHelp == {400, 404, 405}
WouldASmootherRecoveryHelp == {500, 502, 503, 504}

error_codes_to_check_ ==
  [ WouldAPlannerRecoveryHelp    |-> WouldAPlannerRecoveryHelp,
    WouldAControllerRecoveryHelp |-> WouldAControllerRecoveryHelp,
    WouldARouteRecoveryHelp      |-> WouldARouteRecoveryHelp,
    WouldASmootherRecoveryHelp   |-> WouldASmootherRecoveryHelp ]

AreErrorCodesPresent_tick(n, t) == Answer(t.bb.error \in error_codes_to_check_[Kind(n)], t)
-----------------------------------------------------------------------------
(***************************************************************************)
(* Actions.                                                                *)
(***************************************************************************)
\* The selectors take the last name received, or else the default one.
select(n, t) ==
  UNION { IF name = 0 /\ Arg(n).default = 0
          THEN Answer(FALSE, [t EXCEPT !.mem[n] = name])
          ELSE Answer(TRUE, [t EXCEPT !.mem[n] = IF name = 0 THEN Arg(n).default ELSE name])
          : name \in {t.mem[n]} \cup Arg(n).messages }
ControllerSelector_tick(n, t) == select(n, t)
PlannerSelector_tick(n, t) == select(n, t)
SmootherSelector_tick(n, t) == select(n, t)
GoalCheckerSelector_tick(n, t) == select(n, t)
ProgressCheckerSelector_tick(n, t) == select(n, t)

\* on_tick reads the goal when the action starts, and only then.
ComputePathToPose_tick(n, t) ==
  LET goal == IF t.st[n] = "RUNNING" THEN t.mem[n] ELSE t.bb[Arg(n)]
      u == [t EXCEPT !.mem[n] = goal]
  IN {Outcome("RUNNING", u), Outcome("SUCCESS", [u EXCEPT !.bb.path = <<goal, 1>>])}
     \cup {Outcome("FAILURE", [u EXCEPT !.bb.path = p]) : p \in {NoPath, t.bb.path}}

\* A path that has changed is sent to the server, unless it is empty or the
\* result for the one before has come already.
FollowPath_tick(n, t) ==
  LET fresh == t.st[n] # "RUNNING"
      path == t.bb[Arg(n)]
      u == [t EXCEPT !.mem[n] = IF fresh \/ path # NoPath THEN path ELSE @]
      at_end == {v \in {u} \cup (IF fresh THEN {} ELSE {t}) : v.mem[n] # NoPath}
  IN {Outcome("RUNNING", u), Outcome("FAILURE", u)} \cup {Outcome("SUCCESS", v) : v \in at_end}

\* The robot's pose may not be known.  What is left of an empty path is empty.
TruncatePathLocal_tick(n, t) == Answer(FALSE, t) \cup Answer(TRUE, [t EXCEPT !.bb.local = t.bb.path])
TruncatePath_tick(n, t) == Answer(TRUE, [t EXCEPT !.bb.local = t.bb.path])
PublishPath_tick(n, t) == Answer(TRUE, t)

\* The map may have changed; a server that does not answer in time counts as no.
IsPathValid_tick(n, t) == Answer(FALSE, t) \cup (IF t.bb.local # NoPath THEN Answer(TRUE, t) ELSE {})

\* Any other action; it may have a precondition that skips it when it is idle.
Action_tick(n, t) ==
  {Outcome(r, t) : r \in {"RUNNING", "SUCCESS", "FAILURE"}}
  \cup (IF t.st[n] # "RUNNING" THEN {Outcome("SKIPPED", t)} ELSE {})

\* One that puts its error code on the blackboard: 0 with a success.
ErrorAction_tick(n, t) ==
  {Outcome("RUNNING", t), Outcome("SUCCESS", [t EXCEPT !.bb.error = 0])}
  \cup {Outcome("FAILURE", [t EXCEPT !.bb.error = e]) : e \in {100, 202, 207, 308, 405, 503}}
-----------------------------------------------------------------------------
tick(n, t) ==
  CASE Kind(n) = "PipelineSequence"      -> PipelineSequence_from(n, 1, 0, t)
    [] Kind(n) = "RecoveryNode"          -> RecoveryNode_tick(n, t)
    [] Kind(n) = "RoundRobin"            -> RoundRobin_from(n, 0, t)
    [] Kind(n) = "Sequence"              -> Sequence_tick(n, t)
    [] Kind(n) = "ReactiveSequence"      -> reactive_from(n, 1, "FAILURE", 0, t)
    [] Kind(n) = "ReactiveFallback"      -> reactive_from(n, 1, "SUCCESS", 0, t)
    [] Kind(n) = "Inverter"              -> Inverter_tick(n, t)
    [] Kind(n) = "RateController"        -> RateController_tick(n, t)
    [] Kind(n) = "DistanceController"    -> DistanceController_tick(n, t)
    [] Kind(n) = "SpeedController"       -> SpeedController_tick(n, t)
    [] Kind(n) = "GoalUpdatedController" -> GoalUpdatedController_tick(n, t)
    [] Kind(n) = "GoalUpdater"           -> GoalUpdater_tick(n, t)
    [] Kind(n) = "SingleTrigger"         -> SingleTrigger_tick(n, t)
    [] Kind(n) = "PathLongerOnApproach"  -> PathLongerOnApproach_tick(n, t)
    [] Kind(n) = "TimeExpired"           -> TimeExpired_tick(n, t)
    [] Kind(n) = "DistanceTraveled"      -> DistanceTraveled_tick(n, t)
    [] Kind(n) = "GoalUpdated"           -> GoalUpdated_tick(n, t)
    [] Kind(n) = "GlobalUpdatedGoal"     -> GlobalUpdatedGoal_tick(n, t)
    [] Kind(n) = "PathExpiringTimer"     -> PathExpiringTimer_tick(n, t)
    [] Kind(n) = "TransformAvailable"    -> TransformAvailable_tick(n, t)
    [] Kind(n) = "IsStuck"               -> IsStuck_tick(n, t)
    [] Kind(n) = "IsBatteryLow"          -> IsBatteryLow_tick(n, t)
    [] Kind(n) = "IsBatteryCharging"     -> IsBatteryCharging_tick(n, t)
    [] Kind(n) = "InitialPoseReceived"   -> InitialPoseReceived_tick(n, t)
    [] Kind(n) \in DOMAIN error_codes_to_check_ -> AreErrorCodesPresent_tick(n, t)
    [] Kind(n) = "ControllerSelector"    -> ControllerSelector_tick(n, t)
    [] Kind(n) = "PlannerSelector"       -> PlannerSelector_tick(n, t)
    [] Kind(n) = "SmootherSelector"      -> SmootherSelector_tick(n, t)
    [] Kind(n) = "GoalCheckerSelector"   -> GoalCheckerSelector_tick(n, t)
    [] Kind(n) = "ProgressCheckerSelector" -> ProgressCheckerSelector_tick(n, t)
    [] Kind(n) = "ComputePathToPose"     -> ComputePathToPose_tick(n, t)
    [] Kind(n) = "FollowPath"            -> FollowPath_tick(n, t)
    [] Kind(n) = "TruncatePathLocal"     -> TruncatePathLocal_tick(n, t)
    [] Kind(n) = "TruncatePath"          -> TruncatePath_tick(n, t)
    [] Kind(n) = "PublishPath"           -> PublishPath_tick(n, t)
    [] Kind(n) = "IsPathValid"           -> IsPathValid_tick(n, t)
    [] Kind(n) = "Action"                -> Action_tick(n, t)
    [] Kind(n) = "ErrorAction"           -> ErrorAction_tick(n, t)

\* TreeNode::executeTick stores the status, unless the node was skipped.
executeTick(n, t) ==
  { [o EXCEPT !.s = reset_ended_child(n,
       IF o.r = "SKIPPED" THEN o.s
       ELSE [o.s EXCEPT !.st[n] = o.r,
                        !.ran = IF o.r = "RUNNING" /\ Kids(n) = <<>> THEN @ \cup {n} ELSE @])]
    : o \in tick(n, t) }
-----------------------------------------------------------------------------
(***************************************************************************)
(* The navigator and the world around the tree.                            *)
(***************************************************************************)
NoResult == [result |-> "none", goal |-> NoGoal, followed |-> NoGoal, stale |-> 0]

TreeInit ==
  /\ tree \in Trees
  /\ s = [st |-> NodeTuple([n \in Nodes |-> "IDLE"]), mem |-> NodeTuple([n \in Nodes |-> initial_members(n)]),
          bb |-> [goal |-> NoGoal, updated_goal |-> NoGoal, path |-> NoPath, local |-> NoPath, error |-> 0],
          ran |-> {}, complete |-> TRUE]
  /\ navigating = FALSE
  /\ ticked = FALSE
  /\ last = NoResult
  /\ stale = 0

Runs(kind, t) == {n \in Nodes : Kind(n) = kind /\ t.st[n] = "RUNNING"}
Followed(t) == {t.mem[n][1] : n \in {n \in Nodes : Kind(n) = "FollowPath"}}

\* initializeGoalPose puts the goal on the blackboard and the loop starts.
Navigate(g) ==
  /\ ~ navigating
  /\ navigating' = TRUE
  /\ s' = [s EXCEPT !.bb.goal = g]
  /\ ticked' = FALSE
  /\ last' = NoResult
  /\ stale' = 0
  /\ UNCHANGED tree

\* onPreempt of the navigator replaces the goal under the running tree.
onPreempt(g) ==
  /\ navigating
  /\ g # s.bb.goal
  /\ s' = [s EXCEPT !.bb.goal = g]
  /\ stale' = 0
  /\ UNCHANGED <<tree, navigating, ticked, last>>

\* One turn of the loop: tickOnce; when the tree has ended, everything is halted.
run_tick ==
  /\ navigating
  /\ \E o \in executeTick(1, [s EXCEPT !.ran = {}]) :
       IF o.r = "RUNNING"
       THEN /\ s' = o.s
            /\ stale' = IF Runs("ComputePathToPose", o.s) # {} \/ s.bb.goal \in Followed(o.s)
                        THEN 0 ELSE stale
            /\ UNCHANGED <<navigating, last>>
       ELSE /\ s' = [haltTree(o.s) EXCEPT !.ran = {}]
            /\ navigating' = FALSE
            /\ stale' = 0
            /\ last' = [result |-> o.r, goal |-> s.bb.goal, stale |-> stale,
                        followed |-> IF Followed(o.s) = {} THEN NoGoal
                                     ELSE CHOOSE g \in Followed(o.s) : TRUE]
  /\ ticked' = TRUE
  /\ UNCHANGED tree

\* cancelRequested() is true: the tree is halted and the loop ends.
run_cancel ==
  /\ navigating
  /\ s' = [haltTree(s) EXCEPT !.ran = {}]
  /\ navigating' = FALSE
  /\ last' = [NoResult EXCEPT !.result = "CANCELED"]
  /\ stale' = 0
  /\ UNCHANGED <<tree, ticked>>

\* Somebody else writes the path that PathLongerOnApproach and PathExpiringTimer read.
set_path(p) ==
  /\ navigating
  /\ tree \in {"approach", "path_expiring"}
  /\ s' = [s EXCEPT !.bb.path = p]
  /\ UNCHANGED <<tree, navigating, ticked, last, stale>>

\* Timers and odometers stop counting at the limit they are compared with.
aged(n, m, field) ==
  IF field \in DOMAIN m /\ m[field] < Arg(n) THEN [m EXCEPT ![field] = @ + 1] ELSE m

Timed == {"RateController", "SpeedController", "TimeExpired", "PathExpiringTimer"}
Metered == {"DistanceController", "DistanceTraveled"}

\* A unit of time passes, in which the robot may move; the loop turns many
\* times in a unit.
pass_time ==
  /\ navigating
  /\ ticked
  /\ \E moves \in {m \in BOOLEAN : m => \E n \in Nodes : Kind(n) \in Metered} :
       s' = [s EXCEPT !.mem = NodeTuple([n \in Nodes |->
         IF Kind(n) \in Timed THEN aged(n, @[n], "age")
         ELSE IF Kind(n) \in Metered /\ moves THEN aged(n, @[n], "dist")
         ELSE @[n]])]
  /\ stale' = IF Runs("FollowPath", s) # {} /\ s.bb.goal \notin Followed(s)
                 /\ Runs("ComputePathToPose", s) = {} /\ stale <= Period
              THEN stale + 1 ELSE stale
  /\ ticked' = FALSE
  /\ UNCHANGED <<tree, navigating, last>>

Paths == {NoPath} \cup (Goals \X (1 .. 3))

TreeNext ==
  \/ \E g \in Goals : Navigate(g) \/ onPreempt(g)
  \/ run_tick
  \/ run_cancel
  \/ \E p \in Paths : set_path(p)
  \/ pass_time

\* Time passes and the loop turns; an action that is ticked again and again ends
\* again and again: what RunningEnds of BtActionNode says of its nodes.  The
\* actions of every tree are among its nodes 2 to 8.
ended(n) == n \in DOMAIN s.st /\ s.st[n] = "RUNNING" /\ s'.st[n] # "RUNNING"

TreeFairness ==
  /\ WF_treeVars(pass_time)
  /\ []<>(~ navigating \/ ticked)
  /\ \A n \in 2 .. 8 : []<>(n \in s.ran) => []<><<ended(n)>>_treeVars

TreeSpec == TreeInit /\ [][TreeNext]_treeVars /\ TreeFairness
-----------------------------------------------------------------------------
(***************************************************************************)
(* Properties.                                                             *)
(***************************************************************************)
\* No action is left running below a node that has ended, where nothing ticks or
\* halts it.  PathLongerOnApproach and DistanceController may answer without
\* looking at a child that runs, and do leave it: of them the property says that
\* the end of the navigation, whichever it is, ends what they have left.
LeavesItsChild == {"PathLongerOnApproach", "DistanceController"}

NoOrphanedAction ==
  \A n \in Nodes : \A k \in KidsOf(n) :
    s.st[k] = "RUNNING" =>
      s.st[n] = "RUNNING" \/ (navigating /\ Kind(n) \in LeavesItsChild)

\* RecoveryNode: in one run of the node its first child is given at most
\* number_of_retries further chances, however the node is nested, interrupted
\* and resumed.
RecoveriesBounded ==
  \A n \in Nodes : Kind(n) = "RecoveryNode" =>
    RecoveryBounded(s.mem[n], Arg(n))

\* RoundRobin gives up only when every one of its children was tried since its
\* last success, although children that are skipped are counted anew in each tick.
RoundIsComplete == s.complete

\* FollowPath never runs on an empty path, although a halted ComputePathToPose
\* empties the path on the blackboard and the pipeline ticks on past it.
FollowsComputedPath ==
  \A n \in Runs("FollowPath", s) : s.mem[n] # NoPath

\* The trees that replan periodically report success for a goal only on a path
\* to it, or at most a period after a new goal came: the answer of FollowPath may
\* come with the very tick that starts the planning.  Time spent planning is not
\* counted.
ReplansInTime ==
  (tree \in {"time", "speed"} /\ last.result = "SUCCESS") =>
    last.followed = last.goal \/ last.stale <= Period

\* "replanning on goal updates" (README.md): the same of the default tree and of
\* the tree named after it.
GoalUpdateReplanned ==
  (tree \in {"default", "goal_updated"} /\ last.result = "SUCCESS") =>
    last.followed = last.goal \/ last.stale <= Period

\* When its actions end, so does the tree: no decorator starves the node behind
\* it and no retry is repeated for ever.
NavigationEnds == navigating ~> ~ navigating
=============================================================================
