------------------------------ MODULE Checkers ------------------------------
(***************************************************************************)
(* The goal checkers (SimpleGoalChecker, StoppedGoalChecker,               *)
(* PositionGoalChecker) and the progress checkers (SimpleProgressChecker,  *)
(* PoseProgressChecker) of nav3d_controller, and the two conditions of     *)
(* nav3d_behavior_tree that ask the same (GoalReached, ArePosesNear).  A   *)
(* caller asks, resets for a new goal and sets parameters in any order;    *)
(* what a checker remembers between two questions is what can go wrong.    *)
(*                                                                         *)
(* A pose is given relative to the goal: x stands for the two horizontal   *)
(* coordinates, z is the height, yaw counts quarter turns.                 *)
(***************************************************************************)
EXTENDS Integers

CONSTANTS
  Span,        \* the largest coordinate of a pose
  Tolerances,  \* the values of the tolerances, radii, angles and velocities
  Allowances   \* the values of movement_time_allowance

ASSUME CheckersAssumption ==
  /\ Span \in Nat
  /\ Tolerances \subseteq Nat /\ Tolerances # {}
  /\ Allowances \subseteq Nat /\ Allowances # {}

VARIABLES
  checker,  \* the plugin: its kind, its parameters and what it remembers
  asked,    \* the question that was just asked, and its answer
  history   \* what the caller could have seen since the last reset

checkerVars == <<checker, asked, history>>

GoalConditions == {"goal_reached", "poses_near"}
GoalCheckers == {"simple", "stopped", "position"} \cup GoalConditions
ProgressCheckers == {"simple_progress", "pose_progress"}

PoseSet == [x : 0 .. Span, z : 0 .. Span, yaw : 0 .. 3]
Velocities == [linear : Tolerances, angular : Tolerances]

\* angles::shortest_angular_distance, without its sign.
shortest_angular_distance(a, b) ==
  LET d == (a - b) % 4 IN IF d > 2 THEN 4 - d ELSE d

\* One tick beyond the longest allowance is as good as any later one.
Later(t) == IF \E a \in Allowances : t <= a THEN t + 1 ELSE t
-----------------------------------------------------------------------------
(***************************************************************************)
(* Goal checkers.  `latched' is ~check_xyz_ of SimpleGoalChecker and       *)
(* position_reached_ of PositionGoalChecker.                               *)
(***************************************************************************)
GoalParameters(kind) ==
  CASE kind = "simple" -> {"tolerance", "yaw_tolerance"}
    [] kind = "stopped" -> {"tolerance", "yaw_tolerance", "rot_stopped", "trans_stopped"}
    [] OTHER -> {"tolerance"}

GoalChecker_initialize(kind) ==
  {[kind |-> kind, latched |-> FALSE, stateful |-> kept, p |-> p] :
     kept \in IF kind \in GoalConditions THEN {FALSE} ELSE BOOLEAN,
     p \in [GoalParameters(kind) -> Tolerances]}

xyz_in_window(c, q) == q.x * q.x + q.z * q.z <= c.p["tolerance"] * c.p["tolerance"]
xy_in_window(c, q) == q.x * q.x <= c.p["tolerance"] * c.p["tolerance"]
in_window(c, q) == IF c.kind \in {"simple", "stopped"} THEN xyz_in_window(c, q) ELSE xy_in_window(c, q)

\* The answer, and the checker after it.
SimpleGoalChecker_isGoalReached(c, q) ==
  IF ~c.latched /\ ~xyz_in_window(c, q)
  THEN [answer |-> FALSE, after |-> c]
  ELSE [answer |-> shortest_angular_distance(q.yaw, 0) <= c.p["yaw_tolerance"],
        after |-> [c EXCEPT !.latched = @ \/ c.stateful]]

StoppedGoalChecker_isGoalReached(c, q, v) ==
  LET window == SimpleGoalChecker_isGoalReached(c, q)
  IN [window EXCEPT !.answer = @ /\ v.angular <= c.p["rot_stopped"] /\ v.linear <= c.p["trans_stopped"]]

PositionGoalChecker_isGoalReached(c, q) ==
  LET reached == (c.stateful /\ c.latched) \/ xy_in_window(c, q)
  IN [answer |-> reached, after |-> [c EXCEPT !.latched = @ \/ (c.stateful /\ reached)]]

\* The conditions look at the horizontal distance alone and remember nothing.
\* The pose or its transform may not be known.
GoalReachedCondition_isGoalReached(c, q, known) ==
  [answer |-> known /\ xy_in_window(c, q), after |-> c]
arePosesNearby(c, q, known) ==
  [answer |-> known /\ xy_in_window(c, q), after |-> c]

isGoalReached(c, q, v, known) ==
  CASE c.kind = "simple" -> SimpleGoalChecker_isGoalReached(c, q)
    [] c.kind = "stopped" -> StoppedGoalChecker_isGoalReached(c, q, v)
    [] c.kind = "position" -> PositionGoalChecker_isGoalReached(c, q)
    [] c.kind = "goal_reached" -> GoalReachedCondition_isGoalReached(c, q, known)
    [] c.kind = "poses_near" -> arePosesNearby(c, q, known)

\* std::numeric_limits<double>::lowest(): the field means nothing.
invalid_field == -1

SimpleGoalChecker_getTolerances(c) ==
  [x |-> c.p["tolerance"], z |-> c.p["tolerance"], yaw |-> c.p["yaw_tolerance"],
   linear |-> invalid_field, angular |-> invalid_field]
StoppedGoalChecker_getTolerances(c) ==
  [SimpleGoalChecker_getTolerances(c) EXCEPT !.linear = c.p["trans_stopped"], !.angular = c.p["rot_stopped"]]
\* Its orientation is the identity, which a caller cannot tell from yaw 0.
PositionGoalChecker_getTolerances(c) ==
  [x |-> c.p["tolerance"], z |-> invalid_field, yaw |-> 0,
   linear |-> invalid_field, angular |-> invalid_field]
getTolerances(c) ==
  CASE c.kind = "simple" -> SimpleGoalChecker_getTolerances(c)
    [] c.kind = "stopped" -> StoppedGoalChecker_getTolerances(c)
    [] OTHER -> PositionGoalChecker_getTolerances(c)
-----------------------------------------------------------------------------
(***************************************************************************)
(* Progress checkers.  The baseline is a planar pose: the height is        *)
(* dropped.  `age' is the time since baseline_time_.                       *)
(***************************************************************************)
ProgressParameters(kind) == IF kind = "pose_progress" THEN {"radius", "angle"} ELSE {"radius"}

ProgressChecker_initialize(kind) ==
  {[kind |-> kind, baseline_pose_set |-> FALSE, baseline |-> [x |-> 0, yaw |-> 0], age |-> 0,
    time_allowance |-> a, p |-> p] :
     a \in Allowances, p \in [ProgressParameters(kind) -> Tolerances]}

toPose2D(q) == [x |-> q.x, yaw |-> q.yaw]
pose_distance(a, b) == IF a.x < b.x THEN b.x - a.x ELSE a.x - b.x

SimpleProgressChecker_isRobotMovedEnough(c, q) == pose_distance(q, c.baseline) > c.p["radius"]
PoseProgressChecker_isRobotMovedEnough(c, q) ==
  \/ pose_distance(q, c.baseline) > c.p["radius"]
  \/ shortest_angular_distance(q.yaw, c.baseline.yaw) > c.p["angle"]
isRobotMovedEnough(c, q) ==
  IF c.kind = "pose_progress" THEN PoseProgressChecker_isRobotMovedEnough(c, q)
  ELSE SimpleProgressChecker_isRobotMovedEnough(c, q)

resetBaselinePose(c, q) == [c EXCEPT !.baseline = q, !.age = 0, !.baseline_pose_set = TRUE]

check_progress(c, q) ==
  IF ~c.baseline_pose_set \/ isRobotMovedEnough(c, q)
  THEN [answer |-> TRUE, after |-> resetBaselinePose(c, q)]
  ELSE [answer |-> c.age <= c.time_allowance, after |-> c]
-----------------------------------------------------------------------------
nothing_asked == [question |-> "none"]

CheckersInit ==
  /\ checker \in UNION ({GoalChecker_initialize(k) : k \in GoalCheckers}
                        \cup {ProgressChecker_initialize(k) : k \in ProgressCheckers})
  /\ asked = nothing_asked
  /\ history = [near |-> FALSE, watched |-> -1]

ask_goal(q, v, known) ==
  /\ checker.kind \in GoalCheckers
  /\ checker.kind # "stopped" => v = [linear |-> 0, angular |-> 0]  \* the others do not read it
  /\ checker.kind \notin GoalConditions => known  \* the others are told the pose
  /\ LET r == isGoalReached(checker, q, v, known)
     IN checker' = r.after /\ asked' = [question |-> "goal", q |-> q, v |-> v, answer |-> r.answer]
  /\ history' = [history EXCEPT !.near = @ \/ in_window(checker, q)]

ask_progress(q) ==
  /\ checker.kind \in ProgressCheckers
  /\ LET r == check_progress(checker, toPose2D(q))
     IN checker' = r.after /\ asked' = [question |-> "progress", answer |-> r.answer]
  /\ history' = [history EXCEPT !.watched = IF @ < 0 THEN 0 ELSE @]

\* The caller has the answer and may ask again.
heard == asked # nothing_asked /\ asked' = nothing_asked /\ UNCHANGED <<checker, history>>

\* Fault: the latch of a goal checker outlives the goal.
reset_keeps_latch ==
  /\ checker' = IF checker.kind \in GoalCheckers THEN checker
                ELSE [checker EXCEPT !.baseline_pose_set = FALSE]
  /\ UNCHANGED asked
  /\ history' = [near |-> FALSE, watched |-> -1]
reset ==
  /\ checker' = IF checker.kind \in GoalCheckers THEN [checker EXCEPT !.latched = FALSE]
                ELSE [checker EXCEPT !.baseline_pose_set = FALSE]
  /\ UNCHANGED asked
  /\ history' = [near |-> FALSE, watched |-> -1]

\* The parameter callbacks of the class and of its base class; a parameter of
\* another plugin changes nothing.
set_double(name, value) ==
  /\ name \in DOMAIN checker.p
  /\ checker' = [checker EXCEPT !.p[name] = value]
  /\ UNCHANGED <<asked, history>>
set_stateful(value) ==
  /\ checker.kind \in GoalCheckers \ GoalConditions
  /\ checker' = [checker EXCEPT !.stateful = value]
  /\ UNCHANGED <<asked, history>>
set_allowance(value) ==
  /\ checker.kind \in ProgressCheckers
  /\ checker' = [checker EXCEPT !.time_allowance = value]
  /\ UNCHANGED <<asked, history>>

pass_a_while ==
  /\ checker.kind \in ProgressCheckers
  /\ checker' = [checker EXCEPT !.age = IF checker.baseline_pose_set THEN Later(@) ELSE @]
  /\ UNCHANGED asked
  /\ history' = [history EXCEPT !.watched = IF @ < 0 THEN @ ELSE Later(@)]

a_step ==
  /\ asked = nothing_asked
  /\ \/ \E q \in PoseSet :
          (\E v \in Velocities, known \in BOOLEAN : ask_goal(q, v, known)) \/ ask_progress(q)
     \/ reset
     \/ \E value \in Tolerances, name \in {"tolerance", "yaw_tolerance", "rot_stopped", "trans_stopped",
                                           "radius", "angle"} : set_double(name, value)
     \/ \E value \in BOOLEAN : set_stateful(value)
     \/ \E value \in Allowances : set_allowance(value)
     \/ pass_a_while

CheckersNext == a_step \/ heard

CheckersSpec == CheckersInit /\ [][CheckersNext]_checkerVars
-----------------------------------------------------------------------------
\* A goal checker says "reached" only of a goal whose window the vehicle was
\* seen in since the reset for that goal, and when the vehicle is in the window
\* now, its pose and its velocity are inside the tolerances that getTolerances
\* reports.
ReachedWasNear ==
  asked.question = "goal" /\ asked.answer =>
    LET t == getTolerances(checker)
    IN /\ history.near
       /\ in_window(checker, asked.q) =>
            /\ asked.q.x <= t.x
            /\ t.z # invalid_field => asked.q.z <= t.z
            /\ checker.kind \in {"simple", "stopped"} => shortest_angular_distance(asked.q.yaw, 0) <= t.yaw
            /\ t.linear # invalid_field => asked.v.linear <= t.linear
            /\ t.angular # invalid_field => asked.v.angular <= t.angular

\* A progress checker says "stuck" only when it has watched the vehicle for
\* longer than the time allowance since the last reset.
StuckWasWatched ==
  asked.question = "progress" /\ ~asked.answer => history.watched > checker.time_allowance

\* What a checker remembers of one goal never decides a question about the next.
AnswersAreOfThisGoal == ReachedWasNear /\ StuckWasWatched

\* The fields that each kind of checker has.
CheckersTypeOK ==
  /\ \/ /\ checker.kind \in GoalCheckers
        /\ checker \in [kind : GoalCheckers, latched : BOOLEAN, stateful : BOOLEAN,
                        p : [GoalParameters(checker.kind) -> Tolerances]]
     \/ /\ checker.kind \in ProgressCheckers
        /\ checker \in [kind : ProgressCheckers, baseline_pose_set : BOOLEAN,
                        baseline : [x : 0 .. Span, yaw : 0 .. 3], age : Nat,
                        time_allowance : Allowances,
                        p : [ProgressParameters(checker.kind) -> Tolerances]]
  /\ history \in [near : BOOLEAN, watched : Nat \cup {-1}]

\* What makes it inductive: a latch was set in the window of this goal, and a
\* baseline is not older than the time since the first question about it.
CheckerRemembers ==
  /\ checker.kind \in GoalCheckers /\ checker.latched => history.near
  /\ checker.kind \in ProgressCheckers /\ checker.baseline_pose_set => checker.age <= history.watched

CheckersInv == CheckersTypeOK /\ CheckerRemembers /\ AnswersAreOfThisGoal
=============================================================================
