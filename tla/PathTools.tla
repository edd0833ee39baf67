----------------------------- MODULE PathTools -----------------------------
(***************************************************************************)
(* The algorithms on paths: of nav3d_util/geometry_utils.hpp, of the       *)
(* action plugins of nav3d_behavior_tree, of the MoveIt planner plugin and *)
(* of the controller's walk along a timed path, each one checked against a *)
(* definition of what it is for.  Only distances matter to them: a pose is *)
(* a point of a line.  An iterator is an index; the end of a path p is     *)
(* Len(p) + 1.                                                             *)
(***************************************************************************)
EXTENDS Integers, Sequences, SequencesExt

CONSTANTS
  MaxPoses,  \* the longest path
  MaxCoord   \* the largest coordinate

ASSUME PathToolsAssumption == MaxPoses \in Nat /\ MaxCoord \in Nat

VARIABLES
  poses,  \* the path on the blackboard
  robot,  \* where the robot is
  local,  \* TruncatePathLocal: path_ and closest_pose_detection_begin_
  index,  \* ControllerServer: current_waypoint_index_
  call    \* the tool that was just called, and its arguments and its result

toolVars == <<poses, robot, local, index, call>>

Coords == 0 .. MaxCoord
AllPaths == UNION {[1 .. n -> Coords] : n \in 0 .. MaxPoses}
-----------------------------------------------------------------------------
(***************************************************************************)
(* geometry_utils.hpp                                                      *)
(***************************************************************************)
euclidean_distance(a, b) == IF a < b THEN b - a ELSE a - b

\* Where a loop stops that looks at the indices of S in turn.
first_of(S, otherwise) ==
  IF S = {} THEN otherwise ELSE CHOOSE i \in S : \A j \in S : i <= j

\* Start at the first, take every later one that is not farther.
min_by(p, begin, end, at) ==
  LET lowest[it \in begin .. end - 1] ==
        IF it = begin THEN begin
        ELSE IF euclidean_distance(p[it], at) <= euclidean_distance(p[lowest[it - 1]], at)
             THEN it ELSE lowest[it - 1]
  IN IF begin = end THEN end ELSE lowest[end - 1]

\* What the loops along a path add up from one pose on, at each later one.
travelled(p, begin) ==
  LET dist[it \in begin .. Len(p)] ==
        IF it = begin THEN 0 ELSE dist[it - 1] + euclidean_distance(p[it - 1], p[it])
  IN dist

\* Fault: the distance itself already ends the search.
first_after_off_by_one(p, begin, end, threshold) ==
  first_of({it \in begin + 1 .. end - 1 : travelled(p, begin)[it] >= threshold}, end)
first_after_integrated_distance(p, begin, end, threshold) ==
  first_of({it \in begin + 1 .. end - 1 : travelled(p, begin)[it] > threshold}, end)

calculate_path_length(p, start_index) ==
  IF start_index >= Len(p) THEN 0 ELSE travelled(p, start_index)[Len(p)]
-----------------------------------------------------------------------------
(***************************************************************************)
(* The action plugins.                                                     *)
(***************************************************************************)
\* Poses are taken off the end while they are nearer than the distance and more
\* than two are left.
TruncatePath(p, distance) ==
  LET stays == {n \in DOMAIN p : n <= 2 \/ euclidean_distance(p[n], Last(p)) >= distance}
  IN IF p = <<>> THEN p ELSE SubSeq(p, 1, CHOOSE n \in stays : \A m \in stays : m <= n)

\* The indices that are kept.
resamplePath(p, spacing) ==
  LET out[i \in DOMAIN p] ==
        IF i = 1 THEN [kept |-> <<1>>, acc |-> 0]
        ELSE LET acc == out[i - 1].acc + euclidean_distance(p[i - 1], p[i])
             IN IF acc >= spacing \/ i = Len(p)
                THEN [kept |-> Append(out[i - 1].kept, i), acc |-> 0]
                ELSE [kept |-> out[i - 1].kept, acc |-> acc]
  IN IF spacing <= 0 \/ Len(p) < 3 THEN [i \in DOMAIN p |-> i] ELSE out[Len(p)].kept

\* std::round of i * top / (keep - 1), i and top counted from zero.
rounded(i, top, keep) == (2 * i * top + (keep - 1)) \div (2 * (keep - 1))
\* The indices that are kept, counted from zero, of which there are keep >= 2.
cap_indices(top, keep) ==
  LET idx[i \in 0 .. keep - 1] ==
        IF i = 0 THEN 0
        ELSE IF i + 1 >= keep THEN top
        ELSE LET r == rounded(i, top, keep)
                 later == IF r <= idx[i - 1] THEN idx[i - 1] + 1 ELSE r
             IN IF later >= top THEN top - 1 ELSE later
  IN idx
\* The indices that are kept.
capPath(p, max_poses) ==
  IF max_poses <= 0 \/ Len(p) <= max_poses THEN [i \in DOMAIN p |-> i]
  ELSE IF max_poses = 1 THEN <<Len(p)>>
  ELSE [j \in 1 .. max_poses |-> cap_indices(Len(p) - 1, max_poses)[j - 1] + 1]

\* FAILURE has no output, SUCCESS has one.
Failure == <<>>
Success(out) == <<out>>

GetPoseFromPath(p, pose_index) ==
  LET i == IF pose_index < 0 THEN Len(p) + pose_index ELSE pose_index
  IN IF p = <<>> \/ i < 0 \/ i >= Len(p) THEN Failure ELSE Success(p[i + 1])

GetNextFewGoals(p, num_goals) ==
  IF p = <<>> THEN Failure
  ELSE Success(SubSeq(p, 1, IF num_goals < 0 THEN 0 ELSE IF num_goals < Len(p) THEN num_goals ELSE Len(p)))

ConcatenatePaths(p, q) == IF p = <<>> /\ q = <<>> THEN Failure ELSE Success(p \o q)
AppendGoalPoseToGoals(p, goal) == Append(p, goal)

\* The transform tree may not know where the robot is.
GetCurrentPose(known) == IF known THEN Success(robot) ELSE Failure

\* The height of a node is dropped; on a line there is none.
ExtractRouteNodesAsGoals(route) == IF route = <<>> THEN Failure ELSE Success(route)

\* The part of the new path that is ahead: the closest pose is looked for from
\* the last closest one on, within the search distance, or everywhere if that
\* is infinite.
Infinite == 1 + MaxCoord * MaxPoses
local_begin(p, search) == IF search < Infinite /\ local.path = p THEN local.begin ELSE 1

truncate_closest(p, search) ==
  LET b == local_begin(p, search)
  IN min_by(p, b, first_after_integrated_distance(p, b, Len(p) + 1, search), robot)

\* first_after_integrated_distance backwards from the closest pose.
truncate_backward(p, at, backward) ==
  LET r == Reverse(SubSeq(p, 1, at))
  IN at + 2 - first_after_integrated_distance(r, 1, at + 1, backward)

\* The first and the last index of the part that is put out.
TruncatePathLocal(p, mode, forward, backward, search) ==
  LET at == truncate_closest(p, search)
      end == first_after_integrated_distance(p, at, Len(p) + 1, forward)
  IN [at |-> at,
      first |-> IF mode = "remaining" THEN at ELSE truncate_backward(p, at, backward),
      last |-> end - 1]
-----------------------------------------------------------------------------
(***************************************************************************)
(* The navigators' feedback.                                               *)
(***************************************************************************)
\* The first of the poses that are closest to the robot.
find_closest_pose_idx(p) ==
  LET closest[curr \in DOMAIN p] ==
        IF curr = 1 THEN 1
        ELSE IF euclidean_distance(robot, p[curr]) < euclidean_distance(robot, p[closest[curr - 1]])
             THEN curr ELSE closest[curr - 1]
  IN closest[Len(p)]

distance_remaining(p) == calculate_path_length(p, find_closest_pose_idx(p))
-----------------------------------------------------------------------------
(***************************************************************************)
(* The planner plugin.                                                     *)
(***************************************************************************)
\* A service that is missing, late or fails makes every pose valid.
isPoseValid(pose, blocked, answers) == answers => pose # blocked

\* The first invalid pose in steps of step poses, not more than max_checks of
\* them; indices are counted from zero.
first_invalid(p, step, max_checks, blocked) ==
  LET invalid == {i \in 0 .. Len(p) - 1 : /\ \E checks \in 0 .. max_checks - 1 : i = checks * step
                                          /\ ~ isPoseValid(p[i + 1], blocked, TRUE)}
  IN IF invalid = {} THEN Failure ELSE Success(first_of(invalid, 0))

at_least_one(n) == IF n < 1 THEN 1 ELSE n
\* Every pose is valid when the service does not answer.
MoveItGlobalPlanner_isPathValid(p, active, step, max_checks, blocked, answers) ==
  IF ~active \/ p = <<>> \/ ~answers THEN Failure
  ELSE first_invalid(p, at_least_one(step), at_least_one(max_checks), blocked)

\* No path is not valid, nor is any for a planner that does not exist; for one
\* that cannot tell every path is.
PlannerServer_isPathValid(p, planner, invalid) ==
  p # <<>> /\ planner # "unknown" /\ (planner = "checker" => invalid = Failure)

computeDirectionalYaw(a, b) == IF b < a THEN 2 ELSE 0  \* in quarter turns

\* Three quarter turns stand for the orientation that MoveIt gives and one for
\* fixed_yaw_.
applyYaw(p, yaw_mode) ==
  [i \in DOMAIN p |->
     IF yaw_mode = "Keep" THEN 3
     ELSE IF yaw_mode = "Fixed" THEN 1
     ELSE IF i < Len(p) THEN computeDirectionalYaw(p[i], p[i + 1])
     ELSE IF Len(p) >= 2 THEN computeDirectionalYaw(p[Len(p) - 1], p[Len(p)])
     ELSE 0]

\* The points that have a transform; none when MoveIt fails or the goal is
\* canceled meanwhile.
transformed(points, untransformed) ==
  LET out[i \in 0 .. Len(points)] ==
        IF i = 0 THEN <<>>
        ELSE IF points[i] = untransformed THEN out[i - 1] ELSE Append(out[i - 1], points[i])
  IN out[Len(points)]
MoveGroupInterface_plan(points, untransformed, succeeds, yaw_mode) ==
  LET p == IF succeeds THEN transformed(points, untransformed) ELSE <<>>
  IN [poses |-> p, yaws |-> applyYaw(p, yaw_mode)]
-----------------------------------------------------------------------------
(***************************************************************************)
(* The controller.                                                         *)
(***************************************************************************)
\* When the vehicle shall be at each pose: at one unit of distance in a unit of
\* time, and two poses are never less than a unit (0.01 s) apart.
generateTimedTrajectory_times(p) ==
  LET dt(i) == IF p[i - 1] = p[i] THEN 1 ELSE euclidean_distance(p[i - 1], p[i])
      time[i \in DOMAIN p] == IF i = 1 THEN 1 ELSE time[i - 1] + dt(i)
  IN time

\* On to the first pose after which it is too early to go on.
advance(times, i, tnow) ==
  first_of({k \in i .. Len(times) : k = Len(times) \/ tnow <= times[k + 1]}, i)

\* The segment the setpoint is on: a pose of the path, or two of them.
current_segment(p, tnow) ==
  LET times == generateTimedTrajectory_times(p)
      i == advance(times, index, tnow)
  IN IF tnow <= times[1] THEN [before |-> TRUE, index |-> index, a |-> 1, b |-> 1]
     ELSE IF tnow >= times[Len(p)] THEN [before |-> FALSE, index |-> index, a |-> Len(p), b |-> Len(p)]
     ELSE [before |-> FALSE, index |-> i, a |-> i, b |-> i + 1]
-----------------------------------------------------------------------------
nothing_called == <<"none">>

ToolInit ==
  /\ poses = <<>>
  /\ robot = 0
  /\ local = [path |-> <<>>, begin |-> 1]
  /\ index = 1
  /\ call = nothing_called

\* The caller has used the result.
done == call # nothing_called /\ call' = nothing_called /\ UNCHANGED <<poses, robot, local, index>>

\* Somebody writes a new path, or the robot moves.  TruncatePathLocal forgets
\* what it knows of another path, so one replacement stands for all.
new_path(p) ==
  /\ local.path = <<>> \/ (local.path = poses /\ p = Reverse(poses))
  /\ poses' = p
  /\ index' = 1
  /\ UNCHANGED <<robot, local, call>>
move(r) == index = 1 /\ robot' = r /\ UNCHANGED <<poses, local, index, call>>

\* A call that keeps nothing, and reads neither the robot's place nor local nor
\* index: it is made only where they have their first values.
use(tool, arg, out) ==
  /\ robot = 0 /\ local.path = <<>> /\ index = 1
  /\ call' = <<tool, [arg |-> arg, out |-> out]>>
  /\ UNCHANGED <<poses, robot, local, index>>

\* isPathValid of the planner server, with the plugin it asks.
use_valid(b, answers, step, n, planner) ==
  /\ (~answers \/ planner # "checker") => step = 0 /\ n = MaxPoses  \* they do not matter
  /\ LET at == MoveItGlobalPlanner_isPathValid(poses, planner = "checker", step, n, b, answers)
     IN use("valid", [b |-> b, answers |-> answers, step |-> step, n |-> n, planner |-> planner],
            [valid |-> PlannerServer_isPathValid(poses, planner, at), at |-> at])

use_local(mode, forward, backward, search) ==
  /\ poses # <<>> /\ index = 1
  /\ LET out == TruncatePathLocal(poses, mode, forward, backward, search)
     IN /\ local' = [path |-> poses, begin |-> IF search < Infinite THEN out.at ELSE 1]
        /\ call' = <<"local", [mode |-> mode, forward |-> forward, backward |-> backward,
                               search |-> search, from |-> local_begin(poses, search), out |-> out]>>
  /\ UNCHANGED <<poses, robot, index>>

\* getRobotPose fails: the new path is remembered all the same.
pose_unknown(search) ==
  /\ index = 1
  /\ local' = [path |-> poses, begin |-> local_begin(poses, search)]
  /\ call' = <<"unlocated">>
  /\ UNCHANGED <<poses, robot, index>>

\* getCurrentCommand at any time: a simulated clock may also be set back.
use_timed(tnow) ==
  /\ poses # <<>> /\ robot = 0 /\ local.path = <<>>
  /\ LET out == current_segment(poses, tnow)
     IN /\ index' = out.index
        /\ call' = <<"timed", [tnow |-> tnow, from |-> index, out |-> out]>>
  /\ UNCHANGED <<poses, robot, local>>

\* onLoop of a navigator.
use_remaining ==
  /\ poses # <<>> /\ local.path = <<>> /\ index = 1
  /\ call' = <<"remaining", [out |-> distance_remaining(poses)]>>
  /\ UNCHANGED <<poses, robot, local, index>>

a_call ==
  /\ call = nothing_called
  /\ \/ \E p \in AllPaths : new_path(p)
     \/ \E r \in Coords : move(r)
     \/ \E d \in 0 .. MaxCoord + 1 :
          \/ use("truncate", d, TruncatePath(poses, d))
          \/ use("resample", d, resamplePath(poses, d))
          \/ use("cap", d, capPath(poses, d))
     \/ \E i \in -(MaxPoses + 1) .. MaxPoses :
          use("pose", i, GetPoseFromPath(poses, i)) \/ use("goals", i, GetNextFewGoals(poses, i))
     \/ \E q \in {<<>>, <<0>>} : use("concatenate", q, ConcatenatePaths(poses, q))
     \/ \E g \in Coords : use("append", g, AppendGoalPoseToGoals(poses, g))
     \/ \E known \in BOOLEAN : use("current_pose", known, GetCurrentPose(known))
     \/ use("route", 0, ExtractRouteNodesAsGoals(poses))
     \/ \E b \in Coords, answers \in BOOLEAN, step \in 0 .. 2, n \in {0, 2, MaxPoses},
           planner \in {"unknown", "no_checker", "inactive", "checker"} :
          use_valid(b, answers, step, n, planner)
     \/ \E missing \in Coords, succeeds \in BOOLEAN, yaw_mode \in {"Keep", "Fixed", "Directional"} :
          use("plan", [missing |-> missing, yaw_mode |-> yaw_mode],
              MoveGroupInterface_plan(poses, missing, succeeds, yaw_mode))
     \/ use_remaining
     \/ \E tnow \in 0 .. 2 + MaxCoord * MaxPoses : use_timed(tnow)
     \/ \E f \in {0, MaxCoord \div 2}, b \in {0, MaxCoord}, d \in {1, MaxCoord} : use_local("local", f, b, d)
     \/ \E f \in Coords, d \in {1, MaxCoord, Infinite} : use_local("remaining", f, 0, d)
     \/ \E d \in {1, Infinite} : pose_unknown(d)

ToolNext == a_call \/ done

ToolSpec == ToolInit /\ [][ToolNext]_toolVars
-----------------------------------------------------------------------------
(***************************************************************************)
(* What the tools are for.                                                 *)
(***************************************************************************)
Integrated(i, j) == travelled(poses, 1)[j] - travelled(poses, 1)[i]
Increasing(q) == \A i \in 1 .. Len(q) - 1 : q[i] < q[i + 1]

\* A selection of the poses that keeps both ends and their order.
Thinned(kept) ==
  /\ Increasing(kept)
  /\ poses # <<>> => Head(kept) = 1 /\ Last(kept) = Len(poses)

\* What TruncatePathLocal puts out: it holds the closest pose of the part of the
\* path that is searched, never goes back on the same path, and reaches as far
\* as the distances allow and no farther.
LocalCorrect(c) ==
  LET at == c.out.at
      searched == {i \in c.from .. Len(poses) : Integrated(c.from, i) <= c.search}
  IN /\ at \in searched
     /\ \A i \in searched : euclidean_distance(poses[at], robot) <= euclidean_distance(poses[i], robot)
     /\ c.out.first <= at /\ at <= c.out.last /\ c.out.last <= Len(poses)
     /\ Integrated(at, c.out.last) <= c.forward
     /\ c.out.last < Len(poses) => Integrated(at, c.out.last + 1) > c.forward
     /\ c.mode = "local" =>
          /\ Integrated(c.out.first, at) <= c.backward
          /\ c.out.first > 1 => Integrated(c.out.first - 1, at) > c.backward

\* What is left of the way, from one of the closest poses on, and never less
\* than from another: a path that passes the robot twice is not cut short.
RemainingCorrect(c) ==
  LET closest == {i \in DOMAIN poses : \A j \in DOMAIN poses :
                    euclidean_distance(poses[i], robot) <= euclidean_distance(poses[j], robot)}
  IN /\ \E i \in closest : c.out = Integrated(i, Len(poses))
     /\ \A i \in closest : c.out >= Integrated(i, Len(poses))

\* The walk along the timed path: both ends of the segment are poses of the path,
\* the index never goes back, and the segment is the one for this time, unless
\* the clock was set back.
TimedCorrect(c) ==
  LET times == generateTimedTrajectory_times(poses)
  IN /\ {c.out.a, c.out.b} \subseteq DOMAIN poses
     /\ c.out.index >= c.from
     /\ ~ c.out.before =>
          /\ c.tnow <= times[c.out.b] \/ c.out.b = Len(poses)
          /\ times[c.out.a] <= c.tnow \/ c.out.a = c.from

\* The path is refused for the first of the samples that is blocked, and only
\* for one; samples are step poses apart and at most max_checks.
ValidCorrect(c) ==
  LET sampled == {i \in 0 .. Len(poses) - 1 : i % at_least_one(c.arg.step) = 0
                    /\ i \div at_least_one(c.arg.step) < at_least_one(c.arg.n)}
      bad == {i \in sampled : c.arg.answers /\ poses[i + 1] = c.arg.b}
  IN IF c.arg.planner # "checker" THEN c.out.valid => poses # <<>>
     ELSE /\ c.out.valid <=> (bad = {} /\ poses # <<>>)
          /\ c.out.at # Failure => c.out.at[1] \in bad /\ \A i \in bad : c.out.at[1] <= i

\* Every planned pose is one of the points that MoveIt gave, and in their order
\* not before it.
NothingMadeUp(p, missing) ==
  \A i \in DOMAIN p : p[i] # missing /\ \E j \in DOMAIN poses : j >= i /\ poses[j] = p[i]

\* A pose looks where the vehicle goes next, the last one as the one before it.
LooksAhead(p, yaws) ==
  \A i \in 1 .. Len(p) - 1 :
    /\ p[i] < p[i + 1] => yaws[i] = 0
    /\ p[i] > p[i + 1] => yaws[i] = 2
    /\ i + 1 = Len(p) => yaws[i + 1] = yaws[i]

PlanCorrect(c) ==
  /\ DOMAIN c.out.yaws = DOMAIN c.out.poses
  /\ NothingMadeUp(c.out.poses, c.arg.missing)
  /\ c.arg.yaw_mode = "Directional" => LooksAhead(c.out.poses, c.out.yaws)

\* Resampling keeps a pose as soon as it is the spacing away from the last one
\* that was kept, and no earlier but for the last of the path.
ResampleCorrect(c) ==
  /\ Thinned(c.out)
  /\ \A i \in 1 .. Len(c.out) - 1 :
       /\ Len(poses) > 2 /\ c.arg > 0 => Integrated(c.out[i], c.out[i + 1] - 1) < c.arg
       /\ Len(poses) > 2 /\ i + 1 < Len(c.out) => Integrated(c.out[i], c.out[i + 1]) >= c.arg

\* A cap keeps as many poses as it allows: the last one, or both ends.
CapCorrect(c) ==
  IF c.arg = 1 /\ poses # <<>> THEN c.out = <<Len(poses)>>
  ELSE /\ Thinned(c.out)
       /\ c.arg > 0 => Len(c.out) <= c.arg
       /\ 0 < c.arg /\ c.arg <= Len(poses) => Len(c.out) = c.arg

\* What is cut off the end is near the goal, and not more than that.
TruncateCorrect(c) ==
  /\ IsPrefix(c.out, poses)
  /\ Len(poses) >= 2 => Len(c.out) >= 2
  /\ Len(c.out) > 2 => euclidean_distance(Last(c.out), Last(poses)) >= c.arg
  /\ \A i \in Len(c.out) + 1 .. Len(poses) : euclidean_distance(poses[i], Last(poses)) < c.arg

\* An index counts from the front or, if negative, from the back.
PoseCorrect(c) ==
  IF c.out = Failure THEN c.arg \notin -Len(poses) .. Len(poses) - 1
  ELSE c.out = <<poses[(c.arg % Len(poses)) + 1]>>

GoalsCorrect(c) ==
  IF c.out = Failure THEN poses = <<>>
  ELSE IsPrefix(c.out[1], poses) /\ (c.arg >= 0 => Len(c.out[1]) = c.arg \/ c.out[1] = poses)

\* Every result of a tool on a path is what its name and its ports promise,
\* for paths with repeated poses, of one pose and of none.
PathToolsCorrect ==
  LET tool == call[1]
      c == call[2]  \* read only for a tool that has a result
  IN /\ tool = "local" => LocalCorrect(c)
     /\ tool = "remaining" => RemainingCorrect(c)
     /\ tool = "timed" => TimedCorrect(c)
     /\ tool = "valid" => ValidCorrect(c)
     /\ tool = "plan" => PlanCorrect(c)
     /\ tool = "resample" => ResampleCorrect(c)
     /\ tool = "cap" => CapCorrect(c)
     /\ tool = "truncate" => TruncateCorrect(c)
     /\ tool = "pose" => PoseCorrect(c)
     /\ tool = "goals" => GoalsCorrect(c)

\* Why the tools that remember something stay inside the path: the pose where
\* TruncatePathLocal begins to search is one of the path it remembers, and the
\* controller's index has a pose behind it.
PathToolsInv ==
  /\ poses \in AllPaths /\ robot \in Coords
  /\ local \in [path : AllPaths, begin : 1 .. MaxPoses + 1]
  /\ local.begin = 1 \/ local.begin \in 1 .. Len(local.path)
  /\ index = 1 \/ index \in 1 .. Len(poses) - 1
  /\ PathToolsCorrect
=============================================================================
