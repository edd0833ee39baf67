---------------------------- MODULE PlannerServer ----------------------------
(***************************************************************************)
(* nav3d_planner::PlannerServer: its compute_path_to_pose action server is *)
(* a SimpleActionServer with a thread of its own (SpinThread = TRUE), its  *)
(* execute callback is computePlan(), and its lifecycle callbacks activate *)
(* and deactivate the planner plugin around the action server.             *)
(*                                                                         *)
(* A plan is known by the goal it was computed for.  Whether poses can be  *)
(* transformed and a plan found is up to the environment.                  *)
(***************************************************************************)
EXTENDS SimpleActionServer

VARIABLES plan_pc,        \* where computePlan() is; "start" also outside it
          goal,           \* its local: the goal it has read, NoGoal if null
          path,           \* its local: the goal the path is for, NoGoal if it is empty
          planner_active  \* active_ of the planner plugin

plan == <<plan_pc, goal, path>>
pvars == <<vars, plan, planner_active>>

PlanPc == {"start", "check_active", "check_cancel", "check_preempt", "accept", "use",
           "cancel_before_start", "start_pose", "cancel_before_plan", "createPlan",
           "cancel_after_plan", "check_path", "succeed", "catch", "terminate",
           "return", "crashed"}

PlanTypeOK ==
    /\ TypeOK
    /\ plan_pc \in PlanPc
    /\ goal \in Goals \cup {NoGoal}
    /\ path \in Goals \cup {NoGoal}
    /\ planner_active \in BOOLEAN

-----------------------------------------------------------------------------
(* Steps of computePlan().                                                 *)

at(pc) == work_pc = "callback" /\ plan_pc = pc

goto(pc) == plan_pc' = pc

(* get_current_goal(), whose result is not tested.                         *)
plan_start ==
    /\ at("start")
    /\ goal' = IF is_active(current_handle) THEN current_handle ELSE NoGoal
    /\ goto("check_active")
    /\ UNCHANGED <<vars, path, planner_active>>

isServerInactive ==
    /\ at("check_active")
    /\ goto(IF server_active THEN "check_cancel" ELSE "return")
    /\ UNCHANGED <<vars, goal, path, planner_active>>

isCancelRequested ==
    /\ at("check_cancel")
    /\ goto(IF is_cancel_requested THEN "terminate" ELSE "check_preempt")
    /\ UNCHANGED <<vars, goal, path, planner_active>>

(* Fault: the pending goal is taken without a test.                        *)
getPreemptedGoal_always ==
    /\ at("check_preempt")
    /\ goto("accept")
    /\ UNCHANGED <<vars, goal, path, planner_active>>

(* getPreemptedGoalIfRequested: the test, and accept_pending_goal(), which *)
(* returns null when the goal is not pending any more.                     *)
getPreemptedGoalIfRequested ==
    /\ at("check_preempt")
    /\ goto(IF preempt_requested THEN "accept" ELSE "use")
    /\ UNCHANGED <<vars, goal, path, planner_active>>

(* Fault: the preempted goal is planned for.                               *)
plan_accept_keeps_goal ==
    /\ at("accept")
    /\ accept_pending_goal
    /\ goto("use")
    /\ UNCHANGED <<flags, executor, work_pc, deactivate_pc, goal, path, planner_active>>

plan_accept ==
    /\ at("accept")
    /\ accept_pending_goal
    /\ goal' = IF is_active(pending_handle) THEN pending_handle ELSE NoGoal
    /\ goto("use")
    /\ UNCHANGED <<flags, executor, work_pc, deactivate_pc, path, planner_active>>

(* goal->goal, outside the try block: a null goal ends the process.        *)
plan_use ==
    /\ at("use")
    /\ goto(IF goal # NoGoal THEN "cancel_before_start" ELSE "crashed")
    /\ UNCHANGED <<vars, goal, path, planner_active>>

(* The three calls of cancel_checker.                                      *)
cancel_checker(pc, next) ==
    /\ at(pc)
    /\ goto(IF is_cancel_requested THEN "terminate" ELSE next)
    /\ UNCHANGED <<vars, goal, path, planner_active>>

(* Fault: it tries again until the poses are there.                        *)
plan_poses_retry ==
    /\ at("start_pose")
    /\ goto("cancel_before_plan") \/ goto("cancel_before_start")
    /\ UNCHANGED <<vars, goal, path, planner_active>>

(* The start pose is looked up and both poses are transformed:             *)
(* PlannerTFError if that fails.                                           *)
plan_poses ==
    /\ at("start_pose")
    /\ goto("cancel_before_plan") \/ goto("catch")
    /\ UNCHANGED <<vars, goal, path, planner_active>>

(* getPlannerOrThrow and createPlan: a path, an empty path (always from an *)
(* inactive planner), or an exception.                                     *)
createPlan ==
    /\ at("createPlan")
    /\ \/ planner_active /\ path' = goal /\ goto("cancel_after_plan")
       \/ path' = NoGoal /\ goto("cancel_after_plan")
       \/ UNCHANGED path /\ goto("catch")
    /\ UNCHANGED <<vars, goal, planner_active>>

(* An empty path is thrown as NoValidPathCouldBeFound.                     *)
plan_check_path ==
    /\ at("check_path")
    /\ goto(IF path # NoGoal THEN "succeed" ELSE "catch")
    /\ UNCHANGED <<vars, goal, path, planner_active>>

(* Fault: success is reported on the handle that was read at the start.    *)
plan_succeed_own_handle ==
    /\ at("succeed")
    /\ goal_status' = [goal_status EXCEPT ![goal] = "succeeded"]
    /\ current_handle' = NoGoal
    /\ goto("return")
    /\ UNCHANGED <<pending_handle, preempt_requested, flags, executor, work_pc,
                   deactivate_pc, goal, path, planner_active>>

(* publishPlan() shows the path, which changes nothing.                    *)
plan_succeed ==
    /\ at("succeed")
    /\ succeeded_current
    /\ goto("return")
    /\ UNCHANGED <<flags, executor, work_pc, deactivate_pc, goal, path, planner_active>>

(* The catch clauses: they differ in the error code only.                  *)
plan_catch ==
    /\ at("catch")
    /\ terminate_current
    /\ goto("return")
    /\ UNCHANGED <<flags, executor, work_pc, deactivate_pc, goal, path, planner_active>>

plan_terminate ==
    /\ at("terminate")
    /\ terminate_all
    /\ goto("return")
    /\ UNCHANGED <<flags, executor, work_pc, deactivate_pc, goal, path, planner_active>>

plan_return ==
    /\ at("return")
    /\ callback_return
    /\ goto("start")
    /\ goal' = NoGoal
    /\ path' = NoGoal
    /\ UNCHANGED planner_active

PlanStep ==
    \/ plan_start \/ isServerInactive \/ isCancelRequested
    \/ getPreemptedGoalIfRequested \/ plan_accept \/ plan_use
    \/ cancel_checker("cancel_before_start", "start_pose")
    \/ plan_poses
    \/ cancel_checker("cancel_before_plan", "createPlan")
    \/ createPlan
    \/ cancel_checker("cancel_after_plan", "check_path")
    \/ plan_check_path \/ plan_succeed \/ plan_catch \/ plan_terminate \/ plan_return

PlanWorkStep ==
    /\ work_check_stop \/ work_check_current \/ work_finish \/ work_exit
    /\ UNCHANGED <<plan, planner_active>>

-----------------------------------------------------------------------------
(* The lifecycle thread: on_activate activates the action server and then  *)
(* the planner, on_deactivate deactivates the server, waits, and then the  *)
(* planner.                                                                *)

on_activate ==
    /\ ~ planner_active
    /\ activate
    /\ UNCHANGED <<plan, planner_active>>

activate_planner ==
    /\ server_active
    /\ ~ planner_active
    /\ planner_active' = TRUE
    /\ UNCHANGED <<vars, plan>>

on_deactivate ==
    /\ planner_active
    /\ server_active
    /\ deactivate
    /\ UNCHANGED <<plan, planner_active>>

deactivate_planner ==
    /\ ~ server_active /\ deactivate_pc = "idle"
    /\ planner_active
    /\ planner_active' = FALSE
    /\ UNCHANGED <<vars, plan>>

-----------------------------------------------------------------------------

PlanInit ==
    /\ Init
    /\ plan_pc = "start"
    /\ goal = NoGoal
    /\ path = NoGoal
    /\ planner_active = FALSE

PlanNext ==
    /\ plan_pc # "crashed"
    /\ \/ PlanStep
       \/ PlanWorkStep
       \/ on_activate \/ activate_planner \/ on_deactivate \/ deactivate_planner
       \/ /\ ClientStep \/ ExecutorStep \/ DeactivateStep \/ deactivate_timeout
          /\ UNCHANGED <<plan, planner_active>>

PlanSpec == PlanInit /\ [][PlanNext]_pvars

(* Each thread goes on while the process lives, and createPlan returns: it *)
(* is bounded by the planning time.                                        *)
PlanFairness ==
    /\ WF_pvars(PlanStep)
    /\ WF_pvars(PlanWorkStep)

PlanFairSpec == PlanSpec /\ PlanFairness

-----------------------------------------------------------------------------
(* Properties.                                                             *)

(* computePlan() is one of the execute callbacks the server allows.        *)
PlanImplementsServer == Spec

(* A goal is reported as succeeded only with a path that was computed for  *)
(* it: the result is built from a local that was read before planning, the *)
(* handle it is sent to is the current one after it.                       *)
SucceedsWithOwnPlan ==
    [][\A g \in Goals :
         goal_status[g] # "succeeded" /\ goal_status'[g] = "succeeded"
           => g = path]_pvars

(* computePlan() uses the goal it was given without a test.  It is null    *)
(* only when deactivate() has lost its patience between the test for a     *)
(* preemption and accept_pending_goal().                                   *)
NullGoalOnlyByDeactivation ==
    plan_pc = "use" /\ goal = NoGoal => deactivate_pc # "idle"

(* The planner that has made a plan is still active when the plan is       *)
(* handed out: on_deactivate takes it away only after the worker is done.  *)
PlannerKeptWhileUsed == path # NoGoal => planner_active

(* The inductive invariant behind these properties: the goal that was read *)
(* is the current one, or deactivate() has terminated it and is not over;  *)
(* a path in hand is that goal's and its planner active; and a goal that   *)
(* was seen pending is still there, unless it was terminated as well.      *)
Terminated == current_handle = NoGoal /\ ~ server_active

Reading == {"check_active", "check_cancel", "check_preempt", "accept", "use"}

Planning == {"cancel_before_start", "start_pose", "cancel_before_plan", "createPlan",
             "cancel_after_plan", "check_path", "succeed"}

PlanOwns ==
    /\ plan_pc = "start" /\ work_pc = "callback" => current_handle # NoGoal \/ Terminated
    /\ plan_pc \in Reading =>
         /\ current_handle = goal \/ Terminated
         /\ goal = NoGoal => ~ server_active
    /\ plan_pc = "accept" => pending_handle # NoGoal \/ Terminated
    /\ plan_pc \in Planning => goal # NoGoal /\ (current_handle = goal \/ Terminated)
    /\ plan_pc = "succeed" => path = goal
    /\ path # NoGoal => path = goal /\ planner_active /\ plan_pc \notin Reading \cup {"start"}
    /\ plan_pc # "start" => work_pc = "callback"

PlanInv == PlanTypeOK /\ IndInv /\ StopInv /\ PlanOwns

(* A goal for which computePlan() is called gets its result, with no       *)
(* assumption on clients or on what the planner finds, unless the process  *)
(* has died.                                                               *)
PlannedGoalEnds ==
    \A g \in Goals :
      (work_pc = "callback" /\ current_handle = g)
        ~> (goal_status[g] \notin Active \/ plan_pc = "crashed")
=============================================================================
