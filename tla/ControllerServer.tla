--------------------------- MODULE ControllerServer ---------------------------
(***************************************************************************)
(* nav3d_controller::ControllerServer: its follow_path action server is a  *)
(* SimpleActionServer with a thread of its own (SpinThread = TRUE), and    *)
(* its execute callback is computeControl(), modelled here in place of the *)
(* arbitrary callback of that module.  Every call computeControl makes on  *)
(* the action server is a step of its own: the executor and the lifecycle  *)
(* thread run in between.                                                  *)
(*                                                                         *)
(* Of a path only its goal, and whether it has poses, is kept: the timing, *)
(* the reference filter and the published point are numbers.               *)
(***************************************************************************)
EXTENDS SimpleActionServer

CONSTANT EmptyPaths  \* the goals whose path has no poses

ASSUME EmptyPathsAssumption == EmptyPaths \subseteq Goals

VARIABLES control_pc,    \* where computeControl() is; "start" also outside it
          goal,          \* its local: the goal it has read
          current_path   \* current_path_: the goal whose path it is, NoGoal if empty

control == <<control_pc, goal, current_path>>
cvars == <<vars, control>>

ControlPc == {"start", "check_active", "check_cancel", "check_preempt", "accept",
              "accepted", "command", "reached", "succeed", "catch",
              "terminate", "return"}

ControlTypeOK ==
    /\ TypeOK
    /\ control_pc \in ControlPc
    /\ goal \in Goals \cup {NoGoal}
    /\ current_path \in Goals \cup {NoGoal}

-----------------------------------------------------------------------------
(* Steps of computeControl().                                              *)

at(pc) == work_pc = "callback" /\ control_pc = pc

goto(pc) == control_pc' = pc

(* get_current_goal(): a null goal ends in terminate_all().                *)
get_current_goal(g) == is_active(current_handle) /\ g = current_handle

(* generateTimedTrajectory(): an empty path throws InvalidPath before it   *)
(* touches current_path_.                                                  *)
generateTimedTrajectory(g, old, next) ==
    IF g \in EmptyPaths
    THEN current_path' = old /\ goto("catch")
    ELSE current_path' = g /\ goto(next)

(* The first goal.                                                         *)
control_start ==
    /\ at("start")
    /\ \/ \E g \in Goals :
            /\ get_current_goal(g)
            /\ goal' = g
            /\ generateTimedTrajectory(g, current_path, "check_active")
       \/ /\ ~ is_active(current_handle)
          /\ goto("terminate")
          /\ UNCHANGED <<goal, current_path>>
    /\ UNCHANGED vars

(* Fault: the loop does not look whether the server is active.             *)
control_check_active_never ==
    /\ at("check_active")
    /\ goto("check_cancel")
    /\ UNCHANGED <<vars, goal, current_path>>

(* The loop: leave it when the server is not active any more ...           *)
control_check_active ==
    /\ at("check_active")
    /\ goto(IF server_active THEN "check_cancel" ELSE "return")
    /\ UNCHANGED <<vars, goal, current_path>>

(* Fault: only a pending goal's cancellation is looked at.                 *)
control_check_cancel_pending ==
    /\ at("check_cancel")
    /\ goto(IF is_cancel_requested /\ preempt_requested THEN "terminate"
            ELSE "check_preempt")
    /\ UNCHANGED <<vars, goal, current_path>>

(* ... or when a cancellation was requested; ...                           *)
control_check_cancel ==
    /\ at("check_cancel")
    /\ goto(IF is_cancel_requested THEN "terminate" ELSE "check_preempt")
    /\ UNCHANGED <<vars, goal, current_path>>

(* ... go over to a pending goal ...                                       *)
control_check_preempt ==
    /\ at("check_preempt")
    /\ goto(IF preempt_requested THEN "accept" ELSE "command")
    /\ UNCHANGED <<vars, goal, current_path>>

control_accept ==
    /\ at("accept")
    /\ accept_pending_goal
    /\ goto("accepted")
    /\ UNCHANGED <<flags, executor, work_pc, deactivate_pc, goal, current_path>>

(* Fault: after a preemption the loop goes on with the path it has.        *)
control_accepted_keeps_path ==
    /\ at("accepted")
    /\ goal' = IF is_active(current_handle) THEN current_handle ELSE goal
    /\ goto(IF is_active(current_handle) THEN "command" ELSE "terminate")
    /\ UNCHANGED <<vars, current_path>>

(* ... and take its path: the old one is cleared first.                    *)
control_accepted ==
    /\ at("accepted")
    /\ \/ \E g \in Goals :
            /\ get_current_goal(g)
            /\ goal' = g
            /\ generateTimedTrajectory(g, NoGoal, "command")
       \/ /\ ~ is_active(current_handle)
          /\ goto("terminate")
          /\ UNCHANGED <<goal, current_path>>
    /\ UNCHANGED vars

(* getCurrentCommand(): the point of current_path_ that is due, through    *)
(* the reference filter.  It reads the path and the clock only; it may     *)
(* throw, as may the publisher.                                            *)
getCurrentCommand == {"point", "exception"}

control_command ==
    /\ at("command")
    /\ \E r \in getCurrentCommand : goto(IF r = "point" THEN "reached" ELSE "catch")
    /\ UNCHANGED <<vars, goal, current_path>>

(* The answers isGoalReached() can give: false without a path, and else as *)
(* the vehicle's pose will have it.                                        *)
isGoalReached == IF current_path = NoGoal THEN {FALSE} ELSE BOOLEAN

(* The path is cleared, or the loop sleeps and goes on.                    *)
control_reached ==
    /\ at("reached")
    /\ \E reached \in isGoalReached :
         IF reached THEN current_path' = NoGoal /\ goto("succeed")
                    ELSE UNCHANGED current_path /\ goto("check_active")
    /\ UNCHANGED <<vars, goal>>

(* Fault: success is reported on the handle that was read at the start.    *)
control_succeed_own_handle ==
    /\ at("succeed")
    /\ goal_status' = [goal_status EXCEPT ![goal] = "succeeded"]
    /\ current_handle' = NoGoal
    /\ goto("return")
    /\ UNCHANGED <<pending_handle, preempt_requested, flags, executor, work_pc,
                   deactivate_pc, goal, current_path>>

control_succeed ==
    /\ at("succeed")
    /\ succeeded_current
    /\ goto("return")
    /\ UNCHANGED <<flags, executor, work_pc, deactivate_pc, goal, current_path>>

(* The catch clauses: they differ in the error code only.                  *)
control_catch ==
    /\ at("catch")
    /\ terminate_current
    /\ goto("return")
    /\ UNCHANGED <<flags, executor, work_pc, deactivate_pc, goal, current_path>>

control_terminate ==
    /\ at("terminate")
    /\ terminate_all
    /\ goto("return")
    /\ UNCHANGED <<flags, executor, work_pc, deactivate_pc, goal, current_path>>

(* computeControl() returns to work(); its locals go out of scope.         *)
control_return ==
    /\ at("return")
    /\ callback_return
    /\ goto("start")
    /\ goal' = NoGoal
    /\ UNCHANGED current_path

ControlStep ==
    \/ control_start \/ control_check_active \/ control_check_cancel
    \/ control_check_preempt \/ control_accept \/ control_accepted
    \/ control_command \/ control_reached \/ control_succeed
    \/ control_catch \/ control_terminate \/ control_return

(* work() around the callback.                                             *)
ControlWorkStep ==
    /\ work_check_stop \/ work_check_current \/ work_finish \/ work_exit
    /\ UNCHANGED control

-----------------------------------------------------------------------------

(* on_configure.                                                           *)
ControlInit ==
    /\ Init
    /\ control_pc = "start"
    /\ goal = NoGoal
    /\ current_path = NoGoal

ControlNext ==
    \/ ControlStep
    \/ ControlWorkStep
    \/ /\ ClientStep \/ ExecutorStep \/ DeactivateStep
          \/ activate \/ (server_active /\ deactivate) \/ deactivate_timeout
       /\ UNCHANGED control

ControlSpec == ControlInit /\ [][ControlNext]_cvars

(* Each thread goes on.  Nothing is assumed of the flight: the vehicle may *)
(* never reach the end of its path.                                        *)
ControlFairness ==
    /\ WF_cvars(ExecutorStep /\ UNCHANGED control)
    /\ WF_cvars(DeactivateStep /\ UNCHANGED control)
    /\ WF_cvars(ControlStep)
    /\ WF_cvars(ControlWorkStep)

ControlFairSpec == ControlSpec /\ ControlFairness

-----------------------------------------------------------------------------
(* Properties.                                                             *)

(* The point that is published, and the goal test, are those of the path   *)
(* of the goal the server is executing.  The only other case is the one    *)
(* where deactivate() ran out of patience and has terminated that goal     *)
(* under the loop, which then leaves at its next round.                    *)
FollowsCurrentGoal ==
    at("command") \/ at("reached") =>
      /\ current_path = goal
      /\ current_handle = goal \/ (current_handle = NoGoal /\ ~ server_active)

(* What FollowsCurrentGoal rests on: from the point where it has read a    *)
(* goal, computeControl's goal is the current one until it asks for        *)
(* another, and current_path_ is its path until the end is reached; only a *)
(* deactivation takes the goal away.                                       *)
Following == {"check_active", "check_cancel", "check_preempt", "accept",
              "command", "reached"}

OwnsCurrentGoal ==
    /\ control_pc \in Following => current_path = goal
    /\ control_pc \in Following \cup {"succeed"} =>
         /\ goal \in Goals \ EmptyPaths
         /\ current_handle = goal \/ (current_handle = NoGoal /\ ~ server_active)
    /\ control_pc # "start" => work_pc = "callback"

ControlInv == ControlTypeOK /\ IndInv /\ StopInv /\ OwnsCurrentGoal

(* A goal is reported as succeeded only when the end of its own path was   *)
(* reached: the loop leaves for success on a current_path_ that is the     *)
(* path of the goal it has read, never of the one that goal preempted, and *)
(* the success, which succeeded_current() gives to whatever goal is        *)
(* current then, goes to that goal and never to an empty path.             *)
SucceedsOnOwnPath ==
    [][/\ control_pc # "succeed" /\ control_pc' = "succeed" => current_path = goal
       /\ \A g \in Goals :
            goal_status[g] # "succeeded" /\ goal_status'[g] = "succeeded"
              => control_pc = "succeed" /\ g = goal /\ g \notin EmptyPaths]_cvars

(* computeControl() is one of the execute callbacks the server allows, so  *)
(* what holds of SimpleActionServer holds of this server.                  *)
ControlImplementsServer == Spec

(* A client that cancels the goal being followed gets its result, however  *)
(* many goals arrive meanwhile and wherever the vehicle is.                *)
CancelHonoured ==
    \A g \in Goals :
      (work_pc = "callback" /\ current_handle = g /\ goal_status[g] = "canceling")
        ~> goal_status[g] \notin Active

(* deactivate() returns although no path is ever finished: it is the loop  *)
(* that notices.                                                           *)
ControlDeactivates == deactivate_pc = "stopped" ~> deactivate_pc = "idle"
=============================================================================
