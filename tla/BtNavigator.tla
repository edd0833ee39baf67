----------------------------- MODULE BtNavigator -----------------------------
(***************************************************************************)
(* nav3d_bt_navigator: a BehaviorTreeNavigator (NavigateToPose or          *)
(* NavigateThroughPoses), the BtActionServer it owns, the loop of the      *)
(* BehaviorTreeEngine, and the NavigatorMuxer it shares with the node's    *)
(* other navigator.                                                        *)
(*                                                                         *)
(* Its action server is a SimpleActionServer served by the node's own      *)
(* executor (SpinThread = FALSE); executeCallback() runs on the server's   *)
(* worker thread.  The behavior tree is abstracted to what a tick can      *)
(* return and to the error codes it may leave on the blackboard; the other *)
(* navigator to what it does with the muxer.                               *)
(***************************************************************************)
EXTENDS SimpleActionServer

CONSTANT MaxPoses  \* NavigateThroughPoses: the poses of a goal

ASSUME MaxPosesAssumption == MaxPoses \in Nat \ {0}

VARIABLES nav_pc,          \* where executeCallback() is
          goal,            \* the goal a callback was given, NoGoal if null
          bb_goal,         \* the goal whose pose is on the blackboard
          rc,              \* the status of the tree and of run()
          internal_error,  \* internal_error_code_
          node_error,      \* the lowest error code that tree nodes left on the blackboard
          muxer,           \* current_navigator_
          other_pc,        \* where the other navigator is
          internal_owner,  \* history: for whom internal_error was recorded
          node_owner       \* history: under which goal node_error was left

internal == <<internal_error, internal_owner>>
of_nodes == <<node_error, node_owner>>
errors == <<internal_error, internal_owner, node_error, node_owner>>
local == <<goal, rc>>
nav == <<nav_pc, local, bb_goal, errors>>
mux == <<muxer, other_pc>>
nvars == <<vars, nav, mux>>

NavPc == {"start", "goal_received", "start_navigating", "reject", "check_active",
          "check_cancel", "tick", "on_loop", "preempt", "accept", "preempt_transform",
          "terminate_pending", "publish", "completion", "report", "clean", "crashed"}

(* Error codes: lower is more important.  The codes of the tree's actions  *)
(* are below those of the navigator.                                       *)
NONE == 0
NodeError == 100
FAILED_TO_LOAD_BEHAVIOR_TREE == 9001
TF_ERROR == 9002

(* The two history variables are read by no guard.  An error is recorded    *)
(* for the goal that is executed, which may be preempted or end its run of *)
(* executeCallback() afterwards, or by on_activate().                      *)
Owner == {"nobody", "this goal", "preempted goal", "earlier run", "activation"}

NavTypeOK ==
    /\ TypeOK
    /\ nav_pc \in NavPc
    /\ goal \in Goals \cup {NoGoal}
    /\ bb_goal \in Goals \cup {NoGoal}
    /\ rc \in {"RUNNING", "SUCCEEDED", "FAILED", "CANCELED"}
    /\ internal_error \in {NONE, FAILED_TO_LOAD_BEHAVIOR_TREE, TF_ERROR}
    /\ node_error \in {NONE, NodeError}
    /\ muxer \in {"", "this", "other"}
    /\ other_pc \in {"idle", "checked", "navigating"}
    /\ internal_owner \in Owner /\ node_owner \in Owner

-----------------------------------------------------------------------------
(* Helpers.                                                                *)

at(pc) == work_pc = "callback" /\ nav_pc = pc

goto(pc) == nav_pc' = pc

server_rest == <<flags, executor, work_pc, deactivate_pc>>

-----------------------------------------------------------------------------
(* The error codes.                                                        *)

setInternalError(code, owner) ==
    /\ internal_error' = code
    /\ internal_owner' = owner

(* History: what was recorded for the goal so far is that of a preempted   *)
(* goal from now on, and in the end that of an earlier run.                *)
preempted(owner) == IF owner = "this goal" THEN "preempted goal" ELSE owner
outlived(code) == IF code = NONE THEN "nobody" ELSE "earlier run"

-----------------------------------------------------------------------------
(* onGoalReceived() and goalReceived().                                    *)

(* get_current_goal(), and the first question to the muxer.                *)
onGoalReceived ==
    /\ at("start")
    /\ goal' = IF is_active(current_handle) THEN current_handle ELSE NoGoal
    /\ goto(IF muxer = "" THEN "goal_received" ELSE "reject")
    /\ UNCHANGED <<vars, mux, rc, bb_goal, errors>>

(* Fault: a pose that cannot be transformed is not recorded as an error.   *)
transform_fails_silently ==
    UNCHANGED <<bb_goal, internal>>

(* The robot's pose or a pose of the goal is not available.                *)
transform_fails ==
    /\ setInternalError(TF_ERROR, "this goal")
    /\ UNCHANGED bb_goal

(* initializeGoalPose(): the pose is written to the blackboard.            *)
initializeGoalPose(ok) ==
    IF ok
    THEN bb_goal' = goal /\ UNCHANGED internal
    ELSE transform_fails

(* initializeGoalPoses(): nothing is written before the last of the poses  *)
(* has been transformed.                                                   *)
initializeGoalPoses(ok) ==
    \E transformed \in [1 .. MaxPoses -> BOOLEAN] :
      /\ ok <=> \A i \in 1 .. MaxPoses : transformed[i]
      /\ IF ok
         THEN bb_goal' = goal /\ UNCHANGED internal
         ELSE transform_fails

initialize(ok) == initializeGoalPose(ok) \/ initializeGoalPoses(ok)

(* loadBehaviorTree() fails: the file the goal names is not the one that   *)
(* is loaded, and does not exist or parse.  The old tree stays.            *)
loadBehaviorTree_fails ==
    /\ setInternalError(FAILED_TO_LOAD_BEHAVIOR_TREE, "this goal")
    /\ UNCHANGED bb_goal

(* goalReceived(): a null goal ends the process.                           *)
goalReceived ==
    /\ at("goal_received")
    /\ \/ goal # NoGoal /\ loadBehaviorTree_fails /\ goto("reject")
       \/ \E ok \in BOOLEAN :
            /\ goal # NoGoal
            /\ initialize(ok)
            /\ goto(IF ok THEN "start_navigating" ELSE "reject")
       \/ goal = NoGoal /\ goto("crashed") /\ UNCHANGED <<bb_goal, internal>>
    /\ UNCHANGED <<vars, mux, local, of_nodes>>

(* The second question to the muxer, which only complains when another     *)
(* navigator has started since the first.                                  *)
startNavigating ==
    /\ at("start_navigating")
    /\ muxer' = "this"
    /\ rc' = "RUNNING"
    /\ goto("check_active")
    /\ UNCHANGED <<vars, other_pc, goal, bb_goal, errors>>

(* The goal is not accepted: terminate_current() with what error there is. *)
executeCallback_reject ==
    /\ at("reject")
    /\ terminate_current
    /\ goto("clean")
    /\ UNCHANGED <<server_rest, mux, local, bb_goal, errors>>

-----------------------------------------------------------------------------
(* run(): the loop of the engine.                                          *)

(* Fault: only the goal is asked whether it is to be canceled.             *)
isServerActive_ignored ==
    /\ at("check_active")
    /\ goto("check_cancel")
    /\ UNCHANGED <<vars, mux, local, bb_goal, errors>>

(* is_canceling(): the server's state first ...                            *)
isServerActive ==
    /\ at("check_active")
    /\ rc' = IF server_active THEN rc ELSE "CANCELED"
    /\ goto(IF server_active THEN "check_cancel" ELSE "completion")
    /\ UNCHANGED <<vars, mux, goal, bb_goal, errors>>

(* ... then the goal's.                                                    *)
isCancelRequested ==
    /\ at("check_cancel")
    /\ rc' = IF is_cancel_requested THEN "CANCELED" ELSE rc
    /\ goto(IF is_cancel_requested THEN "completion" ELSE "tick")
    /\ UNCHANGED <<vars, mux, goal, bb_goal, errors>>

(* tickOnce(): the nodes leave any error codes; an exception leaves the    *)
(* loop at once.                                                           *)
tickOnce ==
    /\ at("tick")
    /\ \/ node_error' = NONE /\ node_owner' = "nobody"
       \/ node_error' = NodeError /\ node_owner' = "this goal"
       \/ UNCHANGED of_nodes
    /\ \/ rc' \in {"RUNNING", "SUCCEEDED", "FAILED"} /\ goto("on_loop")
       \/ rc' = "FAILED" /\ goto("completion")
    /\ UNCHANGED <<vars, mux, goal, bb_goal, internal>>

isPreemptRequested ==
    /\ at("on_loop")
    /\ goto(IF preempt_requested THEN "preempt" ELSE "publish")
    /\ UNCHANGED <<vars, mux, local, bb_goal, errors>>

(* onPreempt(): the goal that get_pending_goal() returned asks for the     *)
(* tree that runs, or for another.  A null goal ends the process.          *)
onPreempt ==
    /\ at("preempt")
    /\ IF is_active(pending_handle)
       THEN goto("accept") \/ goto("terminate_pending")
       ELSE goto("crashed")
    /\ UNCHANGED <<vars, mux, local, bb_goal, errors>>

(* acceptPendingGoal(): whatever goal is pending by now.  No error code is *)
(* reset.                                                                  *)
acceptPendingGoal ==
    /\ at("accept")
    /\ accept_pending_goal
    /\ goal' = IF is_active(pending_handle) THEN pending_handle ELSE NoGoal
    /\ internal_owner' = preempted(internal_owner)
    /\ node_owner' = preempted(node_owner)
    /\ goto("preempt_transform")
    /\ UNCHANGED <<server_rest, mux, rc, bb_goal, internal_error, node_error>>

(* A null goal ends the process unless the robot's pose is not available,  *)
(* which is looked at first.                                               *)
onPreempt_initialize ==
    /\ at("preempt_transform")
    /\ \/ \E ok \in BOOLEAN :
            /\ ok => goal # NoGoal
            /\ initialize(ok)
            /\ goto(IF ok THEN "publish" ELSE "terminate_pending")
       \/ goal = NoGoal /\ goto("crashed") /\ UNCHANGED <<bb_goal, internal>>
    /\ UNCHANGED <<vars, mux, local, of_nodes>>

terminatePendingGoal ==
    /\ at("terminate_pending")
    /\ terminate_pending_goal
    /\ goto("publish")
    /\ UNCHANGED <<server_rest, mux, local, bb_goal, errors>>

(* Feedback, unless the robot's pose is not available; with no goal poses  *)
(* left on the blackboard, NavigateThroughPoses does without it.           *)
NavigateToPose_onLoop(located) ==
    IF located THEN publish_feedback_check ELSE UNCHANGED vars

NavigateThroughPoses_onLoop(left, located) ==
    IF left = 0 \/ located THEN publish_feedback_check ELSE UNCHANGED vars

(* onLoop(), then the condition of the loop.                               *)
onLoop ==
    /\ at("publish")
    /\ \E located \in BOOLEAN :
         \/ NavigateToPose_onLoop(located)
         \/ \E left \in 0 .. MaxPoses : NavigateThroughPoses_onLoop(left, located)
    /\ goto(IF rc = "RUNNING" THEN "check_active" ELSE "completion")
    /\ UNCHANGED <<mux, local, bb_goal, errors>>

-----------------------------------------------------------------------------
(* The end of executeCallback().                                           *)

(* haltAllActions(): actions that are halted clear their error codes.      *)
haltAllActions ==
    /\ UNCHANGED of_nodes \/ (node_error' = NONE /\ node_owner' = "nobody")
    /\ UNCHANGED internal

(* populateErrorCode(): the lowest code that is set, the internal one      *)
(* included.                                                               *)
populateErrorCode ==
    LET codes == {internal_error, node_error} \ {NONE}
    IN IF codes = {} THEN NONE
       ELSE CHOOSE c \in codes : \A d \in codes : c <= d

(* goalCompleted(): a result without an error takes the internal one.      *)
result_code ==
    IF populateErrorCode = NONE THEN internal_error ELSE populateErrorCode

(* Fault: the muxer is not released.                                       *)
stopNavigating_never == UNCHANGED muxer

(* stopNavigating(): the muxer is released if it still names this          *)
(* navigator.                                                              *)
stopNavigating == muxer' = IF muxer = "this" THEN "" ELSE muxer

onCompletion ==
    /\ at("completion")
    /\ haltAllActions
    /\ stopNavigating
    /\ goto("report")
    /\ UNCHANGED <<vars, other_pc, local, bb_goal>>

(* Fault: success is reported on the goal that was accepted last.          *)
executeCallback_report_own_goal ==
    /\ at("report")
    /\ \/ /\ rc = "SUCCEEDED"
          /\ goal_status' = [goal_status EXCEPT ![goal] = "succeeded"]
          /\ current_handle' = NoGoal
          /\ UNCHANGED <<pending_handle, preempt_requested>>
       \/ rc = "FAILED" /\ terminate_current
       \/ rc = "CANCELED" /\ terminate_all
    /\ goto("clean")
    /\ UNCHANGED <<server_rest, mux, local, bb_goal, errors>>

(* The result, by the status of run().                                     *)
executeCallback_report ==
    /\ at("report")
    /\ \/ rc = "SUCCEEDED" /\ succeeded_current
       \/ rc = "FAILED" /\ terminate_current
       \/ rc = "CANCELED" /\ terminate_all
    /\ goto("clean")
    /\ UNCHANGED <<server_rest, mux, local, bb_goal, errors>>

(* Fault: the internal error is not reset.                                 *)
cleanErrorCodes_keeps_internal ==
    /\ node_error' = NONE
    /\ UNCHANGED internal_error

cleanErrorCodes ==
    /\ internal_error' = NONE
    /\ node_error' = NONE

executeCallback_return ==
    /\ at("clean")
    /\ cleanErrorCodes
    /\ internal_owner' = outlived(internal_error')
    /\ node_owner' = outlived(node_error')
    /\ callback_return
    /\ goto("start")
    /\ goal' = NoGoal
    /\ rc' = "RUNNING"
    /\ UNCHANGED <<mux, bb_goal>>

NavStep ==
    \/ onGoalReceived \/ goalReceived \/ startNavigating \/ executeCallback_reject
    \/ isServerActive \/ isCancelRequested \/ tickOnce
    \/ isPreemptRequested \/ onPreempt \/ acceptPendingGoal
    \/ onPreempt_initialize \/ terminatePendingGoal \/ onLoop
    \/ onCompletion \/ executeCallback_report \/ executeCallback_return

NavWorkStep ==
    /\ work_check_stop \/ work_check_current \/ publish_feedback_use
       \/ work_finish \/ work_exit
    /\ UNCHANGED <<nav, mux>>

-----------------------------------------------------------------------------
(* The other navigator, as the muxer sees it: it asks, prepares its goal   *)
(* (which may fail), starts, and stops.                                    *)

other_onGoalReceived ==
    /\ other_pc = "idle"
    /\ muxer = ""
    /\ other_pc' = "checked"
    /\ UNCHANGED <<vars, nav, muxer>>

other_goalReceived ==
    /\ other_pc = "checked"
    /\ \/ other_pc' = "navigating" /\ muxer' = "other"
       \/ other_pc' = "idle" /\ UNCHANGED muxer
    /\ UNCHANGED <<vars, nav>>

other_onCompletion ==
    /\ other_pc = "navigating"
    /\ other_pc' = "idle"
    /\ muxer' = IF muxer = "other" THEN "" ELSE muxer
    /\ UNCHANGED <<vars, nav>>

OtherStep == other_onGoalReceived \/ other_goalReceived \/ other_onCompletion

-----------------------------------------------------------------------------
(* The lifecycle callbacks, on the node's executor thread.                 *)

(* on_activate(): the default tree is loaded before the server takes goals.*)
on_activate ==
    /\ activate
    /\ setInternalError(NONE, "nobody")
    /\ UNCHANGED <<nav_pc, local, bb_goal, of_nodes, mux>>

(* It cannot be loaded: the navigators are deactivated.                    *)
on_activate_fails ==
    /\ ~ server_active
    /\ deactivate
    /\ setInternalError(FAILED_TO_LOAD_BEHAVIOR_TREE, "activation")
    /\ UNCHANGED <<nav_pc, local, bb_goal, of_nodes, mux>>

on_deactivate ==
    /\ server_active
    /\ deactivate
    /\ UNCHANGED <<nav, mux>>

-----------------------------------------------------------------------------

NavInit ==
    /\ Init
    /\ nav_pc = "start"
    /\ goal = NoGoal
    /\ bb_goal = NoGoal
    /\ rc = "RUNNING"
    /\ internal_error = NONE
    /\ node_error = NONE
    /\ internal_owner = "nobody" /\ node_owner = "nobody"
    /\ muxer = ""
    /\ other_pc = "idle"

NavNext ==
    /\ nav_pc # "crashed"
    /\ \/ NavStep
       \/ NavWorkStep
       \/ OtherStep
       \/ on_activate \/ on_activate_fails \/ on_deactivate
       \/ /\ ClientStep \/ ExecutorStep \/ DeactivateStep \/ deactivate_timeout
          /\ UNCHANGED <<nav, mux>>

NavSpec == NavInit /\ [][NavNext]_nvars

(* The worker goes on (a tick returns: the nodes wait with timeouts), and  *)
(* so do the executor and deactivate().  Nothing is assumed of the tree,   *)
(* which may run for ever, of clients or of the other navigator.           *)
NavFairness ==
    /\ WF_nvars(NavStep)
    /\ WF_nvars(NavWorkStep)
    /\ WF_nvars(DeactivateStep /\ UNCHANGED <<nav, mux>>)

NavFairSpec == NavSpec /\ NavFairness

-----------------------------------------------------------------------------
(* Properties.                                                             *)

(* A navigator is one of the execute callbacks the server allows.          *)
NavImplementsServer == Spec

(* onPreempt() accepts a goal before it knows whether the goal can be      *)
(* transformed, and tracks the last one if it cannot.  When the navigator  *)
(* reports on a goal that is not the one it has tracked, the result        *)
(* carries an error code, also if the tree has succeeded (or the server is *)
(* being deactivated).                                                     *)
MistrackedGoalHasError ==
    at("report") /\ bb_goal # current_handle => result_code # NONE \/ ~ server_active

(* The error codes are members and blackboard entries that outlive goals.  *)
(* What the result of a goal says was recorded in the same run of          *)
(* executeCallback(): for that goal or, since nothing is reset when a      *)
(* goal is preempted, for one that was preempted in the run (then also a   *)
(* success is reported with the error of another goal).  Nothing comes     *)
(* from an earlier run or from an activation, a goal that is rejected has  *)
(* its own error only, and FAILED_TO_LOAD_BEHAVIOR_TREE is the code of     *)
(* rejected goals only.                                                    *)
ErrorsAreOfThisRun ==
    /\ at("reject") => {internal_owner, node_owner} \subseteq {"nobody", "this goal"}
    /\ at("report") =>
         /\ {internal_owner, node_owner} \subseteq {"nobody", "this goal", "preempted goal"}
         /\ internal_error # FAILED_TO_LOAD_BEHAVIOR_TREE

(* Between startNavigating() and stopNavigating().                         *)
Navigating == {"check_active", "check_cancel", "tick", "on_loop", "preempt", "accept",
               "preempt_transform", "terminate_pending", "publish", "completion"}

(* The muxer is free when no navigator is running, even after both have    *)
(* passed its first test and overwritten each other's name: otherwise      *)
(* every later goal would be rejected.                                     *)
MuxerReleased ==
    muxer = "" \/ nav_pc \in Navigating \cup {"crashed"} \/ other_pc = "navigating"

(* ... because the name in the muxer is always that of a navigator that    *)
(* is still to release it.                                                 *)
MuxerHeld ==
    /\ muxer = "this" => nav_pc \in Navigating \cup {"crashed"}
    /\ muxer = "other" => other_pc = "navigating"

(* executeCallback() runs on the worker, gives feedback only in onLoop(),  *)
(* and knows how the tree has ended when it reports.                       *)
NavRuns ==
    /\ nav_pc # "start" => work_pc \in {"callback", "feedback"}
    /\ work_pc = "feedback" => nav_pc \in {"check_active", "completion"}
    /\ nav_pc \in {"completion", "report"} => rc # "RUNNING"

(* executeCallback() starts without errors: one that a failed activation   *)
(* left is reset by the next activation, and until then no execute         *)
(* callback is reached.                                                    *)
ErrorsFresh ==
    nav_pc = "start" =>
      /\ node_error = NONE
      /\ internal_error # NONE =>
           /\ ~ server_active /\ stop_execution
           /\ work_pc \notin {"check_current", "callback", "feedback", "catch", "finish"}

(* From there on, whose errors there can be at each point.                 *)
ErrorsOwned ==
    /\ internal_error = NONE <=> internal_owner = "nobody"
    /\ node_error = NONE <=> node_owner = "nobody"
    /\ nav_pc # "start" =>
         {internal_owner, node_owner} \subseteq {"nobody", "this goal", "preempted goal"}
    /\ nav_pc \in {"goal_received", "start_navigating", "reject"} => node_error = NONE
    /\ nav_pc \in {"goal_received", "start_navigating"} => internal_error = NONE
    /\ nav_pc = "reject" => internal_owner \in {"nobody", "this goal"}
    /\ nav_pc \in Navigating \cup {"report"} => internal_error # FAILED_TO_LOAD_BEHAVIOR_TREE

(* Where the blackboard holds a goal's pose.                               *)
Tracking == (Navigating \ {"preempt_transform"}) \cup {"start_navigating", "report"}

(* Between two readings of the server's handles no other thread changes    *)
(* them, but for a deactivation: the goal is the current one, the pending  *)
(* one is still there, and only a recorded error makes the pose on the     *)
(* blackboard that of another goal.                                        *)
NavOwns ==
    server_active =>
      /\ at("start") => current_handle # NoGoal
      /\ nav_pc \in {"goal_received", "preempt_transform"} => goal # NoGoal /\ goal = current_handle
      /\ nav_pc \in {"preempt", "accept"} => pending_handle # NoGoal
      /\ nav_pc \in Tracking => bb_goal = current_handle \/ internal_error # NONE
      /\ nav_pc # "crashed"

(* A null goal ends the process (in goalReceived() and onPreempt()) in one *)
(* case only: deactivate() is waiting, and has terminated the goals under  *)
(* the callback.                                                           *)
CrashOnlyByDeactivation ==
    nav_pc = "crashed" => ~ server_active /\ deactivate_pc # "idle"

(* The inductive invariant of the navigator.                               *)
NavInv ==
    /\ IndInv /\ StopInv /\ NavTypeOK
    /\ MuxerHeld /\ NavRuns /\ ErrorsFresh /\ ErrorsOwned /\ NavOwns

(* deactivate() returns although the tree may run for ever, and a goal     *)
(* that is executed and is to be canceled ends, unless another goal is     *)
(* pending, which hides the request.                                       *)
NavigationStops ==
    /\ deactivate_pc = "stopped" ~> (deactivate_pc = "idle" \/ nav_pc = "crashed")
    /\ \A g \in Goals :
         (work_pc = "callback" /\ current_handle = g /\ goal_status[g] = "canceling")
           ~> (goal_status[g] \notin Active \/ pending_handle # NoGoal \/ nav_pc = "crashed")
=============================================================================
