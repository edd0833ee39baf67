------------------------- MODULE PlannerServerProofs -------------------------
(***************************************************************************)
(* Proofs about PlannerServer: computePlan() is an execute callback of     *)
(* SimpleActionServer, it hands out plans to the goals they were made for, *)
(* and the one place where it uses a null goal is the one it names.        *)
(***************************************************************************)
EXTENDS PlannerServer, SimpleActionServerProofs

USE NoGoalAssumption

-----------------------------------------------------------------------------
(* The planner implements the server.                                      *)

(* The steps of computePlan() that only read the server's state.           *)
QuietStep ==
    \/ plan_start \/ isServerInactive \/ isCancelRequested
    \/ getPreemptedGoalIfRequested \/ plan_use
    \/ cancel_checker("cancel_before_start", "start_pose")
    \/ plan_poses
    \/ cancel_checker("cancel_before_plan", "createPlan")
    \/ createPlan
    \/ cancel_checker("cancel_after_plan", "check_path")
    \/ plan_check_path

LEMMA PlanStepCases ==
  PlanStep <=> \/ QuietStep \/ plan_accept \/ plan_succeed \/ plan_catch
               \/ plan_terminate \/ plan_return
  BY DEF PlanStep, QuietStep

LEMMA QuietStepsQuiet ==
  ASSUME QuietStep PROVE UNCHANGED vars /\ work_pc = "callback"
  BY DEF QuietStep, plan_start, isServerInactive, isCancelRequested,
     getPreemptedGoalIfRequested, plan_use, cancel_checker, plan_poses, createPlan,
     plan_check_path, at

LEMMA PlanNextRefines == [PlanNext]_pvars => [Next]_vars
<1> SUFFICES ASSUME [PlanNext]_pvars PROVE [Next]_vars
  OBVIOUS
<1>1. CASE PlanStep
  <2>1. CASE QuietStep
    BY <2>1, QuietStepsQuiet
  <2>2. CASE plan_accept \/ plan_succeed \/ plan_catch \/ plan_terminate
    <3>1. callback_call
      BY <2>2 DEF plan_accept, plan_succeed, plan_catch, plan_terminate, at, callback_call
    <3> QED  BY <3>1 DEF Next, CallbackStep
  <2>3. CASE plan_return
    BY <2>3 DEF plan_return, Next, WorkStep
  <2> QED  BY <1>1, <2>1, <2>2, <2>3, PlanStepCases
<1>2. CASE PlanWorkStep
  BY <1>2 DEF PlanWorkStep, Next, WorkStep
<1>3. CASE on_activate \/ on_deactivate
  BY <1>3 DEF on_activate, on_deactivate, Next
<1>4. CASE activate_planner \/ deactivate_planner
  BY <1>4 DEF activate_planner, deactivate_planner
<1>5. CASE ClientStep \/ ExecutorStep \/ DeactivateStep \/ deactivate_timeout
  BY <1>5 DEF Next
<1>6. CASE UNCHANGED pvars
  BY <1>6 DEF pvars
<1> QED  BY <1>1, <1>2, <1>3, <1>4, <1>5, <1>6 DEF PlanNext

(* computePlan() is one of the callbacks SimpleActionServer allows.        *)
THEOREM PlannerRefinesServer == PlanSpec => PlanImplementsServer
<1>1. PlanInit => Init
  BY DEF PlanInit
<1> QED
  BY <1>1, PlanNextRefines, PTL DEF PlanSpec, PlanImplementsServer, Spec

-----------------------------------------------------------------------------
(* The inductive invariant.                                                *)

PlanVarsOK ==
    /\ plan_pc \in PlanPc
    /\ goal \in Goals \cup {NoGoal}
    /\ path \in Goals \cup {NoGoal}
    /\ planner_active \in BOOLEAN

LEMMA PlanVarsPreserved ==
  ASSUME PlanVarsOK, IndInv, PlanStep PROVE PlanVarsOK'
<1> USE DEF PlanVarsOK, PlanPc, goto
<1>0. current_handle \in Goals \cup {NoGoal} /\ pending_handle \in Goals \cup {NoGoal}
  BY DEF IndInv, TypeOK
<1>1. CASE plan_start
  BY <1>0, <1>1 DEF plan_start
<1>2. CASE isServerInactive \/ isCancelRequested \/ getPreemptedGoalIfRequested \/ plan_use
  BY <1>2 DEF isServerInactive, isCancelRequested, getPreemptedGoalIfRequested, plan_use
<1>3. CASE \/ cancel_checker("cancel_before_start", "start_pose")
           \/ cancel_checker("cancel_before_plan", "createPlan")
           \/ cancel_checker("cancel_after_plan", "check_path")
  BY <1>3 DEF cancel_checker
<1>4. CASE plan_poses \/ createPlan \/ plan_check_path
  BY <1>4 DEF plan_poses, createPlan, plan_check_path
<1>5. CASE plan_accept
  BY <1>0, <1>5 DEF plan_accept
<1>6. CASE plan_succeed \/ plan_catch \/ plan_terminate \/ plan_return
  BY <1>6 DEF plan_succeed, plan_catch, plan_terminate, plan_return
<1> QED  BY <1>1, <1>2, <1>3, <1>4, <1>5, <1>6 DEF PlanStep

LEMMA PlanStepOwns ==
  ASSUME PlanVarsOK, IndInv, StopInv, PlanOwns, PlanStep
  PROVE  PlanOwns'
<1> USE DEF PlanOwns, Terminated, Reading, Planning, goto, at
<1>1. CASE QuietStep
  <2>0. work_pc = "callback" /\ UNCHANGED <<work_pc, current_handle, pending_handle, server_active>>
    BY <1>1, QuietStepsQuiet DEF vars, slots, flags
  <2>1. CASE plan_start
    BY <2>0, <2>1, ResetClears DEF plan_start
  <2>2. CASE isServerInactive
    BY <2>0, <2>2 DEF isServerInactive
  <2>3. CASE isCancelRequested
    BY <2>0, <2>3 DEF isCancelRequested
  <2>4. CASE getPreemptedGoalIfRequested
    <3>1. preempt_requested => pending_handle # NoGoal
      BY DEF IndInv, SlotsConsistent
    <3> QED  BY <2>0, <2>4, <3>1 DEF getPreemptedGoalIfRequested
  <2>5. CASE plan_use
    BY <2>0, <2>5 DEF plan_use
  <2>6. CASE \/ cancel_checker("cancel_before_start", "start_pose")
             \/ cancel_checker("cancel_before_plan", "createPlan")
             \/ cancel_checker("cancel_after_plan", "check_path")
    BY <2>0, <2>6 DEF cancel_checker
  <2>7. CASE plan_poses
    BY <2>0, <2>7 DEF plan_poses
  <2>8. CASE createPlan
    BY <2>0, <2>8 DEF createPlan
  <2>9. CASE plan_check_path
    BY <2>0, <2>9 DEF plan_check_path
  <2> QED
    BY <1>1, <2>1, <2>2, <2>3, <2>4, <2>5, <2>6, <2>7, <2>8, <2>9 DEF QuietStep
<1>2. CASE plan_accept
  <2>0. /\ plan_pc = "accept" /\ plan_pc' = "use" /\ work_pc = "callback"
        /\ UNCHANGED <<work_pc, server_active, path>>
        /\ goal' = IF is_active(pending_handle) THEN pending_handle ELSE NoGoal
    BY <1>2 DEF plan_accept, flags
  <2>1. CASE is_active(pending_handle)
    <3>1. pending_handle # NoGoal /\ current_handle' = pending_handle
      BY <1>2, <2>1 DEF plan_accept, accept_pending_goal, is_active
    <3> QED  BY <2>0, <2>1, <3>1
  <2>2. CASE ~ is_active(pending_handle)
    <3>1. Terminated /\ UNCHANGED current_handle
      BY <1>2, <2>0, <2>2, ResetClears DEF plan_accept, accept_pending_goal, slots
    <3> QED  BY <2>0, <2>2, <3>1
  <2> QED  BY <2>1, <2>2
<1>3. CASE plan_succeed \/ plan_catch \/ plan_terminate
  <2>1. /\ plan_pc' = "return" /\ work_pc = "callback" /\ plan_pc \notin Reading \cup {"start"}
        /\ UNCHANGED <<work_pc, goal, path, planner_active>>
    BY <1>3 DEF plan_succeed, plan_catch, plan_terminate
  <2> QED  BY <2>1
<1>4. CASE plan_return
  BY <1>4 DEF plan_return, callback_return
<1> QED  BY <1>1, <1>2, <1>3, <1>4, PlanStepCases

(* No other thread takes the goal or the planner away from computePlan(),  *)
(* but by a deactivation that is not over.                                 *)
LEMMA OtherStepOwns ==
  ASSUME PlanVarsOK, IndInv, StopInv, PlanOwns, UNCHANGED plan,
         \/ PlanWorkStep
         \/ on_activate \/ activate_planner \/ on_deactivate \/ deactivate_planner
         \/ /\ ClientStep \/ ExecutorStep \/ DeactivateStep \/ deactivate_timeout
            /\ UNCHANGED planner_active
  PROVE  PlanOwns'
<1>0. UNCHANGED <<plan_pc, goal, path>>
  BY DEF plan
<1> USE DEF PlanOwns, Terminated, Reading, Planning
<1>1. CASE PlanWorkStep
  <2>1. work_pc # "callback" /\ plan_pc = "start" /\ path = NoGoal
    BY <1>1 DEF PlanWorkStep, work_check_stop, work_check_current, work_finish, work_exit
  <2>2. work_pc' = "callback" => is_active(current_handle) /\ UNCHANGED current_handle
    BY <1>1 DEF PlanWorkStep, work_check_stop, work_check_current, work_finish, work_exit,
       slots
  <2> QED  BY <1>0, <2>1, <2>2 DEF is_active
<1>2. CASE on_activate
  <2>1. ~ server_active /\ deactivate_pc = "idle" /\ UNCHANGED work_pc
    BY <1>2 DEF on_activate, activate
  <2>2. work_pc # "callback"
    BY <2>1 DEF StopInv
  <2> QED  BY <1>0, <2>1, <2>2
<1>3. CASE on_deactivate
  <2>1. ~ server_active' /\ UNCHANGED <<current_handle, pending_handle, work_pc, planner_active>>
    BY <1>3 DEF on_deactivate, deactivate, slots
  <2> QED  BY <1>0, <2>1
<1>4. CASE activate_planner
  <2>1. planner_active' /\ UNCHANGED <<current_handle, pending_handle, work_pc, server_active>>
    BY <1>4 DEF activate_planner, vars, slots, flags
  <2> QED  BY <1>0, <2>1
<1>5. CASE deactivate_planner
  <2>1. /\ ~ server_active /\ deactivate_pc = "idle"
        /\ UNCHANGED <<current_handle, pending_handle, work_pc, server_active>>
    BY <1>5 DEF deactivate_planner, vars, slots, flags
  <2>2. work_pc # "callback"
    BY <2>1 DEF StopInv
  <2>3. path = NoGoal
    BY <2>2
  <2> QED  BY <1>0, <2>1, <2>2, <2>3
<1>6. CASE UNCHANGED planner_active /\ (ClientStep \/ cancel_goal)
  <2>1. UNCHANGED <<current_handle, pending_handle, work_pc, server_active>>
    BY <1>6 DEF ClientStep, handle_goal, handle_cancel, expire_goal, cancel_goal,
       slots, flags
  <2> QED  BY <1>0, <1>6, <2>1
<1>7. CASE UNCHANGED planner_active /\ handle_accepted_pending
  <2>1. /\ UNCHANGED <<current_handle, work_pc, server_active>>
        /\ pending_handle' \in Goals
    BY <1>7 DEF handle_accepted_pending, flags, IndInv, TypeOK, ExecutorState, Idle
  <2> QED  BY <1>0, <1>7, <2>1
<1>8. CASE UNCHANGED planner_active /\ handle_accepted_launch
  <2>1. work_pc # "callback" /\ work_pc' = "check_stop"
    BY <1>8 DEF handle_accepted_launch, is_running
  <2> QED  BY <1>0, <1>8, <2>1
<1>9. CASE /\ UNCHANGED planner_active
           /\ deactivate_check_future \/ deactivate_ready \/ deactivate_timeout
  <2>1. UNCHANGED <<current_handle, pending_handle, work_pc, server_active>>
    BY <1>9 DEF deactivate_check_future, deactivate_ready, deactivate_timeout,
       slots, flags
  <2> QED  BY <1>0, <1>9, <2>1
<1>10. CASE UNCHANGED planner_active /\ deactivate_terminate_all
  <2>1. ~ server_active /\ UNCHANGED <<server_active, work_pc>>
    BY <1>10 DEF deactivate_terminate_all, StopInv, flags
  <2>2. current_handle' = NoGoal
    BY <1>10, ResetClears DEF deactivate_terminate_all, terminate_all
  <2> QED  BY <1>0, <1>10, <2>1, <2>2
<1> QED
  BY <1>1, <1>2, <1>3, <1>4, <1>5, <1>6, <1>7, <1>8, <1>9, <1>10
     DEF ExecutorStep, DeactivateStep

LEMMA PlanInvInit == PlanInit => PlanInv
<1> SUFFICES ASSUME PlanInit PROVE PlanInv
  OBVIOUS
<1>1. IndInv
  BY InitIndInv DEF PlanInit
<1>2. StopInv
  BY DEF PlanInit, Init, StopInv, Idle
<1>3. PlanVarsOK
  BY DEF PlanInit, PlanVarsOK, PlanPc
<1>4. PlanOwns
  BY DEF PlanInit, Init, PlanOwns, Reading, Planning
<1> QED
  BY <1>1, <1>2, <1>3, <1>4 DEF PlanInv, PlanTypeOK, PlanVarsOK, IndInv

LEMMA PlanInvInductive == PlanInv /\ [PlanNext]_pvars => PlanInv'
<1> SUFFICES ASSUME PlanInv, [PlanNext]_pvars PROVE PlanInv'
  OBVIOUS
<1>0. PlanVarsOK /\ IndInv /\ StopInv /\ PlanOwns
  BY DEF PlanInv, PlanTypeOK, PlanVarsOK
<1>1. IndInv' /\ StopInv'
  BY <1>0, PlanNextRefines, NextPreserves, StopInvInductive
<1>2. PlanVarsOK' /\ PlanOwns'
  <2>1. CASE PlanStep
    BY <1>0, <2>1, PlanVarsPreserved, PlanStepOwns
  <2>2. CASE \/ PlanWorkStep
             \/ on_activate \/ activate_planner \/ on_deactivate \/ deactivate_planner
             \/ /\ ClientStep \/ ExecutorStep \/ DeactivateStep \/ deactivate_timeout
                /\ UNCHANGED <<plan, planner_active>>
    <3>1. UNCHANGED plan
      BY <2>2 DEF PlanWorkStep, on_activate, activate_planner, on_deactivate,
         deactivate_planner
    <3>2. PlanOwns'
      BY <1>0, <2>2, <3>1, OtherStepOwns
    <3>3. planner_active' \in BOOLEAN
      BY <1>0, <2>2 DEF PlanWorkStep, on_activate, activate_planner, on_deactivate,
         deactivate_planner, PlanVarsOK
    <3>4. PlanVarsOK'
      BY <1>0, <3>1, <3>3 DEF PlanVarsOK, plan
    <3> QED  BY <3>2, <3>4
  <2>3. CASE UNCHANGED pvars
    <3>1. PlanVarsOK'
      BY <1>0, <2>3 DEF PlanVarsOK, pvars, plan
    <3>2. PlanOwns'
      BY <1>0, <2>3 DEF PlanOwns, Terminated, pvars, plan, vars, slots, flags
    <3> QED  BY <3>1, <3>2
  <2> QED  BY <2>1, <2>2, <2>3 DEF PlanNext
<1> QED
  BY <1>1, <1>2 DEF PlanInv, PlanTypeOK, PlanVarsOK, IndInv

(* The invariant of the planner server.                                    *)
THEOREM PlanInvariance == PlanSpec => []PlanInv
<1> QED  BY PlanInvInit, PlanInvInductive, PTL DEF PlanSpec

(* A null goal is met in one case only: deactivate() is waiting and has    *)
(* terminated the goals.                                                   *)
THEOREM NullGoalExplained == PlanSpec => []NullGoalOnlyByDeactivation
<1>1. PlanInv => NullGoalOnlyByDeactivation
  BY DEF PlanInv, PlanOwns, Reading, StopInv, NullGoalOnlyByDeactivation
<1> QED  BY <1>1, PlanInvariance, PTL

(* A plan in hand was made by a planner that is still active.              *)
THEOREM PlannerKept == PlanSpec => []PlannerKeptWhileUsed
<1>1. PlanInv => PlannerKeptWhileUsed
  BY DEF PlanInv, PlanOwns, PlannerKeptWhileUsed
<1> QED  BY <1>1, PlanInvariance, PTL

(* Success is reported for the goal the path was computed for.             *)
THEOREM PlansForItsGoal == PlanSpec => SucceedsWithOwnPlan
<1>1. ASSUME PlanInv, [PlanNext]_pvars, NEW g \in Goals,
             goal_status[g] # "succeeded", goal_status'[g] = "succeeded"
      PROVE  g = path
  <2>0. IndInv /\ PlanOwns
    BY <1>1 DEF PlanInv
  <2>1. CASE plan_succeed
    <3>1. plan_pc = "succeed"
      BY <2>1 DEF plan_succeed, at
    <3>2. g = current_handle
      BY <1>1, <2>0, <2>1 DEF plan_succeed, succeeded_current, is_active, IndInv, TypeOK
    <3> QED
      BY <2>0, <3>1, <3>2 DEF PlanOwns, Planning, Terminated
  <2>2. CASE QuietStep \/ plan_return
    <3>1. UNCHANGED goal_status
      BY <2>2, QuietStepsQuiet DEF vars, plan_return, callback_return
    <3> QED  BY <1>1, <3>1
  <2>3. CASE plan_accept
    BY <1>1, <2>0, <2>3 DEF plan_accept, accept_pending_goal, IndInv, TypeOK
  <2>4. CASE plan_catch \/ plan_terminate \/ deactivate_terminate_all
    BY <1>1, <2>4 DEF plan_catch, plan_terminate, deactivate_terminate_all,
       terminate_current, terminate_all, terminate, terminated_status, Active
  <2>5. CASE PlanWorkStep
    BY <1>1, <2>5 DEF PlanWorkStep, work_check_stop, work_check_current,
       work_finish, work_exit, terminate_all, terminate, terminated_status, Active
  <2>6. CASE ClientStep
    BY <1>1, <2>0, <2>6 DEF ClientStep, handle_goal, handle_cancel, expire_goal,
       IndInv, TypeOK
  <2>7. CASE ExecutorStep
    BY <1>1, <2>0, <2>7 DEF ExecutorStep, cancel_goal, handle_accepted_pending,
       handle_accepted_launch, terminate, terminated_status, Active, IndInv, TypeOK
  <2>8. CASE \/ on_activate \/ on_deactivate \/ deactivate_timeout
             \/ deactivate_check_future \/ deactivate_ready
    BY <1>1, <2>8 DEF on_activate, activate, on_deactivate, deactivate,
       deactivate_timeout, deactivate_check_future, deactivate_ready
  <2>9. CASE activate_planner \/ deactivate_planner \/ UNCHANGED pvars
    BY <1>1, <2>9 DEF activate_planner, deactivate_planner, pvars, vars
  <2> QED
    BY <1>1, <2>1, <2>2, <2>3, <2>4, <2>5, <2>6, <2>7, <2>8, <2>9, PlanStepCases
       DEF PlanNext, DeactivateStep
<1>2. PlanInv /\ [PlanNext]_pvars
        => [\A g \in Goals :
              goal_status[g] # "succeeded" /\ goal_status'[g] = "succeeded"
                => g = path]_pvars
  BY <1>1
<1> QED  BY <1>2, PlanInvariance, PTL DEF PlanSpec, SucceedsWithOwnPlan

(* What the server promises its clients holds of the planner:              *)
(* every goal follows the goal protocol, none is lost, and nothing is      *)
(* executed once deactivate() has returned.                                *)
THEOREM PlannerKeepsProtocol ==
  PlanSpec => GoalsFollowProtocol /\ []NoGoalLost /\ []QuietWhenDeactivated
<1> QED
  BY PlannerRefinesServer, ProtocolImplemented, NothingLost, QuietAfterDeactivation, PTL DEF PlanImplementsServer
=============================================================================
