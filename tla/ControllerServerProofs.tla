------------------------ MODULE ControllerServerProofs ------------------------
(***************************************************************************)
(* Proofs about ControllerServer: computeControl() is an execute callback  *)
(* of SimpleActionServer, and it steers along the path of the goal the     *)
(* server is executing, for every set of goals.                            *)
(***************************************************************************)
EXTENDS ControllerServer, SimpleActionServerProofs

USE NoGoalAssumption, EmptyPathsAssumption

-----------------------------------------------------------------------------
(* The controller implements the server.                                   *)

(* Each step of computeControl() is one call of a method, the callback's   *)
(* return, or invisible to the server.                                     *)
LEMMA ControlStepRefines == ControlStep => [Next]_vars
<1> SUFFICES ASSUME ControlStep PROVE [Next]_vars
  OBVIOUS
<1>1. CASE \/ control_start \/ control_check_active \/ control_check_cancel
           \/ control_check_preempt \/ control_accepted \/ control_command
           \/ control_reached
  BY <1>1 DEF control_start, control_check_active, control_check_cancel,
     control_check_preempt, control_accepted, control_command, control_reached
<1>2. CASE control_accept \/ control_succeed \/ control_catch \/ control_terminate
  <2>1. callback_call
    BY <1>2 DEF control_accept, control_succeed, control_catch, control_terminate,
       at, callback_call
  <2> QED  BY <2>1 DEF Next, CallbackStep
<1>3. CASE control_return
  BY <1>3 DEF control_return, Next, WorkStep
<1> QED  BY <1>1, <1>2, <1>3 DEF ControlStep

LEMMA ControlNextRefines == [ControlNext]_cvars => [Next]_vars
<1> SUFFICES ASSUME [ControlNext]_cvars PROVE [Next]_vars
  OBVIOUS
<1>1. CASE ControlStep
  BY <1>1, ControlStepRefines
<1>2. CASE ControlWorkStep
  BY <1>2 DEF ControlWorkStep, Next, WorkStep
<1>3. CASE \/ ClientStep \/ ExecutorStep \/ DeactivateStep
           \/ activate \/ deactivate \/ deactivate_timeout
  BY <1>3 DEF Next
<1>4. CASE UNCHANGED cvars
  BY <1>4 DEF cvars
<1> QED  BY <1>1, <1>2, <1>3, <1>4 DEF ControlNext

(* computeControl() is one of the callbacks SimpleActionServer allows.     *)
THEOREM ControllerRefinesServer == ControlSpec => ControlImplementsServer
<1>1. ControlInit => Init
  BY DEF ControlInit
<1> QED
  BY <1>1, ControlNextRefines, PTL DEF ControlSpec, ControlImplementsServer, Spec

-----------------------------------------------------------------------------
(* The inductive invariant.                                                *)

ControlVarsOK ==
    /\ control_pc \in ControlPc
    /\ goal \in Goals \cup {NoGoal}
    /\ current_path \in Goals \cup {NoGoal}

(* Where computeControl() goes with the path of a goal it has just read.   *)
LEMMA TrajectoryPost ==
  ASSUME NEW g \in Goals, NEW old \in Goals \cup {NoGoal}, NEW next \in ControlPc,
         generateTimedTrajectory(g, old, next)
  PROVE  /\ current_path' \in Goals \cup {NoGoal}
         /\ control_pc' \in {"catch", next}
         /\ control_pc' # "catch" => current_path' = g /\ g \notin EmptyPaths
  BY DEF generateTimedTrajectory, goto

LEMMA ControlVarsPreserved ==
  ASSUME ControlVarsOK, ControlStep PROVE ControlVarsOK'
<1> USE DEF ControlVarsOK, ControlPc, goto
<1>1. CASE control_start
  <2>1. CASE is_active(current_handle)
    <3>1. PICK g \in Goals : /\ goal' = g
                             /\ generateTimedTrajectory(g, current_path, "check_active")
      BY <1>1, <2>1 DEF control_start
    <3> QED  BY <3>1, TrajectoryPost
  <2>2. CASE ~ is_active(current_handle)
    BY <1>1, <2>2 DEF control_start, get_current_goal
  <2> QED  BY <2>1, <2>2
<1>2. CASE control_accepted
  <2>1. CASE is_active(current_handle)
    <3>1. PICK g \in Goals : /\ goal' = g
                             /\ generateTimedTrajectory(g, NoGoal, "command")
      BY <1>2, <2>1 DEF control_accepted
    <3> QED  BY <3>1, TrajectoryPost
  <2>2. CASE ~ is_active(current_handle)
    BY <1>2, <2>2 DEF control_accepted, get_current_goal
  <2> QED  BY <2>1, <2>2
<1>3. CASE control_check_active \/ control_check_cancel \/ control_check_preempt
  BY <1>3 DEF control_check_active, control_check_cancel, control_check_preempt
<1>4. CASE control_accept \/ control_command \/ control_reached
  BY <1>4 DEF control_accept, control_command, control_reached, isGoalReached
<1>5. CASE control_succeed \/ control_catch \/ control_terminate \/ control_return
  BY <1>5 DEF control_succeed, control_catch, control_terminate, control_return
<1> QED  BY <1>1, <1>2, <1>3, <1>4, <1>5 DEF ControlStep

(* OwnsCurrentGoal, step by step of computeControl().                      *)
LEMMA ControlStepOwns ==
  ASSUME ControlVarsOK, IndInv, StopInv, OwnsCurrentGoal, ControlStep
  PROVE  OwnsCurrentGoal'
<1>0. work_pc = "callback"
  BY DEF ControlStep, control_start, control_check_active, control_check_cancel,
     control_check_preempt, control_accept, control_accepted, control_command,
     control_reached, control_succeed, control_catch, control_terminate,
     control_return, at
<1>1. CASE control_start
  <2>1. CASE is_active(current_handle)
    <3>1. PICK g \in Goals : /\ get_current_goal(g) /\ goal' = g
                             /\ generateTimedTrajectory(g, current_path, "check_active")
      BY <1>1, <2>1 DEF control_start
    <3>2. UNCHANGED <<current_handle, server_active, work_pc>>
      BY <1>1 DEF control_start, vars, slots, flags
    <3>3. /\ control_pc' \in {"catch", "check_active"}
          /\ control_pc' # "catch" => current_path' = g /\ g \notin EmptyPaths
      BY <3>1, TrajectoryPost DEF ControlVarsOK, ControlPc
    <3> QED
      BY <1>0, <3>1, <3>2, <3>3 DEF OwnsCurrentGoal, Following, get_current_goal
  <2>2. CASE ~ is_active(current_handle)
    <3>1. control_pc' = "terminate" /\ UNCHANGED work_pc
      BY <1>1, <2>2 DEF control_start, get_current_goal, goto, vars
    <3> QED  BY <1>0, <3>1 DEF OwnsCurrentGoal, Following
  <2> QED  BY <2>1, <2>2
<1>2. CASE control_accepted
  <2>1. CASE is_active(current_handle)
    <3>1. PICK g \in Goals : /\ get_current_goal(g) /\ goal' = g
                             /\ generateTimedTrajectory(g, NoGoal, "command")
      BY <1>2, <2>1 DEF control_accepted
    <3>2. UNCHANGED <<current_handle, server_active, work_pc>>
      BY <1>2 DEF control_accepted, vars, slots, flags
    <3>3. /\ control_pc' \in {"catch", "command"}
          /\ control_pc' # "catch" => current_path' = g /\ g \notin EmptyPaths
      BY <3>1, TrajectoryPost DEF ControlVarsOK, ControlPc
    <3> QED
      BY <1>0, <3>1, <3>2, <3>3 DEF OwnsCurrentGoal, Following, get_current_goal
  <2>2. CASE ~ is_active(current_handle)
    <3>1. control_pc' = "terminate" /\ UNCHANGED work_pc
      BY <1>2, <2>2 DEF control_accepted, get_current_goal, goto, vars
    <3> QED  BY <1>0, <3>1 DEF OwnsCurrentGoal, Following
  <2> QED  BY <2>1, <2>2
<1>3. CASE control_check_active \/ control_check_cancel \/ control_check_preempt
           \/ control_command
  <2>1. /\ control_pc \in Following
        /\ control_pc' \in Following \cup {"return", "terminate", "catch"}
    BY <1>3 DEF control_check_active, control_check_cancel, control_check_preempt,
       control_command, at, goto, Following
  <2>2. UNCHANGED <<current_handle, server_active, work_pc, goal, current_path>>
    BY <1>3 DEF control_check_active, control_check_cancel, control_check_preempt,
       control_command, vars, slots, flags
  <2> QED  BY <1>0, <2>1, <2>2 DEF OwnsCurrentGoal, Following
<1>4. CASE control_reached
  <2>1. /\ control_pc = "reached"
        /\ UNCHANGED <<current_handle, server_active, work_pc, goal>>
        /\ \/ control_pc' = "succeed"
           \/ control_pc' = "check_active" /\ UNCHANGED current_path
    BY <1>4 DEF control_reached, isGoalReached, at, goto, vars, slots, flags
  <2> QED  BY <1>0, <2>1 DEF OwnsCurrentGoal, Following
<1>5. CASE control_accept \/ control_succeed \/ control_catch \/ control_terminate
  <2>1. control_pc' \in {"accepted", "return"} /\ UNCHANGED work_pc
    BY <1>5 DEF control_accept, control_succeed, control_catch, control_terminate, goto
  <2> QED  BY <1>0, <2>1 DEF OwnsCurrentGoal, Following
<1>6. CASE control_return
  <2>1. control_pc' = "start"
    BY <1>6 DEF control_return, goto
  <2> QED  BY <2>1 DEF OwnsCurrentGoal, Following
<1> QED  BY <1>1, <1>2, <1>3, <1>4, <1>5, <1>6 DEF ControlStep

(* Nor does another thread take the goal away, but by a deactivation that  *)
(* is not over; a worker outside the callback has nothing to lose.         *)
LEMMA OtherStepOwns ==
  ASSUME ControlVarsOK, IndInv, StopInv, OwnsCurrentGoal, UNCHANGED control,
         \/ ControlWorkStep
         \/ ClientStep \/ ExecutorStep \/ DeactivateStep
         \/ activate \/ deactivate \/ deactivate_timeout
  PROVE  OwnsCurrentGoal'
<1>0. UNCHANGED <<control_pc, goal, current_path>>
  BY DEF control
<1>1. CASE control_pc = "start"
  BY <1>0, <1>1 DEF OwnsCurrentGoal, Following
<1>2. CASE control_pc # "start"
  <2>1. work_pc = "callback"
    BY <1>2 DEF OwnsCurrentGoal
  <2>2. ~ ControlWorkStep /\ ~ handle_accepted_launch
    BY <2>1 DEF ControlWorkStep, work_check_stop, work_check_current, work_finish,
       work_exit, handle_accepted_launch, is_running
  <2>3. CASE ClientStep \/ cancel_goal \/ handle_accepted_pending
    <3>1. UNCHANGED <<current_handle, server_active, work_pc>>
      BY <2>3 DEF ClientStep, handle_goal, handle_cancel, expire_goal,
         cancel_goal, handle_accepted_pending, slots, flags
    <3> QED  BY <1>0, <3>1 DEF OwnsCurrentGoal
  <2>4. CASE \/ deactivate_check_future \/ deactivate_ready \/ deactivate_timeout
    <3>1. UNCHANGED <<current_handle, server_active, work_pc>>
      BY <2>4 DEF deactivate_check_future, deactivate_ready, deactivate_timeout,
         slots, flags
    <3> QED  BY <1>0, <3>1 DEF OwnsCurrentGoal
  <2>5. CASE deactivate
    <3>1. UNCHANGED <<current_handle, work_pc>> /\ ~ server_active'
      BY <2>5 DEF deactivate, slots
    <3> QED  BY <1>0, <3>1 DEF OwnsCurrentGoal
  <2>6. CASE deactivate_terminate_all
    <3>1. ~ server_active /\ UNCHANGED <<server_active, work_pc>>
      BY <2>6 DEF deactivate_terminate_all, StopInv, flags
    <3>2. current_handle' = NoGoal
      BY <2>6, ResetClears DEF deactivate_terminate_all, terminate_all
    <3> QED  BY <1>0, <3>1, <3>2 DEF OwnsCurrentGoal
  <2>7. ~ activate
    BY <2>1 DEF activate, StopInv
  <2> QED
    BY <2>2, <2>3, <2>4, <2>5, <2>6, <2>7 DEF ExecutorStep, DeactivateStep
<1> QED  BY <1>1, <1>2

LEMMA ControlInvInit == ControlInit => ControlInv
<1> SUFFICES ASSUME ControlInit PROVE ControlInv
  OBVIOUS
<1>1. IndInv
  BY InitIndInv DEF ControlInit
<1>2. StopInv
  BY DEF ControlInit, Init, StopInv, Idle
<1>3. ControlVarsOK
  BY DEF ControlInit, ControlVarsOK, ControlPc
<1>4. OwnsCurrentGoal
  BY DEF ControlInit, OwnsCurrentGoal, Following
<1> QED
  BY <1>1, <1>2, <1>3, <1>4 DEF ControlInv, ControlTypeOK, ControlVarsOK, IndInv

LEMMA ControlInvInductive == ControlInv /\ [ControlNext]_cvars => ControlInv'
<1> SUFFICES ASSUME ControlInv, [ControlNext]_cvars PROVE ControlInv'
  OBVIOUS
<1>0. ControlVarsOK /\ IndInv /\ StopInv /\ OwnsCurrentGoal
  BY DEF ControlInv, ControlTypeOK, ControlVarsOK
<1>1. IndInv' /\ StopInv'
  BY <1>0, ControlNextRefines, NextPreserves, StopInvInductive
<1>2. ControlVarsOK' /\ OwnsCurrentGoal'
  <2>1. CASE ControlStep
    BY <1>0, <2>1, ControlVarsPreserved, ControlStepOwns
  <2>2. CASE /\ UNCHANGED control
             /\ \/ ControlWorkStep
                \/ ClientStep \/ ExecutorStep \/ DeactivateStep
                \/ activate \/ deactivate \/ deactivate_timeout
    <3>1. OwnsCurrentGoal'
      BY <1>0, <2>2, OtherStepOwns
    <3>2. ControlVarsOK'
      BY <1>0, <2>2 DEF ControlVarsOK, control
    <3> QED  BY <3>1, <3>2
  <2>3. CASE UNCHANGED cvars
    <3>1. ControlVarsOK'
      BY <1>0, <2>3 DEF ControlVarsOK, cvars, control
    <3>2. OwnsCurrentGoal'
      BY <1>0, <2>3 DEF OwnsCurrentGoal, cvars, control, vars, slots, flags
    <3> QED  BY <3>1, <3>2
  <2> QED
    BY <2>1, <2>2, <2>3 DEF ControlNext, ControlWorkStep
<1> QED
  BY <1>1, <1>2 DEF ControlInv, ControlTypeOK, ControlVarsOK, IndInv

(* The invariant of the controller.                                        *)
THEOREM ControlInvariance == ControlSpec => []ControlInv
<1> QED  BY ControlInvInit, ControlInvInductive, PTL DEF ControlSpec

(* The controller publishes points of, and tests for the end of, the path  *)
(* of the goal the server is executing.                                    *)
THEOREM FollowsTheGoal == ControlSpec => []FollowsCurrentGoal
<1>1. ControlInv => FollowsCurrentGoal
  BY DEF ControlInv, OwnsCurrentGoal, FollowsCurrentGoal, Following, at
<1> QED  BY <1>1, ControlInvariance, PTL

(* Success is reported for the goal whose path, in current_path_, was      *)
(* flown to its end.                                                       *)
THEOREM SuccessIsEarned == ControlSpec => SucceedsOnOwnPath
<1>1. ASSUME ControlInv, [ControlNext]_cvars, NEW g \in Goals,
             goal_status[g] # "succeeded", goal_status'[g] = "succeeded"
      PROVE  control_pc = "succeed" /\ g = goal /\ g \notin EmptyPaths
  <2>0. IndInv /\ OwnsCurrentGoal
    BY <1>1 DEF ControlInv
  <2>1. CASE control_succeed
    <3>1. control_pc = "succeed"
      BY <2>1 DEF control_succeed, at
    <3>2. g = current_handle
      BY <1>1, <2>0, <2>1 DEF control_succeed, succeeded_current, is_active,
         IndInv, TypeOK
    <3> QED
      BY <2>0, <3>1, <3>2 DEF OwnsCurrentGoal
  <2>2. CASE \/ control_start \/ control_check_active \/ control_check_cancel
             \/ control_check_preempt \/ control_accepted \/ control_command
             \/ control_reached \/ control_return
    BY <1>1, <2>2 DEF control_start, control_check_active, control_check_cancel,
       control_check_preempt, control_accepted, control_command, control_reached,
       control_return, callback_return, vars
  <2>3. CASE control_accept
    BY <1>1, <2>0, <2>3 DEF control_accept, accept_pending_goal, IndInv, TypeOK
  <2>4. CASE control_catch \/ control_terminate \/ deactivate_terminate_all
    BY <1>1, <2>4 DEF control_catch, control_terminate, deactivate_terminate_all,
       terminate_current, terminate_all, terminate, terminated_status, Active
  <2>5. CASE ControlWorkStep
    BY <1>1, <2>5 DEF ControlWorkStep, work_check_stop, work_check_current,
       work_finish, work_exit, terminate_all, terminate, terminated_status, Active
  <2>6. CASE ClientStep
    BY <1>1, <2>0, <2>6 DEF ClientStep, handle_goal, handle_cancel, expire_goal,
       IndInv, TypeOK
  <2>7. CASE ExecutorStep
    BY <1>1, <2>0, <2>7 DEF ExecutorStep, cancel_goal, handle_accepted_pending,
       handle_accepted_launch, terminate, terminated_status, Active, IndInv, TypeOK
  <2>8. CASE \/ activate \/ deactivate \/ deactivate_timeout
             \/ deactivate_check_future \/ deactivate_ready
    BY <1>1, <2>8 DEF activate, deactivate, deactivate_timeout,
       deactivate_check_future, deactivate_ready
  <2>9. CASE UNCHANGED cvars
    BY <1>1, <2>9 DEF cvars, vars
  <2> QED
    BY <1>1, <2>1, <2>2, <2>3, <2>4, <2>5, <2>6, <2>7, <2>8, <2>9
       DEF ControlNext, ControlStep, DeactivateStep
<1>2. ASSUME ControlInv, [ControlNext]_cvars,
             control_pc # "succeed", control_pc' = "succeed"
      PROVE  current_path = goal
  <2>0. OwnsCurrentGoal
    BY <1>2 DEF ControlInv
  <2>1. CASE control_reached
    BY <2>0, <2>1 DEF control_reached, OwnsCurrentGoal, Following, at
  <2>2. CASE \/ control_check_active \/ control_check_cancel \/ control_check_preempt
             \/ control_accept \/ control_command \/ control_succeed
             \/ control_catch \/ control_terminate \/ control_return
    BY <1>2, <2>2 DEF control_check_active, control_check_cancel,
       control_check_preempt, control_accept, control_command, control_succeed,
       control_catch, control_terminate, control_return, getCurrentCommand, goto
  <2>3. CASE control_start \/ control_accepted
    BY <1>2, <2>3 DEF control_start, control_accepted, generateTimedTrajectory, goto
  <2>4. CASE ControlWorkStep \/ UNCHANGED control
    BY <1>2, <2>4 DEF ControlWorkStep, control
  <2>5. CASE UNCHANGED cvars
    BY <1>2, <2>5 DEF cvars, control
  <2> QED
    BY <1>2, <2>1, <2>2, <2>3, <2>4, <2>5 DEF ControlNext, ControlStep
<1>3. ControlInv /\ [ControlNext]_cvars
        => [/\ control_pc # "succeed" /\ control_pc' = "succeed" => current_path = goal
            /\ \A g \in Goals :
                 goal_status[g] # "succeeded" /\ goal_status'[g] = "succeeded"
                   => control_pc = "succeed" /\ g = goal /\ g \notin EmptyPaths]_cvars
  BY <1>1, <1>2
<1> QED  BY <1>3, ControlInvariance, PTL DEF ControlSpec, SucceedsOnOwnPath

(* What the server promises its clients holds of the controller:           *)
(* every goal follows the goal protocol, none is lost, and nothing is      *)
(* executed once deactivate() has returned.                                *)
THEOREM ControllerKeepsProtocol ==
  ControlSpec => GoalsFollowProtocol /\ []NoGoalLost /\ []QuietWhenDeactivated
<1> QED
  BY ControllerRefinesServer, ProtocolImplemented, NothingLost, QuietAfterDeactivation, PTL DEF ControlImplementsServer
=============================================================================
