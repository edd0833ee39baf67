----------------------- MODULE SimpleActionServerProofs -----------------------
(***************************************************************************)
(* Proofs about SimpleActionServer, for every set of goals, for both kinds *)
(* of executor and for every execute callback.                             *)
(***************************************************************************)
EXTENDS SimpleActionServer, TLAPS

USE NoGoalAssumption, SpinThreadAssumption

-----------------------------------------------------------------------------
(* What the methods of the class do to the slots, whichever thread calls.  *)

(* terminate() gives the active goals of a set their terminal status and   *)
(* touches no other goal.                                                  *)
LEMMA TerminateStatus ==
  ASSUME goal_status \in [Goals -> Status], NEW hs, terminate(hs)
  PROVE  /\ goal_status' \in [Goals -> Status]
         /\ \A g \in Goals : g \notin hs => goal_status'[g] = goal_status[g]
         /\ \A g \in Goals : g \in hs => goal_status'[g] \notin Active
         /\ \A g \in Goals : goal_status'[g] \in Active
                               => goal_status'[g] = goal_status[g]
  BY DEF terminate, terminated_status, Active, Terminal, Status

(* Under the invariant a stored handle is active, so reset() clears it.    *)
LEMMA ResetClears ==
  ASSUME IndInv
  PROVE  /\ reset(current_handle) = NoGoal
         /\ reset(pending_handle) = NoGoal
         /\ is_active(current_handle) <=> current_handle # NoGoal
         /\ is_active(pending_handle) <=> pending_handle # NoGoal
  BY DEF IndInv, SlotsConsistent, reset, is_active

(* The slots after a method that only ever empties or moves them:          *)
(* everything the invariant says about goals and slots, but not the        *)
(* executor and the program counters.                                      *)
SlotsInv == /\ goal_status \in [Goals -> Status]
            /\ preempt_requested \in BOOLEAN
            /\ current_handle \in Goals \cup {NoGoal}
            /\ pending_handle \in Goals \cup {NoGoal}
            /\ SlotsConsistent

(* Each method keeps the slots consistent, and a goal that is active after *)
(* it was active before and is in a slot only if it was in one before.     *)
MethodPost == /\ SlotsInv'
              /\ {current_handle, pending_handle}' \subseteq
                    {current_handle, pending_handle, NoGoal}
              /\ \A g \in Goals : goal_status'[g] \in Active =>
                   /\ goal_status[g] \in Active
                   /\ g \in {current_handle, pending_handle}
                        => g \in {current_handle, pending_handle}'
              /\ \A g \in Goals : g \notin {current_handle, pending_handle}
                                    => goal_status'[g] = goal_status[g]

LEMMA TerminateAllPost == ASSUME IndInv, terminate_all PROVE MethodPost
<1>1. TypeOK /\ SlotsConsistent
  BY DEF IndInv
<1>2. goal_status \in [Goals -> Status] /\ terminate({current_handle, pending_handle})
  BY <1>1 DEF TypeOK, terminate_all
<1>3. /\ current_handle' = NoGoal /\ pending_handle' = NoGoal
      /\ preempt_requested' = FALSE
  BY ResetClears DEF terminate_all
<1>4. SlotsInv'
  BY <1>2, <1>3, TerminateStatus DEF SlotsInv, SlotsConsistent
<1> QED
  BY <1>2, <1>3, <1>4, TerminateStatus DEF MethodPost

LEMMA TerminateCurrentPost == ASSUME IndInv, terminate_current PROVE MethodPost
<1>1. TypeOK /\ SlotsConsistent
  BY DEF IndInv
<1>2. goal_status \in [Goals -> Status] /\ terminate({current_handle})
  BY <1>1 DEF TypeOK, terminate_current
<1>3. current_handle' = NoGoal /\ UNCHANGED <<pending_handle, preempt_requested>>
  BY ResetClears DEF terminate_current
<1>4. SlotsInv'
  BY <1>1, <1>2, <1>3, TerminateStatus DEF SlotsInv, SlotsConsistent, TypeOK
<1> QED
  BY <1>1, <1>2, <1>3, <1>4, TerminateStatus DEF MethodPost, TypeOK

LEMMA SucceededCurrentPost == ASSUME IndInv, succeeded_current PROVE MethodPost
<1>1. TypeOK /\ SlotsConsistent
  BY DEF IndInv
<1>2. current_handle' = NoGoal /\ UNCHANGED <<pending_handle, preempt_requested>>
  BY ResetClears DEF succeeded_current
<1>3. /\ goal_status' \in [Goals -> Status]
      /\ \A g \in Goals : goal_status'[g] = IF g = current_handle THEN "succeeded"
                                            ELSE goal_status[g]
  BY <1>1, ResetClears DEF succeeded_current, TypeOK, Status, Terminal
<1>4. SlotsInv'
  BY <1>1, <1>2, <1>3 DEF SlotsInv, SlotsConsistent, TypeOK
<1> QED
  BY <1>1, <1>2, <1>3, <1>4 DEF MethodPost, TypeOK, Active

LEMMA TerminatePendingPost == ASSUME IndInv, terminate_pending_goal PROVE MethodPost
<1>1. TypeOK /\ SlotsConsistent
  BY DEF IndInv
<1>2. CASE is_active(pending_handle)
  <2>1. goal_status \in [Goals -> Status] /\ terminate({pending_handle})
    BY <1>1, <1>2 DEF TypeOK, terminate_pending_goal
  <2>2. pending_handle' = NoGoal /\ preempt_requested' = FALSE /\ UNCHANGED current_handle
    BY <1>2 DEF terminate_pending_goal
  <2>3. current_handle # NoGoal => goal_status'[current_handle] = goal_status[current_handle]
    BY <1>1, <2>1, TerminateStatus DEF SlotsConsistent, TypeOK
  <2>4. goal_status' \in [Goals -> Status]
    BY <2>1, TerminateStatus
  <2>5. SlotsInv'
    BY <1>1, <2>2, <2>3, <2>4 DEF SlotsInv, SlotsConsistent, TypeOK
  <2> QED
    BY <1>1, <2>1, <2>2, <2>5, TerminateStatus DEF MethodPost, TypeOK
<1>3. CASE ~ is_active(pending_handle)
  <2>1. UNCHANGED <<goal_status, current_handle, pending_handle, preempt_requested>>
    BY <1>3 DEF terminate_pending_goal, slots
  <2>2. SlotsInv'
    BY <1>1, <2>1 DEF SlotsInv, SlotsConsistent, TypeOK
  <2> QED  BY <1>1, <2>1, <2>2 DEF MethodPost
<1> QED  BY <1>2, <1>3

LEMMA AcceptPendingPost == ASSUME IndInv, accept_pending_goal PROVE MethodPost
<1>1. TypeOK /\ SlotsConsistent
  BY DEF IndInv
<1>2. CASE is_active(pending_handle)
  <2>1. /\ current_handle' = pending_handle /\ pending_handle' = NoGoal
        /\ preempt_requested' = FALSE
    BY <1>2 DEF accept_pending_goal
  <2>2. pending_handle \in Goals /\ current_handle # pending_handle
    BY <1>1, <1>2, ResetClears DEF TypeOK, SlotsConsistent
  <2>3. /\ goal_status' \in [Goals -> Status]
        /\ \A g \in Goals : goal_status'[g] = IF g = current_handle THEN "aborted"
                                              ELSE goal_status[g]
    BY <1>1, <1>2, <2>2, ResetClears DEF accept_pending_goal, TypeOK, Status, Terminal
  <2>4. SlotsInv'
    BY <1>1, <2>1, <2>2, <2>3 DEF SlotsInv, SlotsConsistent, TypeOK
  <2> QED
    BY <1>1, <2>1, <2>2, <2>3, <2>4 DEF MethodPost, TypeOK, Active
<1>3. CASE ~ is_active(pending_handle)
  <2>1. UNCHANGED <<goal_status, current_handle, pending_handle, preempt_requested>>
    BY <1>3 DEF accept_pending_goal, slots
  <2>2. SlotsInv'
    BY <1>1, <2>1 DEF SlotsInv, SlotsConsistent, TypeOK
  <2> QED  BY <1>1, <2>1, <2>2 DEF MethodPost
<1> QED  BY <1>2, <1>3

(* A step in which a thread calls one of the methods, and whatever it does *)
(* to the flags and to the program counters, preserves the invariant.      *)
PcsOK == /\ server_active \in BOOLEAN /\ stop_execution \in BOOLEAN
         /\ work_pc \in WorkPc /\ deactivate_pc \in DeactivatePc

LEMMA MethodPreserves ==
  ASSUME IndInv, MethodPost, PcsOK', UNCHANGED executor
  PROVE  IndInv'
<1>1. TypeOK'
  BY DEF IndInv, TypeOK, MethodPost, SlotsInv, PcsOK
<1>2. SlotsConsistent'
  BY DEF MethodPost, SlotsInv
<1>3. NoGoalLost'
  BY DEF IndInv, NoGoalLost, MethodPost
<1>4. AcceptedInHand'
  <2>1. CASE executor.op = "accepted"
    <3>1. /\ executor.goal \in Goals /\ goal_status[executor.goal] \in Active
          /\ executor.goal \notin {current_handle, pending_handle}
      BY <2>1 DEF IndInv, AcceptedInHand, TypeOK, ExecutorState, Idle
    <3> QED  BY <3>1 DEF AcceptedInHand, MethodPost
  <2> QED  BY <2>1 DEF AcceptedInHand
<1> QED  BY <1>1, <1>2, <1>3, <1>4 DEF IndInv

(* A step that changes neither goals nor slots is such a step.             *)
LEMMA FramePreserves ==
  ASSUME IndInv, UNCHANGED <<goal_status, slots>>, PcsOK', UNCHANGED executor
  PROVE  IndInv'
<1>1. SlotsInv'
  BY DEF IndInv, TypeOK, SlotsConsistent, SlotsInv, slots
<1>2. MethodPost
  BY <1>1 DEF MethodPost, slots
<1> QED  BY <1>2, MethodPreserves

-----------------------------------------------------------------------------
(* The inductive invariant, action by action.                              *)

LEMMA InitIndInv == Init => IndInv
<1> SUFFICES ASSUME Init PROVE IndInv
  OBVIOUS
<1>1. TypeOK
  BY DEF Init, TypeOK, Status, ExecutorState, Idle, WorkPc, DeactivatePc
<1>2. SlotsConsistent
  BY DEF Init, SlotsConsistent
<1>3. NoGoalLost
  BY DEF Init, NoGoalLost, Active
<1>4. AcceptedInHand
  BY DEF Init, AcceptedInHand, Idle
<1> QED  BY <1>1, <1>2, <1>3, <1>4 DEF IndInv

LEMMA HandleGoalPreserves ==
  ASSUME IndInv, NEW g \in Goals, handle_goal(g)
  PROVE  IndInv'
<1> USE DEF handle_goal
<1>1. TypeOK /\ SlotsConsistent /\ NoGoalLost
  BY DEF IndInv
<1>2. UNCHANGED <<current_handle, pending_handle, preempt_requested,
                  server_active, stop_execution, work_pc, deactivate_pc>>
  BY DEF flags, slots
<1>3. g # current_handle /\ g # pending_handle /\ goal_status[g] = "unknown"
  BY <1>1 DEF SlotsConsistent, Active
<1>4. CASE server_active
  <2>1. /\ goal_status' = [goal_status EXCEPT ![g] = "executing"]
        /\ executor' = [op |-> "accepted", goal |-> g]
    BY <1>4
  <2>2. TypeOK'
    BY <1>1, <1>2, <2>1 DEF TypeOK, Status, Active, ExecutorState
  <2>3. SlotsConsistent'
    BY <1>1, <1>2, <1>3, <2>1 DEF TypeOK, SlotsConsistent
  <2>4. NoGoalLost'
    BY <1>1, <1>2, <2>1 DEF TypeOK, NoGoalLost, Idle
  <2>5. AcceptedInHand'
    BY <1>1, <1>2, <1>3, <2>1 DEF TypeOK, AcceptedInHand, Active
  <2> QED  BY <2>2, <2>3, <2>4, <2>5 DEF IndInv
<1>5. CASE ~ server_active
  <2>1. /\ goal_status' = [goal_status EXCEPT ![g] = "rejected"]
        /\ executor' = executor /\ executor = Idle
    BY <1>5
  <2>2. TypeOK'
    BY <1>1, <1>2, <2>1 DEF TypeOK, Status
  <2>3. SlotsConsistent'
    BY <1>1, <1>2, <1>3, <2>1 DEF TypeOK, SlotsConsistent
  <2>4. NoGoalLost'
    BY <1>1, <1>2, <2>1 DEF TypeOK, NoGoalLost, Active
  <2>5. AcceptedInHand'
    BY <2>1 DEF AcceptedInHand, Idle
  <2> QED  BY <2>2, <2>3, <2>4, <2>5 DEF IndInv
<1> QED  BY <1>4, <1>5

LEMMA HandleCancelPreserves ==
  ASSUME IndInv, NEW g \in Goals, handle_cancel(g)
  PROVE  IndInv'
<1> USE DEF handle_cancel
<1>1. TypeOK /\ SlotsConsistent /\ NoGoalLost
  BY DEF IndInv
<1>2. /\ UNCHANGED <<goal_status, current_handle, pending_handle, preempt_requested,
                     server_active, stop_execution, work_pc, deactivate_pc>>
      /\ executor = Idle /\ executor' = [op |-> "cancel", goal |-> g]
  BY DEF flags, slots
<1>3. TypeOK'
  BY <1>1, <1>2 DEF TypeOK, ExecutorState
<1>4. SlotsConsistent'
  BY <1>1, <1>2 DEF SlotsConsistent
<1>5. NoGoalLost'
  BY <1>1, <1>2 DEF NoGoalLost, Idle
<1>6. AcceptedInHand'
  BY <1>2 DEF AcceptedInHand
<1> QED  BY <1>3, <1>4, <1>5, <1>6 DEF IndInv

LEMMA ExpireGoalPreserves ==
  ASSUME IndInv, NEW g \in Goals, expire_goal(g)
  PROVE  IndInv'
<1> USE DEF expire_goal
<1>1. TypeOK /\ SlotsConsistent /\ NoGoalLost
  BY DEF IndInv
<1>2. /\ UNCHANGED <<current_handle, pending_handle, preempt_requested, executor,
                     server_active, stop_execution, work_pc, deactivate_pc>>
      /\ executor = Idle
      /\ goal_status' = [goal_status EXCEPT ![g] = "unknown"]
  BY DEF flags, slots
<1>3. g # current_handle /\ g # pending_handle
  BY <1>1 DEF SlotsConsistent, Active, Terminal
<1>4. TypeOK'
  BY <1>1, <1>2 DEF TypeOK, Status
<1>5. SlotsConsistent'
  BY <1>1, <1>2, <1>3 DEF TypeOK, SlotsConsistent
<1>6. NoGoalLost'
  BY <1>1, <1>2 DEF TypeOK, NoGoalLost, Active
<1>7. AcceptedInHand'
  BY <1>2 DEF AcceptedInHand, Idle
<1> QED  BY <1>4, <1>5, <1>6, <1>7 DEF IndInv

LEMMA CancelGoalPreserves == ASSUME IndInv, cancel_goal PROVE IndInv'
<1> USE DEF cancel_goal
<1>1. TypeOK /\ SlotsConsistent /\ NoGoalLost
  BY DEF IndInv
<1>2. /\ UNCHANGED <<current_handle, pending_handle, preempt_requested,
                     server_active, stop_execution, work_pc, deactivate_pc>>
      /\ executor' = Idle
  BY DEF flags, slots
<1>3. executor.op = "cancel" /\ executor.goal \in Goals
  BY <1>1 DEF TypeOK, ExecutorState, Idle
<1>4. /\ goal_status' \in [Goals -> Status]
      /\ \A g \in Goals : goal_status'[g] \in Active <=> goal_status[g] \in Active
  BY <1>1, <1>3 DEF TypeOK, Status, Active
<1>5. TypeOK'
  BY <1>1, <1>2, <1>4 DEF TypeOK, ExecutorState
<1>6. SlotsConsistent'
  BY <1>1, <1>2, <1>4 DEF TypeOK, SlotsConsistent
<1>7. NoGoalLost'
  BY <1>1, <1>2, <1>3, <1>4 DEF NoGoalLost
<1>8. AcceptedInHand'
  BY <1>2 DEF AcceptedInHand, Idle
<1> QED  BY <1>5, <1>6, <1>7, <1>8 DEF IndInv

LEMMA HandleAcceptedPendingPreserves ==
  ASSUME IndInv, handle_accepted_pending PROVE IndInv'
<1> USE DEF handle_accepted_pending
<1>1. TypeOK /\ SlotsConsistent /\ NoGoalLost /\ AcceptedInHand
  BY DEF IndInv
<1>2. /\ UNCHANGED <<current_handle, server_active, stop_execution,
                     work_pc, deactivate_pc>>
      /\ pending_handle' = executor.goal /\ preempt_requested' = TRUE
      /\ executor' = Idle
  BY DEF flags
<1>3. /\ executor.op = "accepted" /\ executor.goal \in Goals
      /\ goal_status[executor.goal] \in Active
      /\ executor.goal \notin {current_handle, pending_handle}
  BY <1>1 DEF TypeOK, ExecutorState, Idle, AcceptedInHand
<1>4. /\ goal_status' \in [Goals -> Status]
      /\ \A g \in Goals : g # pending_handle => goal_status'[g] = goal_status[g]
      /\ \A g \in Goals : g = pending_handle => goal_status'[g] \notin Active
  BY <1>1, TerminateStatus DEF TypeOK
<1>5. TypeOK'
  BY <1>1, <1>2, <1>3, <1>4 DEF TypeOK, ExecutorState
<1>6. SlotsConsistent'
  <2>1. current_handle # NoGoal => goal_status'[current_handle] = goal_status[current_handle]
    BY <1>1, <1>4 DEF TypeOK, SlotsConsistent
  <2>2. goal_status'[executor.goal] = goal_status[executor.goal]
    BY <1>3, <1>4
  <2> QED  BY <1>1, <1>2, <1>3, <2>1, <2>2 DEF SlotsConsistent
<1>7. NoGoalLost'
  <2> SUFFICES ASSUME NEW g \in Goals, goal_status'[g] \in Active
               PROVE  g \in {current_handle', pending_handle'}
    BY DEF NoGoalLost
  <2>1. g # pending_handle /\ goal_status[g] \in Active
    BY <1>4
  <2>2. g = current_handle \/ executor = [op |-> "accepted", goal |-> g]
    BY <1>1, <2>1 DEF NoGoalLost
  <2> QED  BY <1>2, <2>2
<1>8. AcceptedInHand'
  BY <1>2 DEF AcceptedInHand, Idle
<1> QED  BY <1>5, <1>6, <1>7, <1>8 DEF IndInv

LEMMA HandleAcceptedLaunchPreserves ==
  ASSUME IndInv, handle_accepted_launch PROVE IndInv'
<1> USE DEF handle_accepted_launch
<1>1. TypeOK /\ SlotsConsistent /\ NoGoalLost /\ AcceptedInHand
  BY DEF IndInv
<1>2. /\ UNCHANGED <<server_active, stop_execution, deactivate_pc>>
      /\ current_handle = NoGoal /\ current_handle' = executor.goal
      /\ pending_handle' = NoGoal
      /\ executor' = Idle /\ work_pc' = "check_stop"
  BY ResetClears DEF flags
<1>3. preempt_requested' = FALSE
  BY <1>1, ResetClears DEF TypeOK, SlotsConsistent
<1>4. /\ executor.op = "accepted" /\ executor.goal \in Goals
      /\ goal_status[executor.goal] \in Active
      /\ executor.goal # pending_handle
  BY <1>1 DEF TypeOK, ExecutorState, Idle, AcceptedInHand
<1>5. /\ goal_status' \in [Goals -> Status]
      /\ \A g \in Goals : g # pending_handle => goal_status'[g] = goal_status[g]
      /\ \A g \in Goals : g = pending_handle => goal_status'[g] \notin Active
  BY <1>1, TerminateStatus DEF TypeOK
<1>6. TypeOK'
  BY <1>1, <1>2, <1>3, <1>4, <1>5 DEF TypeOK, ExecutorState, WorkPc
<1>7. SlotsConsistent'
  BY <1>2, <1>3, <1>4, <1>5 DEF SlotsConsistent
<1>8. NoGoalLost'
  <2> SUFFICES ASSUME NEW g \in Goals, goal_status'[g] \in Active
               PROVE  g = current_handle'
    BY DEF NoGoalLost
  <2>1. g # pending_handle /\ goal_status[g] \in Active
    BY <1>5
  <2>2. executor = [op |-> "accepted", goal |-> g]
    BY <1>1, <1>2, <2>1 DEF NoGoalLost
  <2> QED  BY <1>2, <2>2
<1>9. AcceptedInHand'
  BY <1>2 DEF AcceptedInHand, Idle
<1> QED  BY <1>6, <1>7, <1>8, <1>9 DEF IndInv

(* A step after which a thread's program counter or the flags differ, and  *)
(* nothing else.                                                           *)
LEMMA PcStepPreserves ==
  ASSUME IndInv,
         \/ work_check_stop \/ work_check_current \/ publish_feedback_check
         \/ publish_feedback_use \/ callback_return \/ callback_throw \/ work_exit
         \/ activate \/ deactivate \/ deactivate_check_future
         \/ deactivate_ready \/ deactivate_timeout
  PROVE  IndInv'
<1>1. UNCHANGED <<goal_status, slots>> /\ UNCHANGED executor
  BY DEF work_check_stop, work_check_current, publish_feedback_check,
         publish_feedback_use, callback_return, callback_throw, work_exit,
         activate, deactivate, deactivate_check_future, deactivate_ready,
         deactivate_timeout
<1>2. PcsOK
  BY DEF IndInv, TypeOK, PcsOK
<1>3. CASE work_check_stop \/ work_check_current \/ publish_feedback_check
           \/ publish_feedback_use \/ callback_return \/ callback_throw \/ work_exit
  <2>1. UNCHANGED <<server_active, stop_execution, deactivate_pc>> /\ work_pc' \in WorkPc
    BY <1>3 DEF work_check_stop, work_check_current, publish_feedback_check,
                publish_feedback_use, callback_return, callback_throw, work_exit,
                flags, WorkPc
  <2> QED  BY <1>1, <1>2, <2>1, FramePreserves DEF PcsOK
<1>4. CASE activate \/ deactivate \/ deactivate_check_future
           \/ deactivate_ready \/ deactivate_timeout
  <2>1. /\ UNCHANGED work_pc /\ deactivate_pc' \in DeactivatePc
        /\ server_active' \in BOOLEAN /\ stop_execution' \in BOOLEAN
    BY <1>2, <1>4 DEF activate, deactivate, deactivate_check_future,
                deactivate_ready, deactivate_timeout, flags, DeactivatePc, PcsOK
  <2> QED  BY <1>1, <1>2, <2>1, FramePreserves DEF PcsOK
<1> QED  BY <1>3, <1>4

(* The steps that call a method.                                           *)
LEMMA CallStepPreserves ==
  ASSUME IndInv, callback_call \/ work_catch \/ deactivate_terminate_all
  PROVE  IndInv'
<1>1. MethodPost
  <2>1. \/ accept_pending_goal \/ terminate_pending_goal \/ terminate_all
        \/ terminate_current \/ succeeded_current
    BY DEF callback_call, work_catch, deactivate_terminate_all
  <2> QED  BY <2>1, TerminateAllPost, TerminateCurrentPost, SucceededCurrentPost,
              TerminatePendingPost, AcceptPendingPost
<1>2. PcsOK' /\ UNCHANGED executor
  BY DEF IndInv, TypeOK, PcsOK, callback_call, work_catch, deactivate_terminate_all,
         flags, WorkPc, DeactivatePc
<1> QED  BY <1>1, <1>2, MethodPreserves

LEMMA WorkFinishPreserves == ASSUME IndInv, work_finish PROVE IndInv'
<1>1. TypeOK /\ SlotsConsistent
  BY DEF IndInv
<1>2. PcsOK' /\ UNCHANGED executor
  BY <1>1 DEF work_finish, TypeOK, PcsOK, flags, WorkPc
<1>3. CASE stop_execution
  <2>1. terminate_all
    BY <1>3 DEF work_finish
  <2> QED  BY <1>2, <2>1, TerminateAllPost, MethodPreserves
<1>4. CASE ~ stop_execution
  <2>1. goal_status \in [Goals -> Status] /\ terminate({current_handle})
    BY <1>1, <1>4 DEF work_finish, TypeOK
  <2>2. CASE pending_handle # NoGoal
    <3>1. /\ current_handle' = pending_handle /\ pending_handle' = NoGoal
          /\ preempt_requested' = FALSE
      BY <1>4, <2>2, ResetClears DEF work_finish
    <3>2. /\ pending_handle \in Goals /\ pending_handle # current_handle
          /\ goal_status[pending_handle] \in Active
      BY <1>1, <2>2 DEF TypeOK, SlotsConsistent
    <3>3. /\ goal_status' \in [Goals -> Status]
          /\ goal_status'[pending_handle] = goal_status[pending_handle]
      BY <2>1, <3>2, TerminateStatus
    <3>4. SlotsInv'
      BY <3>1, <3>2, <3>3 DEF SlotsInv, SlotsConsistent
    <3>5. MethodPost
      BY <2>1, <3>1, <3>4, TerminateStatus DEF MethodPost
    <3> QED  BY <1>2, <3>5, MethodPreserves
  <2>3. CASE pending_handle = NoGoal
    <3>1. terminate_current
      BY <1>4, <2>3, ResetClears DEF work_finish, terminate_current
    <3> QED  BY <1>2, <3>1, TerminateCurrentPost, MethodPreserves
  <2> QED  BY <2>2, <2>3
<1> QED  BY <1>3, <1>4

LEMMA NextPreserves == IndInv /\ [Next]_vars => IndInv'
<1> SUFFICES ASSUME IndInv, [Next]_vars PROVE IndInv'
  OBVIOUS
<1>1. CASE ClientStep
  BY <1>1, HandleGoalPreserves, HandleCancelPreserves, ExpireGoalPreserves DEF ClientStep
<1>2. CASE ExecutorStep
  BY <1>2, CancelGoalPreserves, HandleAcceptedPendingPreserves,
     HandleAcceptedLaunchPreserves DEF ExecutorStep
<1>3. CASE CallbackStep
  BY <1>3, CallStepPreserves, PcStepPreserves DEF CallbackStep
<1>4. CASE WorkStep
  BY <1>4, CallStepPreserves, PcStepPreserves, WorkFinishPreserves DEF WorkStep
<1>5. CASE activate \/ deactivate \/ deactivate_timeout
  BY <1>5, PcStepPreserves
<1>6. CASE DeactivateStep
  BY <1>6, CallStepPreserves, PcStepPreserves DEF DeactivateStep
<1>7. CASE UNCHANGED vars
  <2>1. /\ UNCHANGED <<goal_status, slots>> /\ UNCHANGED executor
        /\ UNCHANGED <<server_active, stop_execution, work_pc, deactivate_pc>>
    BY <1>7 DEF vars, flags
  <2>2. PcsOK'
    BY <2>1 DEF IndInv, TypeOK, PcsOK
  <2> QED  BY <2>1, <2>2, FramePreserves
<1> QED  BY <1>1, <1>2, <1>3, <1>4, <1>5, <1>6, <1>7 DEF Next

(* The inductive invariant holds in every reachable state.                 *)
THEOREM Invariance == Spec => []IndInv
  BY InitIndInv, NextPreserves, PTL DEF Spec

(* Every variable of the action server keeps its type.                     *)
THEOREM TypeCorrect == Spec => []TypeOK
<1>1. IndInv => TypeOK
  BY DEF IndInv
<1> QED  BY <1>1, Invariance, PTL

(* The flag a callback tests and the slots it then reads always agree.     *)
THEOREM SlotsAgree == Spec => []SlotsConsistent
<1>1. IndInv => SlotsConsistent
  BY DEF IndInv
<1> QED  BY <1>1, Invariance, PTL

(* However goals arrive, are preempted, canceled and terminated by the     *)
(* three threads, the server never drops a handle that is still active.    *)
THEOREM NothingLost == Spec => []NoGoalLost
<1>1. IndInv => NoGoalLost
  BY DEF IndInv
<1> QED  BY <1>1, Invariance, PTL

-----------------------------------------------------------------------------
(* The server implements the goal protocol.                                *)

(* What GoalProtocol allows one goal to do in one step.                    *)
Legal(s, t) == \/ s = t
               \/ s = "unknown" /\ t \in {"executing", "rejected"}
               \/ s = "executing" /\ t = "canceling"
               \/ s \in Active /\ t \in {"succeeded", "aborted"}
               \/ s = "canceling" /\ t = "canceled"
               \/ s \in Terminal \cup {"rejected"} /\ t = "unknown"

LEMMA LegalIsProtocol ==
  ASSUME NEW g \in Goals, Legal(goal_status[g], goal_status'[g])
  PROVE  [G(g)!Next]_(goal_status[g])
  BY DEF Legal, Active, Terminal, G!Next, G!Answer, G!Cancel, G!Finish, G!Expire,
         G!ActiveStates, G!TerminalStates

LEMMA TerminateLegal ==
  ASSUME goal_status \in [Goals -> Status], NEW hs, terminate(hs)
  PROVE  \A g \in Goals : Legal(goal_status[g], goal_status'[g])
  BY DEF terminate, terminated_status, Active, Status, Legal

LEMMA StepsAreLegal ==
  ASSUME IndInv, Next
  PROVE  \A g \in Goals : Legal(goal_status[g], goal_status'[g])
<1> USE DEF Legal
<1>1. goal_status \in [Goals -> Status]
  BY DEF IndInv, TypeOK
<1>2. CASE UNCHANGED goal_status
  BY <1>2
<1>3. CASE \E hs : terminate(hs)
  BY <1>1, <1>3, TerminateLegal
<1>4. CASE ClientStep
  <2>1. PICK g \in Goals : handle_goal(g) \/ handle_cancel(g) \/ expire_goal(g)
    BY <1>4 DEF ClientStep
  <2>2. CASE handle_goal(g)
    BY <1>1, <2>2 DEF handle_goal
  <2>3. CASE handle_cancel(g)
    BY <1>2, <2>3 DEF handle_cancel
  <2>4. CASE expire_goal(g)
    BY <1>1, <2>4 DEF expire_goal
  <2> QED  BY <2>1, <2>2, <2>3, <2>4
<1>5. CASE ExecutorStep
  <2>1. CASE cancel_goal
    BY <1>1, <2>1 DEF cancel_goal
  <2>2. CASE handle_accepted_pending \/ handle_accepted_launch
    BY <1>3, <2>2 DEF handle_accepted_pending, handle_accepted_launch
  <2> QED  BY <1>5, <2>1, <2>2 DEF ExecutorStep
<1>6. CASE callback_call
  <2>1. CASE accept_pending_goal
    BY <1>1, <2>1 DEF accept_pending_goal, is_active
  <2>2. CASE succeeded_current
    BY <1>1, <2>2 DEF succeeded_current, is_active
  <2>3. CASE terminate_pending_goal \/ terminate_all \/ terminate_current
    BY <1>2, <1>3, <2>3 DEF terminate_pending_goal, terminate_all, terminate_current
  <2> QED  BY <1>6, <2>1, <2>2, <2>3 DEF callback_call
<1>7. CASE work_catch \/ deactivate_terminate_all
  BY <1>3, <1>7 DEF work_catch, deactivate_terminate_all, terminate_all
<1>8. CASE work_finish
  BY <1>3, <1>8 DEF work_finish, terminate_all
<1>9. CASE \/ work_check_stop \/ work_check_current \/ publish_feedback_check
           \/ publish_feedback_use \/ callback_return \/ callback_throw \/ work_exit
           \/ activate \/ deactivate \/ deactivate_check_future
           \/ deactivate_ready \/ deactivate_timeout
  <2>1. UNCHANGED goal_status
    BY <1>9 DEF work_check_stop, work_check_current, publish_feedback_check,
         publish_feedback_use, callback_return, callback_throw, work_exit,
         activate, deactivate, deactivate_check_future, deactivate_ready,
         deactivate_timeout
  <2> QED  BY <1>2, <2>1
<1> QED
  BY <1>4, <1>5, <1>6, <1>7, <1>8, <1>9
     DEF Next, CallbackStep, WorkStep, DeactivateStep

(* Every goal follows the goal protocol: no method ever asks rclcpp_action *)
(* for an illegal transition, so none of them throws with update_mutex_    *)
(* held, and no result is reported twice or revised.                       *)
THEOREM ProtocolImplemented == Spec => GoalsFollowProtocol
<1>1. Init => \A g \in Goals : G(g)!Init
  BY DEF Init, G!Init
<1>2. IndInv /\ [Next]_vars
        => [\A g \in Goals : [G(g)!Next]_(goal_status[g])]_goal_status
  <2> SUFFICES ASSUME IndInv, Next
               PROVE  \A g \in Goals : [G(g)!Next]_(goal_status[g])
    BY DEF vars
  <2> QED  BY StepsAreLegal, LegalIsProtocol
<1> QED  BY <1>1, <1>2, Invariance, PTL DEF Spec, GoalsFollowProtocol

(* No thread puts another goal under a running callback: only the pending  *)
(* goal, and only by the callback's or the loop's own doing.               *)
THEOREM CallbackOwnsItsGoal == Spec => CallbackKeepsItsGoal
<1>1. ASSUME IndInv, Next, work_pc \in {"callback", "feedback", "catch", "finish"}
      PROVE  current_handle' \in {current_handle, pending_handle, NoGoal}
  <2>1. CASE callback_call \/ work_catch \/ deactivate_terminate_all
    <3>1. \/ accept_pending_goal \/ terminate_pending_goal \/ terminate_all
          \/ terminate_current \/ succeeded_current
      BY <2>1 DEF callback_call, work_catch, deactivate_terminate_all
    <3>2. MethodPost
      BY <1>1, <3>1, TerminateAllPost, TerminateCurrentPost, SucceededCurrentPost,
         TerminatePendingPost, AcceptPendingPost
    <3> QED  BY <3>2 DEF MethodPost
  <2>2. CASE work_finish
    <3>1. reset(current_handle) = NoGoal
      BY <1>1, ResetClears
    <3> QED  BY <2>2, <3>1 DEF work_finish, terminate_all
  <2>3. CASE ClientStep \/ cancel_goal \/ handle_accepted_pending
    BY <2>3 DEF ClientStep, handle_goal, handle_cancel, expire_goal,
       cancel_goal, handle_accepted_pending, slots
  <2>4. ~ handle_accepted_launch
    BY <1>1 DEF handle_accepted_launch, is_running
  <2>5. CASE \/ work_check_stop \/ work_check_current \/ publish_feedback_check
             \/ publish_feedback_use \/ callback_return \/ callback_throw \/ work_exit
             \/ activate \/ deactivate \/ deactivate_check_future
             \/ deactivate_ready \/ deactivate_timeout
    BY <2>5 DEF work_check_stop, work_check_current, publish_feedback_check,
         publish_feedback_use, callback_return, callback_throw, work_exit,
         activate, deactivate, deactivate_check_future, deactivate_ready,
         deactivate_timeout, slots
  <2> QED
    BY <1>1, <2>1, <2>2, <2>3, <2>4, <2>5
       DEF Next, ExecutorStep, CallbackStep, WorkStep, DeactivateStep
<1>2. IndInv /\ [Next]_vars
        => [(work_pc \in {"callback", "feedback", "catch", "finish"})
              => current_handle' \in {current_handle, pending_handle, NoGoal}]_vars
  BY <1>1
<1> QED  BY <1>2, Invariance, PTL DEF Spec, CallbackKeepsItsGoal

-----------------------------------------------------------------------------
(* The two flags, deactivate() and the worker.                             *)

LEMMA StopInvInductive == StopInv /\ [Next]_vars => StopInv'
<1> SUFFICES ASSUME StopInv, [Next]_vars PROVE StopInv'
  OBVIOUS
<1> USE DEF StopInv, flags
<1>1. CASE ClientStep
  BY <1>1 DEF ClientStep, handle_goal, handle_cancel, expire_goal, Idle
<1>2. CASE ExecutorStep
  BY <1>2 DEF ExecutorStep, cancel_goal, handle_accepted_pending,
     handle_accepted_launch, is_running, Idle
<1>3. CASE CallbackStep
  BY <1>3 DEF CallbackStep, callback_call, publish_feedback_check, callback_throw
<1>4. CASE WorkStep
  <2>1. CASE work_check_stop
    BY <2>1 DEF work_check_stop
  <2>2. CASE work_check_current
    BY <2>2 DEF work_check_current
  <2>3. CASE publish_feedback_use \/ callback_return
    BY <2>3 DEF publish_feedback_use, callback_return
  <2>4. CASE work_catch
    BY <2>4 DEF work_catch
  <2>5. CASE work_finish
    <3>1. work_pc' \in {"check_stop", "exiting"}
      BY <2>5 DEF work_finish
    <3>2. work_pc = "finish" /\ UNCHANGED <<server_active, stop_execution, executor, deactivate_pc>>
      BY <2>5 DEF work_finish
    <3> QED  BY <3>1, <3>2
  <2>6. CASE work_exit
    BY <2>6 DEF work_exit
  <2> QED  BY <1>4, <2>1, <2>2, <2>3, <2>4, <2>5, <2>6 DEF WorkStep
<1>5. CASE activate \/ deactivate
  BY <1>5 DEF activate, deactivate
<1>6. CASE deactivate_timeout
  BY <1>6 DEF deactivate_timeout
<1>7. CASE DeactivateStep
  BY <1>7 DEF DeactivateStep, deactivate_check_future, deactivate_ready,
     deactivate_terminate_all
<1>8. CASE UNCHANGED vars
  BY <1>8 DEF vars
<1> QED
  BY <1>1, <1>2, <1>3, <1>4, <1>5, <1>6, <1>7, <1>8 DEF Next

(* The flags and the worker agree, in every state of every server.         *)
THEOREM StopInvariance == Spec => []StopInv
<1>1. Init => StopInv
  BY DEF Init, StopInv, Idle
<1> QED  BY <1>1, StopInvInductive, PTL DEF Spec

(* No execute callback runs in a server that deactivate() has returned     *)
(* from, whatever goals were accepted around it.                           *)
THEOREM QuietAfterDeactivation == Spec => []QuietWhenDeactivated
<1>1. StopInv => QuietWhenDeactivated
  BY DEF StopInv, QuietWhenDeactivated
<1> QED  BY <1>1, StopInvariance, PTL

-----------------------------------------------------------------------------
(* Feedback.  While the worker is in publish_feedback() no other thread    *)
(* but deactivate() ends or replaces the current goal.                     *)

LEMMA FeedbackInductive ==
    IndInv /\ FeedbackLostOnlyByDeactivation /\ [Next]_vars
      => FeedbackLostOnlyByDeactivation'
<1> SUFFICES ASSUME IndInv, FeedbackLostOnlyByDeactivation, [Next]_vars,
                    work_pc' = "feedback", deactivate_pc' = "idle"
             PROVE  is_active(current_handle)'
  BY DEF FeedbackLostOnlyByDeactivation
<1> USE DEF FeedbackLostOnlyByDeactivation
<1>1. CASE \E g \in Goals : handle_goal(g) \/ handle_cancel(g) \/ expire_goal(g)
  BY <1>1 DEF handle_goal, handle_cancel, expire_goal, slots, is_active, Active, Terminal,
              IndInv, TypeOK, Status
<1>2. CASE cancel_goal
  BY <1>2 DEF cancel_goal, slots, is_active, Active, IndInv, TypeOK, Status, ExecutorState, Idle
<1>3. CASE handle_accepted_pending
  <2>1. pending_handle # current_handle \/ ~ is_active(current_handle)
    BY DEF IndInv, SlotsConsistent, is_active, TypeOK
  <2> QED
    BY <1>3, <2>1 DEF handle_accepted_pending, terminate, is_active, IndInv, TypeOK
<1>4. CASE handle_accepted_launch
  BY <1>4 DEF handle_accepted_launch
<1>5. CASE WorkStep \/ CallbackStep
  BY <1>5 DEF WorkStep, CallbackStep, work_check_stop, work_check_current, callback_call,
     publish_feedback_check, publish_feedback_use, callback_return, callback_throw,
     work_catch, work_finish, work_exit, slots, is_active
<1>6. CASE DeactivateStep \/ deactivate_timeout \/ activate \/ deactivate
  BY <1>6 DEF DeactivateStep, deactivate_check_future, deactivate_ready, deactivate_timeout,
     deactivate_terminate_all, activate, deactivate, is_running, slots, is_active
<1>7. CASE UNCHANGED vars
  BY <1>7 DEF vars, slots, is_active
<1> QED
  BY <1>1, <1>2, <1>3, <1>4, <1>5, <1>6, <1>7 DEF Next, ClientStep, ExecutorStep

(* publish_feedback() meets an ended goal, or a null handle, only while a  *)
(* deactivation is waiting for this worker.                                *)
THEOREM FeedbackExplained == Spec => []FeedbackLostOnlyByDeactivation
<1>1. Init => FeedbackLostOnlyByDeactivation
  BY DEF Init, FeedbackLostOnlyByDeactivation
<1> QED  BY <1>1, FeedbackInductive, Invariance, PTL DEF Spec
=============================================================================
