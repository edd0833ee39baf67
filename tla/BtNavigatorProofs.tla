-------------------------- MODULE BtNavigatorProofs --------------------------
(***************************************************************************)
(* Proofs about BtNavigator: executeCallback() is an execute callback of   *)
(* SimpleActionServer, the muxer is released, no error code survives the   *)
(* run of executeCallback() it was recorded in, a goal that is reported on *)
(* is the one that was tracked or its result has an error, and a null goal *)
(* is met only while deactivate() waits.                                   *)
(***************************************************************************)
EXTENDS BtNavigator, SimpleActionServerProofs

USE NoGoalAssumption

-----------------------------------------------------------------------------
(* The navigator implements the server.                                    *)

(* The steps of executeCallback() that only read the server's state.       *)
QuietStep ==
    \/ onGoalReceived \/ goalReceived \/ startNavigating
    \/ isServerActive \/ isCancelRequested \/ tickOnce
    \/ isPreemptRequested \/ onPreempt \/ onPreempt_initialize \/ onCompletion

(* The steps that call a method of the server.                             *)
CallStep ==
    \/ executeCallback_reject \/ acceptPendingGoal \/ terminatePendingGoal
    \/ executeCallback_report

LEMMA NavStepCases ==
  NavStep <=> QuietStep \/ CallStep \/ onLoop \/ executeCallback_return
  BY DEF NavStep, QuietStep, CallStep

LEMMA QuietStepsQuiet ==
  ASSUME QuietStep PROVE UNCHANGED vars /\ work_pc = "callback"
  BY DEF QuietStep, onGoalReceived, goalReceived, startNavigating, isServerActive,
     isCancelRequested, tickOnce, isPreemptRequested, onPreempt, onPreempt_initialize,
     onCompletion, at

LEMMA CallStepsCall == ASSUME CallStep PROVE callback_call
  BY DEF CallStep, executeCallback_reject, acceptPendingGoal, terminatePendingGoal,
     executeCallback_report, at, server_rest, callback_call

(* onLoop() publishes feedback or leaves the server alone.                 *)
LEMMA LoopPublishes == ASSUME onLoop PROVE publish_feedback_check \/ UNCHANGED vars
  BY DEF onLoop, NavigateToPose_onLoop, NavigateThroughPoses_onLoop

LEMMA NavNextRefines == [NavNext]_nvars => [Next]_vars
<1> SUFFICES ASSUME [NavNext]_nvars PROVE [Next]_vars
  OBVIOUS
<1>1. CASE NavStep
  <2>1. CASE QuietStep
    BY <2>1, QuietStepsQuiet
  <2>2. CASE CallStep
    BY <2>2, CallStepsCall DEF Next, CallbackStep
  <2>3. CASE onLoop
    BY <2>3, LoopPublishes DEF Next, CallbackStep
  <2>4. CASE executeCallback_return
    BY <2>4 DEF executeCallback_return, Next, WorkStep
  <2> QED  BY <1>1, <2>1, <2>2, <2>3, <2>4, NavStepCases
<1>2. CASE NavWorkStep
  BY <1>2 DEF NavWorkStep, Next, WorkStep
<1>3. CASE OtherStep
  BY <1>3 DEF OtherStep, other_onGoalReceived, other_goalReceived, other_onCompletion
<1>4. CASE on_activate \/ on_activate_fails \/ on_deactivate
  BY <1>4 DEF on_activate, on_activate_fails, on_deactivate, Next
<1>5. CASE ClientStep \/ ExecutorStep \/ DeactivateStep \/ deactivate_timeout
  BY <1>5 DEF Next
<1>6. CASE UNCHANGED nvars
  BY <1>6 DEF nvars
<1> QED  BY <1>1, <1>2, <1>3, <1>4, <1>5, <1>6 DEF NavNext

(* executeCallback() is one of the callbacks SimpleActionServer allows, so *)
(* that what is proved of the server holds with a navigator on top of it.  *)
THEOREM NavigatorRefinesServer == NavSpec => NavImplementsServer
<1>1. NavInit => Init
  BY DEF NavInit
<1> QED
  BY <1>1, NavNextRefines, PTL DEF NavSpec, NavImplementsServer, Spec

-----------------------------------------------------------------------------
(* The inductive invariant: the types of the navigator's own variables.    *)

NavVarsOK ==
    /\ nav_pc \in NavPc
    /\ goal \in Goals \cup {NoGoal}
    /\ bb_goal \in Goals \cup {NoGoal}
    /\ rc \in {"RUNNING", "SUCCEEDED", "FAILED", "CANCELED"}
    /\ internal_error \in {NONE, FAILED_TO_LOAD_BEHAVIOR_TREE, TF_ERROR}
    /\ node_error \in {NONE, NodeError}
    /\ muxer \in {"", "this", "other"}
    /\ other_pc \in {"idle", "checked", "navigating"}

OwnersOK == internal_owner \in Owner /\ node_owner \in Owner

(* initialize() writes the pose of the goal, or records an error.          *)
LEMMA InitializeResult ==
  ASSUME NEW ok \in BOOLEAN, initialize(ok)
  PROVE  IF ok THEN bb_goal' = goal /\ UNCHANGED <<internal_error, internal_owner>>
               ELSE /\ internal_error' = TF_ERROR /\ internal_owner' = "this goal"
                    /\ UNCHANGED bb_goal
  BY DEF initialize, initializeGoalPose, initializeGoalPoses, transform_fails,
     setInternalError, internal

LEMMA NavStepVars ==
  ASSUME NavVarsOK, IndInv, NavStep PROVE NavVarsOK'
<1>0. current_handle \in Goals \cup {NoGoal} /\ pending_handle \in Goals \cup {NoGoal}
  BY DEF IndInv, TypeOK
<1> USE DEF NavVarsOK, NavPc, goto, local, errors, internal, of_nodes, mux
<1>1. CASE onGoalReceived
  BY <1>0, <1>1 DEF onGoalReceived
<1>2. CASE goalReceived
  BY <1>2, InitializeResult DEF goalReceived, loadBehaviorTree_fails, setInternalError
<1>3. CASE startNavigating
  BY <1>3 DEF startNavigating
<1>4. CASE isServerActive \/ isCancelRequested
  BY <1>4 DEF isServerActive, isCancelRequested
<1>5. CASE tickOnce
  <2>1. node_error' \in {NONE, NodeError}
    BY <1>5 DEF tickOnce
  <2>2. rc' \in {"RUNNING", "SUCCEEDED", "FAILED"} /\ nav_pc' \in {"on_loop", "completion"}
    BY <1>5 DEF tickOnce
  <2>3. UNCHANGED <<goal, bb_goal, internal_error, muxer, other_pc>>
    BY <1>5 DEF tickOnce
  <2> QED  BY <2>1, <2>2, <2>3
<1>6. CASE isPreemptRequested \/ onPreempt
  BY <1>6 DEF isPreemptRequested, onPreempt
<1>7. CASE acceptPendingGoal
  BY <1>0, <1>7 DEF acceptPendingGoal
<1>8. CASE onPreempt_initialize
  BY <1>8, InitializeResult DEF onPreempt_initialize
<1>9. CASE executeCallback_reject \/ terminatePendingGoal \/ executeCallback_report
  BY <1>9 DEF executeCallback_reject, terminatePendingGoal, executeCallback_report
<1>10. CASE onLoop
  BY <1>10 DEF onLoop
<1>11. CASE onCompletion
  BY <1>11 DEF onCompletion, haltAllActions, stopNavigating
<1>12. CASE executeCallback_return
  BY <1>12 DEF executeCallback_return, cleanErrorCodes
<1> QED
  BY <1>1, <1>2, <1>3, <1>4, <1>5, <1>6, <1>7, <1>8, <1>9, <1>10, <1>11, <1>12
     DEF NavStep

(* The muxer: only startNavigating() takes it and only onCompletion()      *)
(* leaves the loop.                                                        *)
LEMMA NavStepMuxer ==
  ASSUME MuxerHeld, NavStep PROVE MuxerHeld'
<1> USE DEF MuxerHeld, Navigating, goto, at, mux
<1>1. CASE startNavigating
  BY <1>1 DEF startNavigating
<1>2. CASE onCompletion
  BY <1>2 DEF onCompletion, stopNavigating
<1>3. CASE onGoalReceived \/ goalReceived \/ executeCallback_reject
  BY <1>3 DEF onGoalReceived, goalReceived, executeCallback_reject
<1>4. CASE isServerActive \/ isCancelRequested \/ tickOnce \/ isPreemptRequested
  BY <1>4 DEF isServerActive, isCancelRequested, tickOnce, isPreemptRequested
<1>5. CASE onPreempt \/ acceptPendingGoal \/ onPreempt_initialize \/ terminatePendingGoal
  BY <1>5 DEF onPreempt, acceptPendingGoal, onPreempt_initialize, terminatePendingGoal
<1>6. CASE onLoop
  BY <1>6 DEF onLoop
<1>7. CASE executeCallback_report \/ executeCallback_return
  BY <1>7 DEF executeCallback_report, executeCallback_return
<1> QED  BY <1>1, <1>2, <1>3, <1>4, <1>5, <1>6, <1>7 DEF NavStep

(* The thread: no step of the callback but its return leaves work()'s call.*)
LEMMA NavStepRuns ==
  ASSUME NavVarsOK, NavRuns, NavStep PROVE NavRuns' /\ ErrorsFresh'
<1> USE DEF NavRuns, ErrorsFresh, goto, at, local
<1>1. CASE QuietStep
  <2>0. work_pc = "callback" /\ UNCHANGED work_pc
    BY <1>1, QuietStepsQuiet DEF vars
  <2>1. CASE onGoalReceived \/ goalReceived \/ startNavigating
    BY <2>0, <2>1 DEF onGoalReceived, goalReceived, startNavigating
  <2>2. CASE isServerActive \/ isCancelRequested \/ tickOnce
    BY <2>0, <2>2 DEF isServerActive, isCancelRequested, tickOnce
  <2>3. CASE isPreemptRequested \/ onPreempt \/ onPreempt_initialize \/ onCompletion
    BY <2>0, <2>3 DEF isPreemptRequested, onPreempt, onPreempt_initialize, onCompletion
  <2> QED  BY <1>1, <2>1, <2>2, <2>3 DEF QuietStep
<1>2. CASE CallStep
  BY <1>2 DEF CallStep, executeCallback_reject, acceptPendingGoal, terminatePendingGoal,
     executeCallback_report, server_rest
<1>3. CASE onLoop
  <2>1. work_pc' \in {"callback", "feedback"}
    BY <1>3, LoopPublishes DEF publish_feedback_check, vars, onLoop
  <2>2. /\ nav_pc' = IF rc = "RUNNING" THEN "check_active" ELSE "completion"
        /\ UNCHANGED rc
    BY <1>3 DEF onLoop
  <2> QED  BY <2>1, <2>2
<1>4. CASE executeCallback_return
  BY <1>4 DEF executeCallback_return, callback_return, cleanErrorCodes
<1> QED  BY <1>1, <1>2, <1>3, <1>4, NavStepCases

(* The error codes are told apart by their values.                         *)
LEMMA ErrorCodesDiffer ==
  /\ NONE # TF_ERROR /\ NONE # NodeError /\ NONE # FAILED_TO_LOAD_BEHAVIOR_TREE
  /\ TF_ERROR # FAILED_TO_LOAD_BEHAVIOR_TREE
  BY DEF NONE, TF_ERROR, NodeError, FAILED_TO_LOAD_BEHAVIOR_TREE

LEMMA ErrorsUnchanged ==
  ASSUME OwnersOK, ErrorsOwned, UNCHANGED <<nav_pc, errors>> PROVE OwnersOK' /\ ErrorsOwned'
<1>1. UNCHANGED <<nav_pc, internal_error, internal_owner, node_error, node_owner>>
  BY DEF errors
<1>2. OwnersOK'
  BY <1>1 DEF OwnersOK
<1>3. ErrorsOwned'
  BY <1>1 DEF ErrorsOwned
<1> QED  BY <1>2, <1>3

(* The errors: executeCallback() starts without any, initialize() and      *)
(* loadBehaviorTree() record them for the goal it has, acceptPendingGoal() *)
(* makes them those of a preempted goal, and it does not return with one.  *)
LEMMA NavStepErrors ==
  ASSUME OwnersOK, ErrorsFresh, ErrorsOwned, NavStep PROVE OwnersOK' /\ ErrorsOwned'
<1> USE DEF OwnersOK, Owner, ErrorsOwned, Navigating, goto, at, errors, internal, of_nodes
<1>1. CASE onGoalReceived
  <2>1. internal_error = NONE /\ node_error = NONE
    BY <1>1 DEF onGoalReceived, ErrorsFresh
  <2>2. nav_pc' \in {"goal_received", "reject"}
        /\ UNCHANGED <<internal_error, internal_owner, node_error, node_owner>>
    BY <1>1 DEF onGoalReceived
  <2> QED  BY ErrorCodesDiffer, <2>1, <2>2
<1>2. CASE goalReceived
  BY ErrorCodesDiffer, <1>2, InitializeResult DEF goalReceived, loadBehaviorTree_fails, setInternalError
<1>3. CASE startNavigating
  BY ErrorCodesDiffer, <1>3 DEF startNavigating
<1>4. CASE isServerActive \/ isCancelRequested \/ isPreemptRequested \/ onPreempt
  BY <1>4 DEF isServerActive, isCancelRequested, isPreemptRequested, onPreempt
<1>5. CASE tickOnce
  BY ErrorCodesDiffer, <1>5 DEF tickOnce
<1>6. CASE acceptPendingGoal
  BY <1>6 DEF acceptPendingGoal, preempted
<1>7. CASE onPreempt_initialize
  BY ErrorCodesDiffer, <1>7, InitializeResult DEF onPreempt_initialize
<1>8. CASE terminatePendingGoal \/ onLoop
  BY <1>8 DEF terminatePendingGoal, onLoop
<1>9. CASE onCompletion
  BY <1>9 DEF onCompletion, haltAllActions
<1>10. CASE executeCallback_reject \/ executeCallback_report
  BY <1>10 DEF executeCallback_reject, executeCallback_report
<1>11. CASE executeCallback_return
  BY <1>11 DEF executeCallback_return, cleanErrorCodes, outlived
<1> QED
  BY <1>1, <1>2, <1>3, <1>4, <1>5, <1>6, <1>7, <1>8, <1>9, <1>10, <1>11 DEF NavStep

(* The goal: it is taken from the server's handle under one lock, and what *)
(* is written to the blackboard is that goal or there is an error.         *)
LEMMA NavStepOwns ==
  ASSUME NavVarsOK, IndInv, NavRuns, NavOwns, NavStep PROVE NavOwns'
<1> USE DEF NavOwns, Tracking, Navigating, goto, at
<1>1. CASE QuietStep
  <2>0. /\ work_pc = "callback"
        /\ UNCHANGED <<work_pc, current_handle, pending_handle, server_active>>
    BY <1>1, QuietStepsQuiet DEF vars, slots, flags
  <2>1. CASE onGoalReceived
    BY <2>0, <2>1, ResetClears DEF onGoalReceived
  <2>2. CASE goalReceived
    <3>1. ASSUME goal # NoGoal, loadBehaviorTree_fails, nav_pc' = "reject" PROVE NavOwns'
      BY <2>0, <3>1
    <3>2. ASSUME NEW ok \in BOOLEAN, goal # NoGoal, initialize(ok),
                 nav_pc' = IF ok THEN "start_navigating" ELSE "reject"
          PROVE  NavOwns'
      BY <2>0, <2>2, <3>2, InitializeResult DEF goalReceived
    <3>3. ASSUME goal = NoGoal PROVE NavOwns'
      BY <2>0, <2>2, <3>3 DEF goalReceived
    <3> QED  BY <2>2, <3>1, <3>2, <3>3 DEF goalReceived
  <2>3. CASE startNavigating
    BY <2>0, <2>3 DEF startNavigating, errors, internal
  <2>4. CASE isServerActive \/ isCancelRequested \/ tickOnce
    BY <2>0, <2>4 DEF isServerActive, isCancelRequested, tickOnce, errors, internal
  <2>5. CASE isPreemptRequested
    <3>1. preempt_requested => pending_handle # NoGoal
      BY DEF IndInv, SlotsConsistent
    <3> QED  BY <2>0, <2>5, <3>1 DEF isPreemptRequested, errors, internal
  <2>6. CASE onPreempt
    BY <2>0, <2>6, ResetClears DEF onPreempt, errors, internal
  <2>7. CASE onPreempt_initialize
    <3>1. ASSUME NEW ok \in BOOLEAN, initialize(ok),
                 nav_pc' = IF ok THEN "publish" ELSE "terminate_pending"
          PROVE  NavOwns'
      <4>1. internal_error' = TF_ERROR => internal_error' # NONE
        BY DEF TF_ERROR, NONE
      <4> QED  BY <2>0, <2>7, <3>1, <4>1, InitializeResult DEF onPreempt_initialize
    <3>2. ASSUME goal = NoGoal PROVE NavOwns'
      BY <2>0, <2>7, <3>2 DEF onPreempt_initialize
    <3> QED  BY <2>7, <3>1, <3>2 DEF onPreempt_initialize
  <2>8. CASE onCompletion
    BY <2>0, <2>8 DEF onCompletion, haltAllActions, internal
  <2> QED
    BY <1>1, <2>1, <2>2, <2>3, <2>4, <2>5, <2>6, <2>7, <2>8 DEF QuietStep
<1>2. CASE acceptPendingGoal
  <2>0. /\ nav_pc = "accept" /\ nav_pc' = "preempt_transform"
        /\ UNCHANGED server_active
        /\ goal' = IF is_active(pending_handle) THEN pending_handle ELSE NoGoal
    BY <1>2 DEF acceptPendingGoal, server_rest, flags
  <2>1. server_active => is_active(pending_handle)
    BY <2>0, ResetClears
  <2>2. is_active(pending_handle) => current_handle' = pending_handle /\ pending_handle # NoGoal
    BY <1>2 DEF acceptPendingGoal, accept_pending_goal, is_active
  <2> QED  BY <2>0, <2>1, <2>2
<1>3. CASE terminatePendingGoal
  <2>1. UNCHANGED <<current_handle, server_active>>
    BY <1>3 DEF terminatePendingGoal, terminate_pending_goal, slots, server_rest, flags
  <2> QED  BY <1>3, <2>1 DEF terminatePendingGoal, errors, internal
<1>4. CASE executeCallback_reject \/ executeCallback_report \/ executeCallback_return
  BY <1>4 DEF executeCallback_reject, executeCallback_report, executeCallback_return,
     callback_return, errors, internal
<1>5. CASE onLoop
  <2>1. UNCHANGED <<current_handle, server_active>>
    BY <1>5, LoopPublishes DEF publish_feedback_check, vars, slots, flags
  <2> QED  BY <1>5, <2>1 DEF onLoop, errors, internal
<1> QED  BY <1>1, <1>2, <1>3, <1>4, <1>5, NavStepCases DEF CallStep

-----------------------------------------------------------------------------
(* The other threads, and the other navigator.                             *)

(* The other navigator takes the name in the muxer and gives it back; it   *)
(* may overwrite this navigator's and never releases it.                   *)
LEMMA OtherStepPreserves ==
  ASSUME NavVarsOK, OwnersOK, MuxerHeld, NavRuns, ErrorsFresh, ErrorsOwned, NavOwns, OtherStep
  PROVE  /\ NavVarsOK' /\ OwnersOK' /\ MuxerHeld' /\ NavRuns'
         /\ ErrorsFresh' /\ ErrorsOwned' /\ NavOwns'
<1>1. UNCHANGED <<vars, nav>>
  BY DEF OtherStep, other_onGoalReceived, other_goalReceived, other_onCompletion
<1>2. MuxerHeld' /\ muxer' \in {"", "this", "other"} /\ other_pc' \in {"idle", "checked", "navigating"}
  BY <1>1 DEF OtherStep, other_onGoalReceived, other_goalReceived, other_onCompletion,
     NavVarsOK, MuxerHeld, nav
<1>3. NavVarsOK'
  BY <1>1, <1>2 DEF NavVarsOK, nav, local, errors, internal, of_nodes
<1>4. OwnersOK' /\ ErrorsOwned'
  BY <1>1, ErrorsUnchanged DEF nav
<1>5. NavRuns' /\ ErrorsFresh' /\ NavOwns'
  BY <1>1 DEF NavRuns, ErrorsFresh, NavOwns, at, nav, local, errors, internal, of_nodes, vars, slots, flags
<1> QED  BY <1>2, <1>3, <1>4, <1>5

(* No callback runs when the node is activated or fails to be, so that the *)
(* error code they write is not one of a goal.                             *)
LEMMA ActivationPreserves ==
  ASSUME NavVarsOK, OwnersOK, StopInv, NavRuns, ErrorsFresh, ErrorsOwned, NavOwns,
         on_activate \/ on_activate_fails
  PROVE  NavVarsOK' /\ OwnersOK' /\ NavRuns' /\ ErrorsFresh' /\ ErrorsOwned' /\ NavOwns'
<1>1. /\ ~ server_active /\ deactivate_pc = "idle"
      /\ UNCHANGED <<work_pc, nav_pc, goal, rc, bb_goal, node_error, node_owner, muxer, other_pc>>
  BY DEF on_activate, on_activate_fails, activate, deactivate, local, of_nodes, mux
<1>2. /\ work_pc \notin {"check_current", "callback", "feedback", "catch", "finish"}
      /\ nav_pc = "start"
  BY <1>1 DEF StopInv, NavRuns
<1>3. \/ internal_error' = NONE /\ internal_owner' = "nobody"
      \/ /\ internal_error' = FAILED_TO_LOAD_BEHAVIOR_TREE /\ internal_owner' = "activation"
         /\ ~ server_active' /\ stop_execution'
  BY DEF on_activate, on_activate_fails, deactivate, setInternalError
<1>4. NavVarsOK' /\ OwnersOK'
  BY <1>1, <1>3 DEF NavVarsOK, OwnersOK, Owner
<1>5. ErrorsFresh' /\ ErrorsOwned'
  BY <1>1, <1>2, <1>3, ErrorCodesDiffer DEF ErrorsFresh, ErrorsOwned, Navigating
<1>6. NavRuns' /\ NavOwns'
  BY <1>1, <1>2 DEF NavRuns, NavOwns, Tracking, Navigating, at
<1> QED  BY <1>4, <1>5, <1>6

(* No other thread takes the goal away from executeCallback(), but by a    *)
(* deactivation that is not over.                                          *)
LEMMA ServerStepPreserves ==
  ASSUME IndInv, StopInv, NavRuns, ErrorsFresh, NavOwns, UNCHANGED nav,
         \/ NavWorkStep \/ on_deactivate
         \/ ClientStep \/ ExecutorStep \/ DeactivateStep \/ deactivate_timeout
  PROVE  NavRuns' /\ ErrorsFresh' /\ NavOwns'
<1>0. UNCHANGED <<nav_pc, goal, rc, bb_goal, internal_error, node_error>>
  BY DEF nav, local, errors, internal, of_nodes
<1> USE DEF NavRuns, ErrorsFresh, NavOwns, at
<1>1. CASE NavWorkStep
  <2>1. CASE publish_feedback_use
    <3>1. UNCHANGED <<current_handle, pending_handle, server_active>>
          /\ nav_pc \in {"check_active", "completion"} /\ work_pc' = "callback"
      BY <2>1 DEF publish_feedback_use, slots, flags
    <3> QED  BY <1>0, <3>1
  <2>2. CASE work_check_stop
    <3>1. /\ work_pc = "check_stop" /\ UNCHANGED <<server_active, stop_execution>>
          /\ work_pc' = IF stop_execution THEN "exiting" ELSE "check_current"
      BY <2>2 DEF work_check_stop, flags
    <3> QED  BY <1>0, <3>1 DEF Tracking, Navigating
  <2>3. CASE work_check_current
    BY <1>0, <2>3 DEF work_check_current, flags, slots, is_active
  <2>4. CASE work_finish \/ work_exit
    <3>1. /\ work_pc \in {"finish", "exiting"} /\ work_pc' \in {"exiting", "check_stop", "done"}
          /\ UNCHANGED <<server_active, stop_execution>>
      BY <2>4 DEF work_finish, work_exit, flags
    <3> QED  BY <1>0, <3>1 DEF Tracking, Navigating
  <2> QED  BY <1>1, <2>1, <2>2, <2>3, <2>4 DEF NavWorkStep
<1>2. CASE on_deactivate
  BY <1>0, <1>2 DEF on_deactivate, deactivate
<1>3. CASE ClientStep \/ cancel_goal
  <2>1. UNCHANGED <<current_handle, pending_handle, work_pc, server_active, stop_execution>>
    BY <1>3 DEF ClientStep, handle_goal, handle_cancel, expire_goal, cancel_goal,
       slots, flags
  <2> QED  BY <1>0, <2>1
<1>4. CASE handle_accepted_pending
  <2>1. /\ UNCHANGED <<current_handle, work_pc, server_active, stop_execution>>
        /\ pending_handle' \in Goals
    BY <1>4 DEF handle_accepted_pending, flags, IndInv, TypeOK, ExecutorState, Idle
  <2> QED  BY <1>0, <2>1
<1>5. CASE handle_accepted_launch
  <2>1. /\ work_pc \in {"none", "done"} /\ work_pc' = "check_stop"
        /\ UNCHANGED <<server_active, stop_execution>>
    BY <1>5 DEF handle_accepted_launch, is_running, flags
  <2> QED  BY <1>0, <2>1 DEF Tracking, Navigating
<1>6. CASE deactivate_check_future \/ deactivate_ready \/ deactivate_timeout
  <2>1. UNCHANGED <<current_handle, pending_handle, work_pc, server_active, stop_execution>>
    BY <1>6 DEF deactivate_check_future, deactivate_ready, deactivate_timeout,
       slots, flags
  <2> QED  BY <1>0, <2>1
<1>7. CASE deactivate_terminate_all
  <2>1. ~ server_active /\ UNCHANGED <<server_active, stop_execution, work_pc>>
    BY <1>7 DEF deactivate_terminate_all, StopInv, flags
  <2> QED  BY <1>0, <2>1
<1> QED
  BY <1>1, <1>2, <1>3, <1>4, <1>5, <1>6, <1>7 DEF ExecutorStep, DeactivateStep

-----------------------------------------------------------------------------
(* The invariant, and what follows.                                        *)

LEMMA NavInvInit == NavInit => NavInv
<1> SUFFICES ASSUME NavInit PROVE NavInv
  OBVIOUS
<1>1. IndInv
  BY InitIndInv DEF NavInit
<1>2. StopInv
  BY DEF NavInit, Init, StopInv, Idle
<1>3. NavTypeOK
  BY <1>1 DEF IndInv, NavInit, NavTypeOK, NavPc, Owner
<1>4. MuxerHeld /\ NavRuns /\ ErrorsFresh /\ ErrorsOwned /\ NavOwns
  BY DEF NavInit, Init, MuxerHeld, NavRuns, ErrorsFresh, ErrorsOwned, Navigating, NavOwns
<1> QED  BY <1>1, <1>2, <1>3, <1>4 DEF NavInv

LEMMA NavInvInductive == NavInv /\ [NavNext]_nvars => NavInv'
<1> SUFFICES ASSUME NavInv, [NavNext]_nvars PROVE NavInv'
  OBVIOUS
<1>0. /\ NavVarsOK /\ OwnersOK /\ IndInv /\ StopInv
      /\ MuxerHeld /\ NavRuns /\ ErrorsFresh /\ ErrorsOwned /\ NavOwns
  BY DEF NavInv, NavTypeOK, NavVarsOK, OwnersOK
<1>1. IndInv' /\ StopInv'
  BY <1>0, NavNextRefines, NextPreserves, StopInvInductive
<1>2. /\ NavVarsOK' /\ OwnersOK' /\ MuxerHeld' /\ NavRuns'
      /\ ErrorsFresh' /\ ErrorsOwned' /\ NavOwns'
  <2>1. CASE NavStep
    BY <1>0, <2>1, NavStepVars, NavStepMuxer, NavStepRuns, NavStepErrors, NavStepOwns
  <2>2. CASE OtherStep
    BY <1>0, <2>2, OtherStepPreserves
  <2>3. CASE on_activate \/ on_activate_fails
    <3>1. MuxerHeld'
      BY <1>0, <2>3 DEF on_activate, on_activate_fails, mux, MuxerHeld
    <3> QED  BY <1>0, <2>3, <3>1, ActivationPreserves
  <2>4. CASE \/ NavWorkStep \/ on_deactivate
             \/ /\ ClientStep \/ ExecutorStep \/ DeactivateStep \/ deactivate_timeout
                /\ UNCHANGED <<nav, mux>>
    <3>1. UNCHANGED <<nav, mux>>
      BY <2>4 DEF NavWorkStep, on_deactivate
    <3>2. NavRuns' /\ ErrorsFresh' /\ NavOwns'
      BY <1>0, <2>4, <3>1, ServerStepPreserves
    <3>3. NavVarsOK' /\ MuxerHeld'
      BY <1>0, <3>1 DEF NavVarsOK, MuxerHeld, nav, local, errors, internal, of_nodes, mux
    <3>4. OwnersOK' /\ ErrorsOwned'
      BY <1>0, <3>1, ErrorsUnchanged DEF nav
    <3> QED  BY <3>2, <3>3, <3>4
  <2>5. CASE UNCHANGED nvars
    <3>1. UNCHANGED <<nav, mux, vars>>
      BY <2>5 DEF nvars
    <3>2. NavVarsOK' /\ MuxerHeld'
      BY <1>0, <3>1 DEF NavVarsOK, MuxerHeld, nav, local, errors, internal, of_nodes, mux
    <3>3. NavRuns' /\ ErrorsFresh'
      BY <1>0, <3>1 DEF NavRuns, ErrorsFresh, nav, local, errors, internal, of_nodes, vars, flags
    <3>4. NavOwns'
      BY <1>0, <3>1 DEF NavOwns, at, nav, local, errors, internal, of_nodes, vars, slots, flags
    <3>5. OwnersOK' /\ ErrorsOwned'
      BY <1>0, <3>1, ErrorsUnchanged DEF nav
    <3> QED  BY <3>2, <3>3, <3>4, <3>5
  <2> QED  BY <2>1, <2>2, <2>3, <2>4, <2>5 DEF NavNext
<1> QED
  BY <1>1, <1>2 DEF NavInv, NavTypeOK, NavVarsOK, OwnersOK, IndInv

(* The invariant of the navigator.                                         *)
THEOREM NavInvariance == NavSpec => []NavInv
<1> QED  BY NavInvInit, NavInvInductive, PTL DEF NavSpec

(* Whoever overwrote whose name, a muxer that is taken is taken by a       *)
(* navigator that still navigates and will release it.                     *)
THEOREM MuxerIsReleased == NavSpec => []MuxerReleased
<1>1. NavInv => MuxerReleased
  BY DEF NavInv, NavTypeOK, MuxerHeld, MuxerReleased
<1> QED  BY <1>1, NavInvariance, PTL

(* No error code outlives the run of executeCallback() it was recorded in, *)
(* also none of a failed activation: a result has errors of its own goal   *)
(* or of goals that were preempted in the run, a rejection only its own.   *)
THEOREM ErrorsEndWithTheirRun == NavSpec => []ErrorsAreOfThisRun
<1>1. NavInv => ErrorsAreOfThisRun
  BY DEF NavInv, ErrorsOwned, ErrorsAreOfThisRun, at
<1> QED  BY <1>1, NavInvariance, PTL

(* When the goal that is reported on is not the one whose pose was         *)
(* tracked, the result has an error code, or the server is deactivated.    *)
THEOREM MistrackingIsReported == NavSpec => []MistrackedGoalHasError
<1>1. internal_error # NONE => result_code # NONE
  BY DEF result_code
<1>2. NavInv => MistrackedGoalHasError
  BY <1>1 DEF NavInv, NavOwns, Tracking, MistrackedGoalHasError, at
<1> QED  BY <1>2, NavInvariance, PTL

(* A null goal is met, and ends the process, only while deactivate() waits.*)
THEOREM NavigatorCrashExplained == NavSpec => []CrashOnlyByDeactivation
<1>1. NavInv => CrashOnlyByDeactivation
  BY DEF NavInv, NavOwns, NavRuns, StopInv, CrashOnlyByDeactivation
<1> QED  BY <1>1, NavInvariance, PTL

(* What the server promises its clients holds of the navigator:            *)
(* every goal follows the goal protocol, none is lost, and nothing is      *)
(* executed once deactivate() has returned.                                *)
THEOREM NavigatorKeepsProtocol ==
  NavSpec => GoalsFollowProtocol /\ []NoGoalLost /\ []QuietWhenDeactivated
<1> QED
  BY NavigatorRefinesServer, ProtocolImplemented, NothingLost, QuietAfterDeactivation, PTL DEF NavImplementsServer
=============================================================================
