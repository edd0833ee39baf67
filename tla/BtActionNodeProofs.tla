-------------------------- MODULE BtActionNodeProofs --------------------------
(***************************************************************************)
(* Proofs about BtActionNode, for any number of goals and whatever the     *)
(* parents, the server, other clients and the network do: the node never   *)
(* uses a null handle, the result it acts on is that of the goal it sent   *)
(* last, and it leaves no goal running that it knows of.                   *)
(***************************************************************************)
EXTENDS BtActionNode, TLAPS

USE NoneAssumption

-----------------------------------------------------------------------------
(* The parts of the invariant.                                             *)

(* No class of the plugins takes an aborted goal for one that still runs.  *)
LEMMA PluginsEnd ==
  ASSUME NEW p \in Plugins PROVE p.aborted \in {"SUCCESS", "FAILURE"}
<1>1. Behavior.aborted = "FAILURE"
  BY DEF Behavior
<1>2. ASSUME NEW r \in BOOLEAN
      PROVE  AssistedTeleopAction(r).aborted \in {"SUCCESS", "FAILURE"}
  BY DEF AssistedTeleopAction, Behavior
<1>3. ASSUME p \in {ComputePathToPoseAction, ComputePathThroughPosesAction, ComputeRouteAction,
                    SmoothPathAction, FollowPathAction, ComputeAndTrackRouteAction}
      PROVE  p.aborted = "FAILURE"
  BY <1>3 DEF ComputePathToPoseAction, ComputePathThroughPosesAction, ComputeRouteAction,
     SmoothPathAction, FollowPathAction, ComputeAndTrackRouteAction
<1>4. ASSUME p \in {BackUpAction, SpinAction, WaitAction, DriveOnHeadingAction,
                    NavigateToPoseAction, NavigateThroughPosesAction}
      PROVE  p = Behavior
  BY <1>4 DEF BackUpAction, SpinAction, WaitAction, DriveOnHeadingAction,
     NavigateToPoseAction, NavigateThroughPosesAction
<1> QED  BY <1>1, <1>2, <1>3, <1>4 DEF Plugins

LEMMA NodeInvInit == Init => NodeInv
<1> SUFFICES ASSUME Init PROVE NodeInv
  OBVIOUS
<1>1. TypeOK /\ NoNullHandle
  BY DEF Init, TypeOK, NoNullHandle, Spinning
<1>2. NodeKnows
  BY PluginsEnd DEF Init, NodeKnows, Waiting
<1>3. FutureIsNew /\ ResultIsFinal /\ HandleIsSeen /\ KnownGoalNotAbandoned
  BY DEF Init, FutureIsNew, ResultIsFinal, HandleIsSeen, KnownGoalNotAbandoned
<1> QED  BY <1>1, <1>2, <1>3 DEF NodeInv

(* A new goal has an id that neither the handle nor an answer refers to,   *)
(* and takes the place of the last goal and of its result.                 *)
LEMMA NewGoalIsNew ==
  ASSUME NodeInv, NEW g \in Goals, send_new_goal(g),
         UNCHANGED <<goal_handle, reply, seen_active, cancel_sent>>,
         node_pc' \in Waiting
  PROVE  /\ FutureIsNew' /\ ResultIsFinal' /\ HandleIsSeen' /\ KnownGoalNotAbandoned'
         /\ server' \in [Goals -> {"unused", "requested", "rejected"} \cup Active \cup Terminal]
         /\ future' = g /\ last' = g /\ result_available' = FALSE
         /\ path' \in {"empty", "last", "old"}
<1>1. server[g] = "unused" /\ server' = [server EXCEPT ![g] = "requested"]
  BY DEF send_new_goal, Unused
<1>2. goal_handle # g
  BY <1>1 DEF NodeInv, HandleIsSeen, Active, Terminal
<1>3. HandleIsSeen'
  <2>1. \A h \in Goals : reply[h] = "accepted" => h # g
    BY <1>1 DEF NodeInv, HandleIsSeen, Active, Terminal
  <2>2. \A h \in Goals : h # g => server'[h] = server[h]
    BY <1>1 DEF NodeInv, TypeOK
  <2>3. goal_handle # None => goal_handle \in Goals
    BY DEF NodeInv, TypeOK
  <2> QED  BY <1>2, <2>1, <2>2, <2>3 DEF NodeInv, HandleIsSeen, Waiting
<1>4. FutureIsNew' /\ ResultIsFinal' /\ KnownGoalNotAbandoned'
  BY <1>2 DEF send_new_goal, FutureIsNew, ResultIsFinal, KnownGoalNotAbandoned, Waiting
<1> QED  BY <1>1, <1>3, <1>4 DEF send_new_goal, NodeInv, TypeOK

-----------------------------------------------------------------------------
(* The steps of the tree's thread.                                         *)

LEMMA ParentStepPreserves == ASSUME NodeInv, ParentStep PROVE NodeInv'
<1>1. ASSUME NEW g \in Goals, tick_start(g) PROVE NodeInv'
  <2>1. /\ FutureIsNew' /\ ResultIsFinal' /\ HandleIsSeen' /\ KnownGoalNotAbandoned'
        /\ server' \in [Goals -> {"unused", "requested", "rejected"} \cup Active \cup Terminal]
        /\ future' = g /\ result_available' = FALSE /\ last' = g
        /\ path' \in {"empty", "last", "old"}
    BY <1>1, NewGoalIsNew DEF tick_start, client, goto, Waiting
  <2>2. TypeOK' /\ NoNullHandle'
    BY <1>1, <2>1 DEF tick_start, client, goto, NodeInv, TypeOK, NoNullHandle, Spinning
  <2>3. NodeKnows'
    BY <1>1, <2>1 DEF tick_start, goto, NodeInv, NodeKnows, Waiting
  <2> QED  BY <2>1, <2>2, <2>3 DEF NodeInv
<1> USE DEF NodeInv, TypeOK, NoNullHandle, FutureIsNew, NodeKnows, ResultIsFinal, HandleIsSeen,
        KnownGoalNotAbandoned, Waiting, Active, Terminal, Spinning
<1>2. CASE resetStatus
  BY <1>2 DEF resetStatus, client
<1>3. CASE halt
  BY <1>3 DEF halt, client, goto, return
<1> QED  BY <1>1, <1>2, <1>3 DEF ParentStep

LEMMA HaltStepPreserves == ASSUME NodeInv, HaltStep PROVE NodeInv'
<1> USE DEF NodeInv, TypeOK, NoNullHandle, FutureIsNew, NodeKnows, ResultIsFinal, HandleIsSeen,
        KnownGoalNotAbandoned, Waiting, Active, Terminal, Spinning
<1>1. CASE halt_cancel
  BY <1>1 DEF halt_cancel, client, goto, return
<1>2. CASE halt_done
  BY <1>2 DEF halt_done, on_cancelled, client, goto, return
<1> QED  BY <1>1, <1>2 DEF HaltStep

LEMMA TickStepPreserves == ASSUME NodeInv, TickStep PROVE NodeInv'
<1>1. ASSUME NEW g \in Goals, send_update(g) PROVE NodeInv'
  <2>1. /\ FutureIsNew' /\ ResultIsFinal' /\ HandleIsSeen' /\ KnownGoalNotAbandoned'
        /\ server' \in [Goals -> {"unused", "requested", "rejected"} \cup Active \cup Terminal]
        /\ future' = g /\ result_available' = FALSE /\ last' = g
        /\ path' \in {"empty", "last", "old"}
    BY <1>1, NewGoalIsNew DEF send_update, client, goto, Waiting
  <2>2. TypeOK' /\ NoNullHandle'
    BY <1>1, <2>1 DEF send_update, client, goto, NodeInv, TypeOK, NoNullHandle, Spinning
  <2>3. status = "RUNNING"
    BY <1>1 DEF send_update, NodeInv, NodeKnows
  <2>4. NodeKnows'
    BY <1>1, <2>1, <2>3 DEF send_update, goto, NodeInv, NodeKnows, Waiting
  <2> QED  BY <2>1, <2>2, <2>4 DEF NodeInv
<1> USE DEF NodeInv, TypeOK, NoNullHandle, FutureIsNew, NodeKnows, ResultIsFinal, HandleIsSeen,
        KnownGoalNotAbandoned, Waiting, Active, Terminal, Spinning
<1>2. CASE tick_again
  BY <1>2 DEF tick_again, client, goto
<1>3. CASE goal_response
  BY <1>3 DEF goal_response, goto, return
<1>4. CASE wait_pending
  BY <1>4 DEF wait_pending, client, goto, return
<1>5. CASE wait_timeout
  BY <1>5 DEF wait_timeout, client, goto, return
<1>6. CASE check_result
  <2>1. goal_updated' \in BOOLEAN
    BY <1>6 DEF check_result
  <2>2. goal_handle = None => result_available
    BY <1>6 DEF check_result
  <2> QED  BY <1>6, <2>1, <2>2 DEF check_result, client, goto
<1>7. CASE spin_some
  BY <1>7 DEF spin_some, client, goto, return
<1>8. CASE tick_finish
  BY <1>8 DEF tick_finish, on_success, on_aborted, on_cancelled, client, goto, return
<1> QED  BY <1>1, <1>2, <1>3, <1>4, <1>5, <1>6, <1>7, <1>8 DEF TickStep

-----------------------------------------------------------------------------
(* Callbacks of the client, the server and the middleware.                 *)

LEMMA DeliveryPreserves == ASSUME NodeInv, Delivery PROVE NodeInv'
<1>1. ASSUME NEW g \in Goals, result_callback(g) PROVE NodeInv'
  <2>0. /\ UNCHANGED <<plugin, status, goal_handle, future, goal_updated, error_code, path, last,
                       reply, server, cancel_sent>>
        /\ node_pc \in Spinning /\ server[g] \in Terminal
        /\ delivered' = delivered \cup {g} /\ seen_active' = seen_active \ {g}
    BY <1>1 DEF result_callback
  <2>1. future = None => goal_handle # None /\ goal_handle = last
    BY <2>0 DEF NodeInv, NodeKnows, Spinning, Waiting
  <2>2. UNCHANGED node_pc
    BY <1>1, <2>1 DEF result_callback
  <2>3. \/ UNCHANGED <<result_available, result>>
        \/ result_available' = TRUE /\ result' = g /\ g = last
    BY <1>1, <2>1 DEF result_callback
  <2>4. TypeOK' /\ NoNullHandle'
    BY <2>0, <2>2, <2>3 DEF NodeInv, TypeOK, NoNullHandle
  <2>5. NodeKnows'
    BY <2>0, <2>2, <2>3 DEF NodeInv, NodeKnows
  <2>6. ResultIsFinal'
    BY <2>0, <2>3 DEF NodeInv, ResultIsFinal
  <2>7. HandleIsSeen'
    BY <2>0, <2>2 DEF NodeInv, HandleIsSeen, Terminal
  <2>8. FutureIsNew' /\ KnownGoalNotAbandoned'
    BY <2>0, <2>2 DEF NodeInv, FutureIsNew, KnownGoalNotAbandoned
  <2> QED  BY <2>4, <2>5, <2>6, <2>7, <2>8 DEF NodeInv
<1> USE DEF NodeInv, TypeOK, NoNullHandle, FutureIsNew, NodeKnows, ResultIsFinal, HandleIsSeen,
        KnownGoalNotAbandoned, Waiting, Active, Terminal, Spinning
<1>2. ASSUME NEW g \in Goals, late_response(g) PROVE NodeInv'
  BY <1>2 DEF late_response, node
<1>3. ASSUME NEW g \in Goals, status_callback(g) PROVE NodeInv'
  BY <1>3 DEF status_callback, node
<1> QED  BY <1>1, <1>2, <1>3 DEF Delivery

LEMMA ServerStepPreserves ==
  ASSUME NodeInv,
         ServerStep \/ BtCancelActionNode_tick \/ \E g \in Goals : forget(g)
  PROVE  NodeInv'
<1> USE DEF NodeInv, TypeOK, NoNullHandle, FutureIsNew, NodeKnows, ResultIsFinal, HandleIsSeen,
        KnownGoalNotAbandoned, Waiting, Active, Terminal, Spinning
<1>1. ASSUME NEW g \in Goals, server_answer(g) PROVE NodeInv'
  BY <1>1 DEF server_answer, node
<1>2. ASSUME NEW g \in Goals, server_cancel(g) PROVE NodeInv'
  BY <1>2 DEF server_cancel, node, client
<1>3. ASSUME NEW g \in Goals, server_finish(g) PROVE NodeInv'
  BY <1>3 DEF server_finish, node, client
<1>4. CASE BtCancelActionNode_tick
  BY <1>4 DEF BtCancelActionNode_tick, node, client
<1>5. ASSUME NEW g \in Goals, forget(g) PROVE NodeInv'
  BY <1>5 DEF forget, node
<1> QED  BY <1>1, <1>2, <1>3, <1>4, <1>5 DEF ServerStep

LEMMA NodeInvInductive == NodeInv /\ [Next]_vars => NodeInv'
<1> SUFFICES ASSUME NodeInv, [Next]_vars PROVE NodeInv'
  OBVIOUS
<1>1. CASE UNCHANGED vars
  BY <1>1 DEF vars, node, client, NodeInv, TypeOK, NoNullHandle, FutureIsNew, NodeKnows,
     ResultIsFinal, HandleIsSeen, KnownGoalNotAbandoned
<1> QED
  BY <1>1, ParentStepPreserves, HaltStepPreserves, TickStepPreserves, DeliveryPreserves,
     ServerStepPreserves DEF Next

-----------------------------------------------------------------------------
(* The theorems.                                                           *)

(* The invariant of BtActionNode.                                          *)
THEOREM NodeInvariance == Spec => []NodeInv
<1> QED  BY NodeInvInit, NodeInvInductive, PTL DEF Spec

(* tick() and result_callback use goal_handle_ only when it is not null,   *)
(* whatever rejections, time-outs and halts came before.                   *)
THEOREM HandleNeverNull == Spec => []NoNullHandle
<1>1. NodeInv => NoNullHandle
  BY DEF NodeInv
<1> QED  BY <1>1, NodeInvariance, PTL

(* What tick() returns is decided by the result of the goal sent last, and *)
(* never by a late result of an earlier goal.                              *)
THEOREM DecidesByLastGoal == Spec => []ResultIsOfLastGoal
<1>1. NodeInv => ResultIsOfLastGoal
  BY DEF NodeInv, NodeKnows, ResultIsFinal, ResultIsOfLastGoal
<1> QED  BY <1>1, NodeInvariance, PTL

(* ... and that result is final: tick() is never left without a case.      *)
THEOREM ResultDecides == Spec => [](node_pc = "finish" => server[result] \in Terminal)
<1>1. NodeInv => (node_pc = "finish" => server[result] \in Terminal)
  BY DEF NodeInv, NodeKnows, ResultIsFinal
<1> QED  BY <1>1, NodeInvariance, PTL

(* When a node is no longer RUNNING, a goal that it knows the server has   *)
(* accepted is not executed, or its cancellation is on the way.            *)
THEOREM LeavesNoGoalRunning == Spec => []KnownGoalNotAbandoned
<1>1. NodeInv => KnownGoalNotAbandoned
  BY DEF NodeInv
<1> QED  BY <1>1, NodeInvariance, PTL
=============================================================================
