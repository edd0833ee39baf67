---------------------------- MODULE BtActionNode ----------------------------
(***************************************************************************)
(* nav3d_behavior_tree::BtActionNode, the client of an action server that  *)
(* a behavior tree ticks, together with the plugins derived from it, the   *)
(* BtCancelActionNode, and the server and network as the client sees them: *)
(* requests, answers, results and status messages that come late or never  *)
(* in time.                                                                *)
(*                                                                         *)
(* The thread of the tree calls tick(), halt() and resetStatus(); it is in *)
(* one of them unless node_pc is "idle".  Callbacks of the client run only *)
(* while that thread spins the node's own executor.                        *)
(***************************************************************************)
EXTENDS Naturals, FiniteSets

CONSTANTS Goals,  \* goal ids: as many goals are in use at a time
          None    \* a null pointer

ASSUME NoneAssumption == None \notin Goals

VARIABLES plugin,            \* the derived class: what its callbacks do
          status,            \* status() of the node
          node_pc,           \* where tick() or halt() is
          goal_handle,       \* goal_handle_
          future,            \* the goal of future_goal_handle_, None if it is reset
          goal_updated,      \* goal_updated_
          result_available,  \* goal_result_available_
          result,            \* the goal of result_
          error_code,        \* the output port error_code_id
          path,              \* the output port path: empty, of the goal sent last, or older
          last,              \* history: the goal sent last
          server,            \* each goal at the server, from its request on
          reply,             \* the answer to each goal's request
          delivered,         \* goals whose result the client has received
          seen_active,       \* goals that are ACCEPTED or EXECUTING for the client
          cancel_sent        \* goals the server has been asked to cancel

node == <<status, node_pc, goal_handle, future, goal_updated, result_available,
          result, error_code, path, last>>
client == <<reply, delivered, seen_active>>
vars == <<plugin, node, client, server, cancel_sent>>

Active == {"executing", "canceling"}
Terminal == {"succeeded", "aborted", "canceled"}

(* The points at which the node's executor is spun.                        *)
Spinning == {"wait", "update_wait", "spin", "halt_spin", "halt_wait"}

TypeOK ==
    /\ status \in {"IDLE", "RUNNING", "SUCCESS", "FAILURE"}
    /\ node_pc \in Spinning \cup {"idle", "check", "finish", "crashed"}
    /\ goal_handle \in Goals \cup {None}
    /\ future \in Goals \cup {None}
    /\ goal_updated \in BOOLEAN
    /\ result_available \in BOOLEAN
    /\ result \in Goals \cup {None}
    /\ error_code \in {"NONE", "TIMEOUT", "result"}
    /\ path \in {"empty", "last", "old"}
    /\ last \in Goals \cup {None}
    /\ server \in [Goals -> {"unused", "requested", "rejected"} \cup Active \cup Terminal]
    /\ reply \in [Goals -> {"none", "accepted", "rejected", "handled"}]
    /\ delivered \subseteq Goals
    /\ seen_active \subseteq Goals
    /\ cancel_sent \subseteq Goals

-----------------------------------------------------------------------------
(* The derived classes.  path_port: on_success() writes a path; clears:    *)
(* on_aborted() and on_cancelled() empty it; halt_clears: so does halt();  *)
(* aborted: what on_aborted() returns; updates: on_wait_for_result()       *)
(* watches the input ports.  Every on_success() and on_cancelled() returns *)
(* SUCCESS and clears the error code, every on_aborted() writes the        *)
(* result's, every on_timeout() a time-out.                                *)

ComputePathToPoseAction ==
    [path_port |-> TRUE, clears |-> TRUE, halt_clears |-> TRUE, aborted |-> "FAILURE",
     updates |-> FALSE]

ComputePathThroughPosesAction ==
    [path_port |-> TRUE, clears |-> TRUE, halt_clears |-> TRUE, aborted |-> "FAILURE",
     updates |-> FALSE]

ComputeRouteAction ==
    [path_port |-> TRUE, clears |-> TRUE, halt_clears |-> TRUE, aborted |-> "FAILURE",
     updates |-> FALSE]

SmoothPathAction ==
    [path_port |-> TRUE, clears |-> FALSE, halt_clears |-> FALSE, aborted |-> "FAILURE",
     updates |-> FALSE]

FollowPathAction ==
    [path_port |-> FALSE, clears |-> FALSE, halt_clears |-> FALSE, aborted |-> "FAILURE",
     updates |-> TRUE]

ComputeAndTrackRouteAction ==
    [path_port |-> FALSE, clears |-> FALSE, halt_clears |-> FALSE, aborted |-> "FAILURE",
     updates |-> TRUE]

(* The actions that only report how they ended.                            *)
Behavior ==
    [path_port |-> FALSE, clears |-> FALSE, halt_clears |-> FALSE, aborted |-> "FAILURE",
     updates |-> FALSE]

BackUpAction == Behavior
SpinAction == Behavior
WaitAction == Behavior
DriveOnHeadingAction == Behavior
NavigateToPoseAction == Behavior
NavigateThroughPosesAction == Behavior

(* A teleoperation that is not a recovery has succeeded when it is aborted.*)
AssistedTeleopAction(is_recovery) ==
    [Behavior EXCEPT !.aborted = IF is_recovery THEN "FAILURE" ELSE "SUCCESS"]

Plugins ==
    {ComputePathToPoseAction, ComputePathThroughPosesAction, ComputeRouteAction,
     SmoothPathAction, FollowPathAction, ComputeAndTrackRouteAction,
     BackUpAction, SpinAction, WaitAction, DriveOnHeadingAction,
     NavigateToPoseAction, NavigateThroughPosesAction}
      \cup {AssistedTeleopAction(r) : r \in BOOLEAN}

(* The cancel nodes, by the class whose server they cancel the goals of.   *)
ControllerCancel == FollowPathAction
ComputeAndTrackRouteCancel == ComputeAndTrackRouteAction
BackUpCancel == BackUpAction
SpinCancel == SpinAction
WaitCancel == WaitAction
DriveOnHeadingCancel == DriveOnHeadingAction
AssistedTeleopCancel(is_recovery) == AssistedTeleopAction(is_recovery)

Cancelable ==
    {ControllerCancel, ComputeAndTrackRouteCancel, BackUpCancel, SpinCancel, WaitCancel,
     DriveOnHeadingCancel} \cup {AssistedTeleopCancel(r) : r \in BOOLEAN}

-----------------------------------------------------------------------------
(* tick().                                                                 *)

goto(pc) == node_pc' = pc

(* The node returns from tick() with a status.                             *)
return(s) == goto("idle") /\ status' = s

(* Ids for new goals.  Without one no goal is sent: the bound of the model.*)
Unused == {g \in Goals : server[g] = "unused"}

(* send_new_goal(): a goal with a new id.                                  *)
send_new_goal(g) ==
    /\ g \in Unused
    /\ server' = [server EXCEPT ![g] = "requested"]
    /\ future' = g
    /\ last' = g
    /\ path' = IF path = "last" THEN "old" ELSE path
    /\ result_available' = FALSE

(* A node that is not active starts afresh; goal_handle_ and goal_updated_ *)
(* are left as they are.                                                   *)
tick_start(g) ==
    /\ node_pc = "idle"
    /\ status = "IDLE"
    /\ send_new_goal(g)
    /\ result' = None
    /\ status' = "RUNNING"
    /\ goto("wait")
    /\ UNCHANGED <<plugin, goal_handle, goal_updated, error_code, client, cancel_sent>>

(* A node that is RUNNING, or that has succeeded and was not reset (its    *)
(* parent is a PipelineSequence), goes on.                                 *)
tick_again ==
    /\ node_pc = "idle"
    /\ status \in {"RUNNING", "SUCCESS"}
    /\ goto(IF future # None THEN "wait" ELSE "check")
    /\ UNCHANGED <<plugin, status, goal_handle, future, goal_updated, result_available,
                   result, error_code, path, last, client, server, cancel_sent>>

(* Fault: a rejection is treated like an acceptance.                       *)
goal_response_unchecked ==
    /\ node_pc \in {"wait", "update_wait"}
    /\ future # None
    /\ reply[future] \in {"accepted", "rejected"}
    /\ reply' = [reply EXCEPT ![future] = "handled"]
    /\ future' = None
    /\ goal_handle' = IF reply[future] = "accepted" THEN future ELSE None
    /\ seen_active' = seen_active \cup ({goal_handle'} \ {None})
    /\ goto("check")
    /\ UNCHANGED <<plugin, status, goal_updated, result_available, result, error_code, path,
                   last, delivered, server, cancel_sent>>

(* is_future_goal_handle_complete(): the answer has come ...               *)
goal_response ==
    /\ node_pc \in {"wait", "update_wait"}
    /\ future # None
    /\ reply[future] \in {"accepted", "rejected"}
    /\ reply' = [reply EXCEPT ![future] = "handled"]
    /\ future' = None
    /\ IF reply[future] = "accepted"
       THEN /\ goal_handle' = future
            /\ seen_active' = seen_active \cup {future}
            /\ goto(IF node_pc = "wait" THEN "check" ELSE "spin")
            /\ UNCHANGED status
       ELSE /\ goal_handle' = None
            /\ return("FAILURE")
            /\ UNCHANGED seen_active
    /\ UNCHANGED <<plugin, goal_updated, result_available, result, error_code, path, last,
                   delivered, server, cancel_sent>>

(* ... it has not, but there is time ...                                   *)
wait_pending ==
    /\ node_pc \in {"wait", "update_wait"}
    /\ return("RUNNING")
    /\ UNCHANGED <<plugin, goal_handle, future, goal_updated, result_available, result,
                   error_code, path, last, client, server, cancel_sent>>

(* Fault: the node waits on after the time-out.                            *)
wait_timeout_ignored ==
    /\ node_pc \in {"wait", "update_wait"}
    /\ return("RUNNING")
    /\ UNCHANGED <<plugin, goal_handle, future, goal_updated, result_available, result,
                   error_code, path, last, client, server, cancel_sent>>

(* ... or server_timeout_ has passed: on_timeout().                        *)
wait_timeout ==
    /\ node_pc \in {"wait", "update_wait"}
    /\ future' = None
    /\ error_code' = "TIMEOUT"
    /\ return("FAILURE")
    /\ UNCHANGED <<plugin, goal_handle, goal_updated, result_available, result, path, last,
                   client, server, cancel_sent>>

(* A result is there already, or on_wait_for_result() is called and the    *)
(* handle asked for its status: a null handle ends the process.            *)
check_result ==
    /\ node_pc = "check"
    /\ \/ /\ result_available
          /\ goto("finish")
          /\ UNCHANGED goal_updated
       \/ /\ ~ result_available
          /\ goal_updated' \in {goal_updated, goal_updated \/ plugin.updates}
          /\ ~ (goal_updated' /\ goal_handle \in seen_active /\ Unused # {})
          /\ goto(IF goal_handle = None THEN "crashed" ELSE "spin")
    /\ UNCHANGED <<plugin, status, goal_handle, future, result_available, result, error_code,
                   path, last, client, server, cancel_sent>>

(* The inputs have changed and the goal is still executing: an update.     *)
send_update(g) ==
    /\ node_pc = "check"
    /\ ~ result_available
    /\ goal_updated \/ plugin.updates
    /\ goal_handle \in seen_active
    /\ goal_updated' = FALSE
    /\ send_new_goal(g)
    /\ goto("update_wait")
    /\ UNCHANGED <<plugin, status, goal_handle, result, error_code, client, cancel_sent>>

spin_some ==
    /\ node_pc = "spin"
    /\ IF result_available
       THEN goto("finish") /\ UNCHANGED status
       ELSE return("RUNNING")
    /\ UNCHANGED <<plugin, goal_handle, future, goal_updated, result_available, result,
                   error_code, path, last, client, server, cancel_sent>>

on_cancelled ==
    /\ error_code' = "NONE"
    /\ path' = IF plugin.clears THEN "empty" ELSE path

on_success ==
    /\ error_code' = "NONE"
    /\ path' = IF plugin.path_port THEN "last" ELSE path

on_aborted ==
    /\ error_code' = "result"
    /\ path' = IF plugin.clears THEN "empty" ELSE path

(* The result decides what tick() returns.                                 *)
tick_finish ==
    /\ node_pc = "finish"
    /\ \/ server[result] = "succeeded" /\ on_success /\ return("SUCCESS")
       \/ server[result] = "aborted" /\ on_aborted /\ return(plugin.aborted)
       \/ server[result] = "canceled" /\ on_cancelled /\ return("SUCCESS")
    /\ goal_handle' = None
    /\ UNCHANGED <<plugin, future, goal_updated, result_available, result, last, client,
                   server, cancel_sent>>

-----------------------------------------------------------------------------
(* halt(), and the reset by which a parent ends a completed node.          *)

resetStatus ==
    /\ node_pc = "idle"
    /\ status \in {"SUCCESS", "FAILURE"}
    /\ status' = "IDLE"
    /\ UNCHANGED <<plugin, node_pc, goal_handle, future, goal_updated, result_available,
                   result, error_code, path, last, client, server, cancel_sent>>

(* should_cancel_goal(): a node that is not RUNNING, or has no handle yet, *)
(* has nothing to cancel.  future_goal_handle_ stays.                      *)
halt ==
    /\ node_pc = "idle"
    /\ path' = IF plugin.halt_clears THEN "empty" ELSE path
    /\ IF status = "RUNNING" /\ goal_handle # None
       THEN goto("halt_spin") /\ UNCHANGED status
       ELSE return("IDLE")
    /\ UNCHANGED <<plugin, goal_handle, future, goal_updated, result_available, result,
                   error_code, last, client, server, cancel_sent>>

(* Fault: halt() forgets to cancel the goal.                               *)
halt_cancel_not ==
    /\ node_pc = "halt_spin"
    /\ return("IDLE")
    /\ UNCHANGED <<plugin, goal_handle, future, goal_updated, result_available, result,
                   error_code, path, last, client, server, cancel_sent>>

halt_cancel ==
    /\ node_pc = "halt_spin"
    /\ IF goal_handle \in seen_active
       THEN /\ cancel_sent' = cancel_sent \cup {goal_handle}
            /\ goto("halt_wait")
            /\ UNCHANGED status
       ELSE return("IDLE") /\ UNCHANGED cancel_sent
    /\ UNCHANGED <<plugin, goal_handle, future, goal_updated, result_available, result,
                   error_code, path, last, client, server>>

(* Both answers have come, or the time-outs have passed.                   *)
halt_done ==
    /\ node_pc = "halt_wait"
    /\ on_cancelled
    /\ return("IDLE")
    /\ UNCHANGED <<plugin, goal_handle, future, goal_updated, result_available, result, last,
                   client, server, cancel_sent>>

-----------------------------------------------------------------------------
(* Callbacks of the client, while the executor is spun.                    *)

(* The answer to a request that is not waited for any more: rclcpp_action  *)
(* asks for the goal's result all the same.                                *)
late_response(g) ==
    /\ node_pc \in Spinning
    /\ reply[g] \in {"accepted", "rejected"}
    /\ g # future
    /\ reply' = [reply EXCEPT ![g] = "handled"]
    /\ seen_active' = IF reply[g] = "accepted" THEN seen_active \cup {g} ELSE seen_active
    /\ UNCHANGED <<plugin, node, delivered, server, cancel_sent>>

(* Fault: any result is taken for that of the last goal.                   *)
result_callback_any(g) ==
    /\ node_pc \in Spinning
    /\ server[g] \in Terminal
    /\ reply[g] = "handled" /\ g \notin delivered
    /\ delivered' = delivered \cup {g}
    /\ seen_active' = seen_active \ {g}
    /\ result_available' = TRUE
    /\ result' = g
    /\ UNCHANGED <<plugin, status, node_pc, goal_handle, future, goal_updated, error_code,
                   path, last, reply, server, cancel_sent>>

(* result_callback: ignored while an answer is waited for, and for another *)
(* goal than that of goal_handle_; a null handle ends the process.         *)
result_callback(g) ==
    /\ node_pc \in Spinning
    /\ server[g] \in Terminal
    /\ reply[g] = "handled" /\ g \notin delivered
    /\ delivered' = delivered \cup {g}
    /\ seen_active' = seen_active \ {g}
    /\ IF future = None /\ goal_handle = g
       THEN result_available' = TRUE /\ result' = g
       ELSE UNCHANGED <<result_available, result>>
    /\ node_pc' = IF future = None /\ goal_handle = None THEN "crashed" ELSE node_pc
    /\ UNCHANGED <<plugin, status, goal_handle, future, goal_updated, error_code, path, last,
                   reply, server, cancel_sent>>

(* A status message.                                                       *)
status_callback(g) ==
    /\ node_pc \in Spinning
    /\ g \in seen_active
    /\ server[g] # "executing"
    /\ seen_active' = seen_active \ {g}
    /\ UNCHANGED <<plugin, node, reply, delivered, server, cancel_sent>>

-----------------------------------------------------------------------------
(* The action server, other clients, and the middleware.                   *)

server_answer(g) ==
    /\ server[g] = "requested"
    /\ \/ /\ server' = [server EXCEPT ![g] = "executing"]
          /\ reply' = [reply EXCEPT ![g] = "accepted"]
       \/ /\ server' = [server EXCEPT ![g] = "rejected"]
          /\ reply' = [reply EXCEPT ![g] = "rejected"]
    /\ UNCHANGED <<plugin, node, delivered, seen_active, cancel_sent>>

server_cancel(g) ==
    /\ g \in cancel_sent
    /\ cancel_sent' = cancel_sent \ {g}
    /\ server' = IF server[g] = "executing" THEN [server EXCEPT ![g] = "canceling"] ELSE server
    /\ UNCHANGED <<plugin, node, client>>

server_finish(g) ==
    /\ server[g] \in Active
    /\ \E s \in Terminal :
         /\ s = "canceled" => server[g] = "canceling"
         /\ server' = [server EXCEPT ![g] = s]
    /\ UNCHANGED <<plugin, node, client, cancel_sent>>

(* BtCancelActionNode::tick(): all goals of the server that are older than *)
(* ten milliseconds are canceled, whoever sent them.                       *)
BtCancelActionNode_tick ==
    /\ plugin \in Cancelable
    /\ \E old \in SUBSET {g \in Goals : server[g] = "executing"} :
         /\ old # {}
         /\ server' = [g \in Goals |-> IF g \in old THEN "canceling" ELSE server[g]]
    /\ UNCHANGED <<plugin, node, client, cancel_sent>>

(* An id nobody refers to any more stands for a new goal.                  *)
forget(g) ==
    /\ server[g] = "rejected" \/ g \in delivered
    /\ reply[g] = "handled"
    /\ g \notin {goal_handle, future, result, last} \cup cancel_sent
    /\ server' = [server EXCEPT ![g] = "unused"]
    /\ reply' = [reply EXCEPT ![g] = "none"]
    /\ delivered' = delivered \ {g}
    /\ UNCHANGED <<plugin, node, seen_active, cancel_sent>>

-----------------------------------------------------------------------------

Init ==
    /\ plugin \in Plugins
    /\ status = "IDLE"
    /\ node_pc = "idle"
    /\ goal_handle = None
    /\ future = None
    /\ goal_updated = FALSE
    /\ result_available = FALSE
    /\ result = None
    /\ error_code = "NONE"
    /\ path = "empty"
    /\ last = None
    /\ server = [g \in Goals |-> "unused"]
    /\ reply = [g \in Goals |-> "none"]
    /\ delivered = {}
    /\ seen_active = {}
    /\ cancel_sent = {}

TickStep ==
    \/ tick_again \/ goal_response \/ wait_pending \/ wait_timeout
    \/ check_result \/ (\E g \in Goals : send_update(g))
    \/ spin_some \/ tick_finish

HaltStep == halt_cancel \/ halt_done

ParentStep == (\E g \in Goals : tick_start(g)) \/ resetStatus \/ halt

Delivery == \E g \in Goals : late_response(g) \/ result_callback(g) \/ status_callback(g)

ServerStep == \E g \in Goals : server_answer(g) \/ server_cancel(g) \/ server_finish(g)

Next ==
    /\ node_pc # "crashed"
    /\ \/ TickStep \/ HaltStep \/ ParentStep \/ Delivery \/ ServerStep
       \/ BtCancelActionNode_tick
       \/ \E g \in Goals : forget(g)

Spec == Init /\ [][Next]_vars

(* The tree ticks the node again and again, the server handles what it is  *)
(* asked (in its own time), what is spun for long enough is delivered, and *)
(* an answer comes or is given up after server_timeout_.  Nothing is       *)
(* assumed of how long an answer takes or of the parents.                  *)
Fairness ==
    /\ WF_vars(TickStep)
    /\ WF_vars(HaltStep)
    /\ WF_vars(ServerStep)
    /\ SF_vars(goal_response \/ wait_timeout)
    /\ \A g \in Goals : SF_vars(result_callback(g))

FairSpec == Spec /\ Fairness

-----------------------------------------------------------------------------
(* Properties.                                                             *)

(* tick() and result_callback use goal_handle_ without a test.  It is not  *)
(* null when they do, although rejections, time-outs and halts leave it in *)
(* all kinds of states, as long as a parent resets a node that has failed  *)
(* before it ticks it again.                                               *)
NoNullHandle == node_pc # "crashed"

(* The result that decides what tick() returns is that of the goal which   *)
(* was sent last: not of a goal that was updated, halted or given up       *)
(* before, whose result may come at any time.                              *)
ResultIsOfLastGoal == node_pc = "finish" => result = last

(* A goal that the node knows to be accepted does not run on when the node *)
(* is no longer RUNNING, unless the server has been asked to cancel it.    *)
(* (Goals whose answer came too late, or that an update was sent for,      *)
(* do.)                                                                    *)
KnownGoalNotAbandoned ==
    (/\ node_pc = "idle" /\ status # "RUNNING"
     /\ last # None /\ goal_handle = last
     /\ server[last] = "executing")
       => last \in cancel_sent

(* A goal whose answer is waited for is the one sent last, and not the one *)
(* the handle still names.                                                 *)
FutureIsNew == future # None => future = last /\ goal_handle # future

(* Where an answer is waited for.                                          *)
Waiting == {"wait", "update_wait"}

(* At every point of tick() and halt(), which of answer, handle and result *)
(* is there.  (A node that waits for no answer and has no result has the   *)
(* handle of the last goal.)                                               *)
NodeKnows ==
    /\ plugin.aborted \in {"SUCCESS", "FAILURE"}
    /\ node_pc \in Waiting => future # None /\ status = "RUNNING"
    /\ node_pc \in {"check", "spin", "finish"} =>
         future = None /\ status \in {"RUNNING", "SUCCESS"}
    /\ node_pc = "finish" => result_available
    /\ node_pc = "check" => result_available \/ (goal_handle # None /\ goal_handle = last)
    /\ node_pc = "spin" => goal_handle # None /\ goal_handle = last
    /\ node_pc \in {"halt_spin", "halt_wait"} =>
         goal_handle # None /\ (future = None => goal_handle = last)
    /\ node_pc = "idle" /\ status = "RUNNING" /\ future = None =>
         goal_handle # None /\ goal_handle = last
    /\ status = "SUCCESS" => result_available /\ future = None

(* The result is the last goal's, and final: the switch in tick() never    *)
(* falls through to its "invalid status value".                            *)
ResultIsFinal ==
    result_available => result # None /\ result = last /\ server[result] \in Terminal

(* A handle is of a goal the server has accepted; the client sees it as    *)
(* active for as long as it executes, so that halt() asks to cancel it.    *)
HandleIsSeen ==
    /\ \A g \in Goals : reply[g] = "accepted" => server[g] \in Active \cup Terminal
    /\ goal_handle # None =>
         /\ server[goal_handle] \in Active \cup Terminal
         /\ server[goal_handle] = "executing" => goal_handle \in seen_active
         /\ node_pc = "halt_wait" /\ server[goal_handle] = "executing"
              => goal_handle \in cancel_sent

(* The inductive invariant of the node.                                    *)
NodeInv ==
    /\ TypeOK /\ NoNullHandle /\ FutureIsNew /\ NodeKnows /\ ResultIsFinal
    /\ HandleIsSeen /\ KnownGoalNotAbandoned

(* A node that is RUNNING and is ticked does not wait for ever, though a   *)
(* result that comes while it waits for an answer is thrown away: it ends, *)
(* is halted, or sends another update.                                     *)
RunningEnds ==
    status = "RUNNING" ~> (status # "RUNNING" \/ node_pc \in {"update_wait", "crashed"})
=============================================================================
