---------------------------- MODULE GoalProtocol ----------------------------
(***************************************************************************)
(* What a client of a ROS 2 action is promised about ONE goal: the goal    *)
(* state machine of rcl_action, which rclcpp_action::ServerGoalHandle      *)
(* enforces by throwing out of abort(), succeed(), canceled() and          *)
(* execute().  rcl_action is not part of the repository; the transitions   *)
(* are those the action server of nav3d_util relies on.                    *)
(*                                                                         *)
(* "unknown" is a goal id the server does not know (yet, or any more).     *)
(***************************************************************************)

VARIABLE state

ActiveStates == {"executing", "canceling"}

TerminalStates == {"succeeded", "canceled", "aborted"}

States == {"unknown", "rejected"} \cup ActiveStates \cup TerminalStates

Init == state = "unknown"

(* The goal request is answered: ACCEPT_AND_EXECUTE or REJECT.             *)
Answer == /\ state = "unknown"
          /\ state' \in {"executing", "rejected"}

(* A cancel request is accepted.                                           *)
Cancel == /\ state = "executing"
          /\ state' = "canceling"

(* The server reports a result.  "canceled" needs an accepted cancel       *)
(* request; success and abort are legal from both active states.           *)
Finish == \/ /\ state \in ActiveStates
             /\ state' \in {"succeeded", "aborted"}
          \/ /\ state = "canceling"
             /\ state' = "canceled"

(* The result has been kept for its timeout and the goal id is forgotten.  *)
Expire == /\ state \in TerminalStates \cup {"rejected"}
          /\ state' = "unknown"

Next == Answer \/ Cancel \/ Finish \/ Expire

Spec == Init /\ [][Next]_state
=============================================================================
