-------------------------- MODULE SimpleActionServer --------------------------
(***************************************************************************)
(* nav3d_util::SimpleActionServer: the action server behind the controller,*)
(* the planner and the BT navigators.  Three threads share its state under *)
(* update_mutex_:                                                          *)
(*   - the executor thread, which runs the rclcpp_action callbacks         *)
(*     handle_goal, handle_cancel, handle_accepted;                        *)
(*   - the worker, the std::async thread of work(), which runs the user's  *)
(*     execute callback;                                                   *)
(*   - the lifecycle thread, which calls activate() and deactivate().      *)
(* One action is one critical section of update_mutex_, or one read made   *)
(* without it.  The execute callback is any program: it calls the public   *)
(* methods in any order and then returns or throws.                        *)
(***************************************************************************)
EXTENDS Naturals

CONSTANTS Goals,      \* goal ids a client may use; an expired id is used again
          NoGoal,     \* a null goal handle
          SpinThread  \* spin_thread_: the executor thread is not the lifecycle thread

ASSUME NoGoalAssumption == NoGoal \notin Goals
ASSUME SpinThreadAssumption == SpinThread \in BOOLEAN

VARIABLES goal_status,        \* the state of each goal handle (held by rclcpp_action)
          server_active,      \* server_active_
          stop_execution,     \* stop_execution_
          preempt_requested,  \* preempt_requested_
          current_handle,     \* current_handle_
          pending_handle,     \* pending_handle_
          executor,           \* the callback the executor thread is in
          work_pc,            \* where work() is; also the state of execution_future_
          deactivate_pc       \* where deactivate() is

flags == <<server_active, stop_execution>>
slots == <<current_handle, pending_handle, preempt_requested>>
vars == <<goal_status, flags, slots, executor, work_pc, deactivate_pc>>

Active == {"executing", "canceling"}
Terminal == {"succeeded", "canceled", "aborted"}
Status == {"unknown", "rejected"} \cup Active \cup Terminal

(* "none": no future yet; "done": the future is ready; otherwise a thread  *)
(* is in work(), at the named point.                                       *)
WorkPc == {"none", "check_stop", "check_current", "callback", "feedback",
           "catch", "finish", "exiting", "done"}

DeactivatePc == {"idle", "stopped", "waiting", "expired"}

Idle == [op |-> "idle", goal |-> NoGoal]

ExecutorState == {Idle} \cup [op : {"accepted", "cancel"}, goal : Goals]

TypeOK ==
    /\ goal_status \in [Goals -> Status]
    /\ server_active \in BOOLEAN
    /\ stop_execution \in BOOLEAN
    /\ preempt_requested \in BOOLEAN
    /\ current_handle \in Goals \cup {NoGoal}
    /\ pending_handle \in Goals \cup {NoGoal}
    /\ executor \in ExecutorState
    /\ work_pc \in WorkPc
    /\ deactivate_pc \in DeactivatePc

-----------------------------------------------------------------------------
(* Helpers of the class.                                                   *)

is_active(h) == h # NoGoal /\ goal_status[h] \in Active

is_running == work_pc \notin {"none", "done"}

(* Fault: every termination is reported as a cancellation.                 *)
canceled_status(s) == "canceled"

(* terminate() on an active handle: canceled() if the client asked for it, *)
(* abort() otherwise.                                                      *)
terminated_status(s) == IF s = "canceling" THEN "canceled" ELSE "aborted"

(* Every goal of hs that is still active gets its terminal status.         *)
terminate(hs) ==
    goal_status' = [g \in Goals |->
                      IF g \in hs /\ goal_status[g] \in Active
                      THEN terminated_status(goal_status[g])
                      ELSE goal_status[g]]

(* terminate() resets the handle it is given only when it was active.      *)
reset(h) == IF is_active(h) THEN NoGoal ELSE h

(* Fault: terminate_all() does not clear preempt_requested_.               *)
terminate_all_keeps_flag ==
    /\ terminate({current_handle, pending_handle})
    /\ current_handle' = reset(current_handle)
    /\ pending_handle' = reset(pending_handle)
    /\ UNCHANGED preempt_requested

terminate_all ==
    /\ terminate({current_handle, pending_handle})
    /\ current_handle' = reset(current_handle)
    /\ pending_handle' = reset(pending_handle)
    /\ preempt_requested' = FALSE

terminate_current ==
    /\ terminate({current_handle})
    /\ current_handle' = reset(current_handle)
    /\ UNCHANGED <<pending_handle, preempt_requested>>

succeeded_current ==
    /\ goal_status' = IF is_active(current_handle)
                      THEN [goal_status EXCEPT ![current_handle] = "succeeded"]
                      ELSE goal_status
    /\ current_handle' = reset(current_handle)
    /\ UNCHANGED <<pending_handle, preempt_requested>>

terminate_pending_goal ==
    IF is_active(pending_handle)
    THEN /\ terminate({pending_handle})
         /\ pending_handle' = NoGoal
         /\ preempt_requested' = FALSE
         /\ UNCHANGED current_handle
    ELSE UNCHANGED <<goal_status, slots>>

(* The goal that is preempted is aborted, also when it was being canceled. *)
accept_pending_goal ==
    IF is_active(pending_handle)
    THEN /\ goal_status' = IF is_active(current_handle) /\ current_handle # pending_handle
                           THEN [goal_status EXCEPT ![current_handle] = "aborted"]
                           ELSE goal_status
         /\ current_handle' = pending_handle
         /\ pending_handle' = NoGoal
         /\ preempt_requested' = FALSE
    ELSE UNCHANGED <<goal_status, slots>>

(* What the callback sees when it asks for a cancel request: with a goal   *)
(* pending, only that goal's.                                              *)
is_cancel_requested ==
    /\ current_handle # NoGoal
    /\ LET h == IF pending_handle # NoGoal THEN pending_handle ELSE current_handle
       IN goal_status[h] = "canceling"

-----------------------------------------------------------------------------
(* The executor thread.  Without a thread of its own the executor does not *)
(* run while the lifecycle thread is in deactivate().                      *)

ExecutorRuns == SpinThread \/ deactivate_pc = "idle"

(* handle_goal: the answer is given and update_mutex_ released before      *)
(* rclcpp_action calls handle_accepted with the new handle.                *)
handle_goal(g) ==
    /\ ExecutorRuns
    /\ executor = Idle
    /\ goal_status[g] = "unknown"
    /\ IF server_active
       THEN /\ goal_status' = [goal_status EXCEPT ![g] = "executing"]
            /\ executor' = [op |-> "accepted", goal |-> g]
       ELSE /\ goal_status' = [goal_status EXCEPT ![g] = "rejected"]
            /\ UNCHANGED executor
    /\ UNCHANGED <<flags, slots, work_pc, deactivate_pc>>

(* handle_cancel accepts and releases update_mutex_.  (A request for a     *)
(* handle that is not active is rejected and changes nothing.)             *)
handle_cancel(g) ==
    /\ ExecutorRuns
    /\ executor = Idle
    /\ goal_status[g] \in Active
    /\ executor' = [op |-> "cancel", goal |-> g]
    /\ UNCHANGED <<goal_status, flags, slots, work_pc, deactivate_pc>>

(* rclcpp_action then moves the handle to CANCELING, without update_mutex_;*)
(* a handle that is no longer executing makes it answer REJECT instead.    *)
cancel_goal ==
    /\ executor.op = "cancel"
    /\ goal_status' = IF goal_status[executor.goal] = "executing"
                      THEN [goal_status EXCEPT ![executor.goal] = "canceling"]
                      ELSE goal_status
    /\ executor' = Idle
    /\ UNCHANGED <<flags, slots, work_pc, deactivate_pc>>

(* Fault: a goal that is pending is overwritten.                           *)
handle_accepted_overwrites ==
    /\ executor.op = "accepted"
    /\ is_active(current_handle) \/ is_running
    /\ pending_handle' = executor.goal
    /\ preempt_requested' = TRUE
    /\ executor' = Idle
    /\ UNCHANGED <<goal_status, current_handle, flags, work_pc, deactivate_pc>>

(* handle_accepted while a goal is active or work() has not returned: the  *)
(* goal takes the pending slot, and a goal already there is terminated.    *)
handle_accepted_pending ==
    /\ executor.op = "accepted"
    /\ is_active(current_handle) \/ is_running
    /\ terminate({pending_handle})
    /\ pending_handle' = executor.goal
    /\ preempt_requested' = TRUE
    /\ executor' = Idle
    /\ UNCHANGED <<current_handle, flags, work_pc, deactivate_pc>>

(* Fault: handle_accepted does not ask whether the worker is running.      *)
handle_accepted_launches_twice ==
    /\ executor.op = "accepted"
    /\ ~ is_active(current_handle)
    /\ terminate({pending_handle})
    /\ pending_handle' = reset(pending_handle)
    /\ preempt_requested' = (preempt_requested /\ ~ is_active(pending_handle))
    /\ current_handle' = executor.goal
    /\ work_pc' = "check_stop"
    /\ executor' = Idle
    /\ UNCHANGED <<flags, deactivate_pc>>

(* handle_accepted otherwise: an active pending goal is terminated, the    *)
(* new goal becomes current and std::async starts a worker.                *)
handle_accepted_launch ==
    /\ executor.op = "accepted"
    /\ ~ (is_active(current_handle) \/ is_running)
    /\ terminate({pending_handle})
    /\ pending_handle' = reset(pending_handle)
    /\ preempt_requested' = (preempt_requested /\ ~ is_active(pending_handle))
    /\ current_handle' = executor.goal
    /\ work_pc' = "check_stop"
    /\ executor' = Idle
    /\ UNCHANGED <<flags, deactivate_pc>>

(* rclcpp_action forgets a goal some time after its result.                *)
expire_goal(g) ==
    /\ ExecutorRuns
    /\ executor = Idle
    /\ goal_status[g] \in Terminal \cup {"rejected"}
    /\ goal_status' = [goal_status EXCEPT ![g] = "unknown"]
    /\ UNCHANGED <<flags, slots, executor, work_pc, deactivate_pc>>

ExecutorStep == cancel_goal \/ handle_accepted_pending \/ handle_accepted_launch

ClientStep == \E g \in Goals : handle_goal(g) \/ handle_cancel(g) \/ expire_goal(g)

-----------------------------------------------------------------------------
(* The worker thread.                                                      *)

(* Fault: the loop looks at the goal only.                                 *)
work_check_stop_never ==
    /\ work_pc = "check_stop"
    /\ work_pc' = "check_current"
    /\ UNCHANGED <<goal_status, flags, slots, executor, deactivate_pc>>

(* The while condition of work(), read without update_mutex_.              *)
work_check_stop ==
    /\ work_pc = "check_stop"
    /\ work_pc' = IF stop_execution THEN "exiting" ELSE "check_current"
    /\ UNCHANGED <<goal_status, flags, slots, executor, deactivate_pc>>

work_check_current ==
    /\ work_pc = "check_current"
    /\ work_pc' = IF is_active(current_handle) THEN "callback" ELSE "exiting"
    /\ UNCHANGED <<goal_status, flags, slots, executor, deactivate_pc>>

(* The execute callback calls a method that changes the goals...           *)
callback_call ==
    /\ work_pc = "callback"
    /\ \/ accept_pending_goal
       \/ terminate_pending_goal
       \/ terminate_all
       \/ terminate_current
       \/ succeeded_current
    /\ UNCHANGED <<flags, executor, work_pc, deactivate_pc>>

(* ... publishes feedback: publish_feedback() tests the handle and then    *)
(* uses it, without update_mutex_ ...                                      *)
publish_feedback_check ==
    /\ work_pc = "callback"
    /\ is_active(current_handle)
    /\ work_pc' = "feedback"
    /\ UNCHANGED <<goal_status, flags, slots, executor, deactivate_pc>>

publish_feedback_use ==
    /\ work_pc = "feedback"
    /\ work_pc' = "callback"
    /\ UNCHANGED <<goal_status, flags, slots, executor, deactivate_pc>>

(* ... and returns, or throws.                                             *)
callback_return ==
    /\ work_pc = "callback"
    /\ work_pc' = "finish"
    /\ UNCHANGED <<goal_status, flags, slots, executor, deactivate_pc>>

callback_throw ==
    /\ work_pc = "callback"
    /\ work_pc' = "catch"
    /\ UNCHANGED <<goal_status, flags, slots, executor, deactivate_pc>>

(* The catch clause of work() terminates all goals and returns.            *)
work_catch ==
    /\ work_pc = "catch"
    /\ terminate_all
    /\ work_pc' = "exiting"
    /\ UNCHANGED <<flags, executor, deactivate_pc>>

(* Fault: a goal the callback left active is forgotten.                    *)
work_finish_forgets ==
    /\ work_pc = "finish"
    /\ \/ /\ stop_execution
          /\ terminate_all
          /\ work_pc' = "exiting"
       \/ /\ ~ stop_execution
          /\ UNCHANGED goal_status
          /\ IF is_active(pending_handle)
             THEN /\ current_handle' = pending_handle
                  /\ pending_handle' = NoGoal
                  /\ preempt_requested' = FALSE
                  /\ work_pc' = "check_stop"
             ELSE /\ current_handle' = current_handle
                  /\ work_pc' = "exiting"
                  /\ UNCHANGED <<pending_handle, preempt_requested>>
    /\ UNCHANGED <<flags, executor, deactivate_pc>>

(* The critical section at the end of the loop's body: stop; or terminate  *)
(* a goal the callback left active, then go on with the pending goal; or   *)
(* leave the loop.                                                         *)
work_finish ==
    /\ work_pc = "finish"
    /\ \/ /\ stop_execution
          /\ terminate_all
          /\ work_pc' = "exiting"
       \/ /\ ~ stop_execution
          /\ terminate({current_handle})
          /\ IF is_active(pending_handle)
             THEN /\ current_handle' = pending_handle
                  /\ pending_handle' = NoGoal
                  /\ preempt_requested' = FALSE
                  /\ work_pc' = "check_stop"
             ELSE /\ current_handle' = reset(current_handle)
                  /\ work_pc' = "exiting"
                  /\ UNCHANGED <<pending_handle, preempt_requested>>
    /\ UNCHANGED <<flags, executor, deactivate_pc>>

(* work() returns after releasing update_mutex_; only then is the future   *)
(* ready and is_running() false.                                           *)
work_exit ==
    /\ work_pc = "exiting"
    /\ work_pc' = "done"
    /\ UNCHANGED <<goal_status, flags, slots, executor, deactivate_pc>>

CallbackStep == callback_call \/ publish_feedback_check \/ callback_throw

WorkStep == \/ work_check_stop \/ work_check_current \/ publish_feedback_use
            \/ callback_return \/ work_catch \/ work_finish \/ work_exit

-----------------------------------------------------------------------------
(* The lifecycle thread.  rclcpp_lifecycle activates an inactive node only *)
(* (which is all the guard of activate says); deactivate() is also called  *)
(* after an activation that has failed half-way.                           *)

LifecycleRuns == SpinThread \/ executor = Idle

activate ==
    /\ LifecycleRuns
    /\ deactivate_pc = "idle"
    /\ ~ server_active
    /\ server_active' = TRUE
    /\ stop_execution' = FALSE
    /\ UNCHANGED <<goal_status, slots, executor, work_pc, deactivate_pc>>

deactivate ==
    /\ LifecycleRuns
    /\ deactivate_pc = "idle"
    /\ server_active' = FALSE
    /\ stop_execution' = TRUE
    /\ deactivate_pc' = "stopped"
    /\ UNCHANGED <<goal_status, slots, executor, work_pc>>

(* Fault: it waits also when there is no future.                           *)
deactivate_waits_for_nothing ==
    /\ deactivate_pc = "stopped"
    /\ deactivate_pc' = "waiting"
    /\ UNCHANGED <<goal_status, flags, slots, executor, work_pc>>

(* No future: nothing was ever executed, and deactivate() returns.         *)
deactivate_check_future ==
    /\ deactivate_pc = "stopped"
    /\ deactivate_pc' = IF work_pc = "none" THEN "idle" ELSE "waiting"
    /\ UNCHANGED <<goal_status, flags, slots, executor, work_pc>>

(* wait_for says ready ...                                                 *)
deactivate_ready ==
    /\ deactivate_pc = "waiting"
    /\ work_pc = "done"
    /\ deactivate_pc' = "idle"
    /\ UNCHANGED <<goal_status, flags, slots, executor, work_pc>>

(* ... or it does not and server_timeout_ has passed: all goals are        *)
(* terminated under the running callback, and the wait goes on.            *)
deactivate_timeout ==
    /\ deactivate_pc = "waiting"
    /\ is_running
    /\ deactivate_pc' = "expired"
    /\ UNCHANGED <<goal_status, flags, slots, executor, work_pc>>

(* Fault: deactivate() gives up after the deadline.                        *)
deactivate_gives_up ==
    /\ deactivate_pc = "expired"
    /\ terminate_all
    /\ deactivate_pc' = "idle"
    /\ UNCHANGED <<flags, executor, work_pc>>

deactivate_terminate_all ==
    /\ deactivate_pc = "expired"
    /\ terminate_all
    /\ deactivate_pc' = "waiting"
    /\ UNCHANGED <<flags, executor, work_pc>>

DeactivateStep == \/ deactivate_check_future \/ deactivate_ready
                  \/ deactivate_terminate_all

-----------------------------------------------------------------------------

Init ==
    /\ goal_status = [g \in Goals |-> "unknown"]
    /\ server_active = FALSE
    /\ stop_execution = FALSE
    /\ preempt_requested = FALSE
    /\ current_handle = NoGoal
    /\ pending_handle = NoGoal
    /\ executor = Idle
    /\ work_pc = "none"
    /\ deactivate_pc = "idle"

Next ==
    \/ ClientStep
    \/ ExecutorStep
    \/ CallbackStep
    \/ WorkStep
    \/ activate
    \/ deactivate
    \/ deactivate_timeout
    \/ DeactivateStep

Spec == Init /\ [][Next]_vars

(* Each thread goes on with what it has begun, and the execute callback    *)
(* returns in the end, however often it publishes feedback (and so leaves  *)
(* the point where it can return) before.  Nothing is assumed of clients,  *)
(* of activate() and deactivate(), or of what else the callback calls.     *)
Fairness ==
    /\ WF_vars(ExecutorStep)
    /\ WF_vars(WorkStep)
    /\ SF_vars(callback_return)
    /\ WF_vars(DeactivateStep)

FairSpec == Spec /\ Fairness

-----------------------------------------------------------------------------
(* Properties.                                                             *)

(* The two slots and the preemption flag always agree: a handle that is    *)
(* stored is active, no goal is in both slots, and preempt_requested_ is   *)
(* set exactly while a goal is pending.  Callbacks test the flag and then  *)
(* take the goal.                                                          *)
SlotsConsistent ==
    /\ current_handle # NoGoal => goal_status[current_handle] \in Active
    /\ pending_handle # NoGoal => goal_status[pending_handle] \in Active
    /\ current_handle # NoGoal => current_handle # pending_handle
    /\ preempt_requested <=> pending_handle # NoGoal

(* No goal is lost: a goal the client still sees as active is in one of    *)
(* the two slots, or is the one the executor is about to store.            *)
NoGoalLost ==
    \A g \in Goals :
      goal_status[g] \in Active =>
        \/ g \in {current_handle, pending_handle}
        \/ executor = [op |-> "accepted", goal |-> g]

(* The handle the executor is about to store is active and in neither slot *)
(* (with the above, the inductive invariant of the server).                *)
AcceptedInHand ==
    executor.op = "accepted" =>
      /\ goal_status[executor.goal] \in Active
      /\ executor.goal \notin {current_handle, pending_handle}

IndInv == TypeOK /\ SlotsConsistent /\ NoGoalLost /\ AcceptedInHand

(* After deactivate() has returned the execute callback is not running,    *)
(* and does not run again before activate(): not even for a goal that was  *)
(* accepted before and whose handle_accepted comes after the deactivation. *)
(* on_cleanup destroys what the callback uses.                             *)
QuietWhenDeactivated ==
    ~ server_active /\ deactivate_pc = "idle"
      => work_pc \notin {"callback", "feedback", "catch", "finish"}

(* ... and what makes it inductive: both flags are set for as long as      *)
(* deactivate() waits; a server that was activated before is either active *)
(* or told to stop; and a worker that got past stop_execution_ is waited   *)
(* for.                                                                    *)
StopInv ==
    /\ deactivate_pc # "idle" => ~ server_active /\ stop_execution
    /\ ~ server_active /\ ~ stop_execution => work_pc = "none" /\ executor.op # "accepted"
    /\ ~ server_active /\ deactivate_pc = "idle"
         => work_pc \notin {"check_current", "callback", "feedback", "catch", "finish"}

(* publish_feedback() tests the handle and uses it later, without the      *)
(* mutex.  The goal can have ended in between, and the handle be null,     *)
(* only by a deactivation that lost its patience and is still waiting.     *)
FeedbackLostOnlyByDeactivation ==
    work_pc = "feedback" /\ ~ is_active(current_handle) => deactivate_pc # "idle"

(* While the execute callback runs, the current goal is its own: another   *)
(* thread may terminate it, but it is only ever replaced by the goal that  *)
(* was pending.  succeeded_current() names no goal and relies on this.     *)
CallbackKeepsItsGoal ==
    [][(work_pc \in {"callback", "feedback", "catch", "finish"})
         => current_handle' \in {current_handle, pending_handle, NoGoal}]_vars

G(g) == INSTANCE GoalProtocol WITH state <- goal_status[g]

(* No method asks rclcpp_action for an illegal transition of a handle      *)
(* (which would throw while update_mutex_ is held), and a result a client  *)
(* was told is final: every goal follows the protocol.                     *)
GoalsFollowProtocol ==
    /\ \A g \in Goals : G(g)!Init
    /\ [][\A g \in Goals : [G(g)!Next]_(goal_status[g])]_goal_status

(* deactivate() returns: the worker it waits for needs update_mutex_ and   *)
(* nothing else from the waiting thread.                                   *)
DeactivateReturns == deactivate_pc = "stopped" ~> deactivate_pc = "idle"

(* A goal the execute callback has been called for gets a result, whatever *)
(* the callback calls and however it ends.                                 *)
ExecutedGoalEnds ==
    \A g \in Goals :
      (work_pc = "callback" /\ current_handle = g) ~> goal_status[g] \notin Active

(* "Forgot to handle a preemption. Terminating the pending goal.": work()  *)
(* takes every pending goal before it ends, so handle_accepted should      *)
(* never meet one.                                                         *)
PreemptionNeverForgotten ==
    ~ (/\ executor.op = "accepted"
       /\ ~ is_active(current_handle)
       /\ ~ is_running
       /\ is_active(pending_handle))

(* "Deactivation completed.": a server that has been deactivated, and in   *)
(* which no thread is left that could terminate one, holds no active goal. *)
DeactivationCompletes ==
    (/\ ~ server_active /\ deactivate_pc = "idle"
     /\ executor = Idle /\ ~ is_running)
      => \A g \in Goals : goal_status[g] \notin Active
=============================================================================
