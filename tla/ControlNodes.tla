---------------------------- MODULE ControlNodes ----------------------------
(***************************************************************************)
(* The control nodes of nav3d_behavior_tree/plugins/control: what tick()   *)
(* and halt() do to the data members of one of them, whatever its children *)
(* answer.  BtTrees puts the nodes into trees.                             *)
(***************************************************************************)
EXTENDS Integers

(***************************************************************************)
(* PipelineSequence, with children 1 to n.                                 *)
(***************************************************************************)
PipelineSequence_members == 1  \* last_child_ticked_

\* Fault: a child that is reached again does not stop the pipeline.
pipeline_stops_late(last, i) == i > last
\* Fault: an earlier child that runs again stops it, too.
pipeline_stops_at_any(last, i) == TRUE
\* A RUNNING child ends the tick unless the pipeline was already further on.
pipeline_stops(last, i) == i >= last

\* What last_child_ticked_ and the child whose turn it is may be after an answer of
\* that child, or after a halt().  passed is history: the children that have
\* succeeded or been skipped since the node was last reset.
PipelineSequence_steps(t, n) ==
  LET after(last, i, passed) == [last |-> last, i |-> i, passed |-> passed]
  IN {after(PipelineSequence_members, 1, {})}
     \cup IF t.i > n THEN {}
          ELSE {after(t.last, t.i + 1, t.passed \cup {t.i}),
                IF pipeline_stops(t.last, t.i) THEN after(t.i, 1, t.passed)
                ELSE after(t.last, t.i + 1, t.passed)}

\* A child is ticked only when every earlier one has passed.
PipelineInOrder(t) == \A k \in 1 .. t.i - 1 : k \in t.passed
-----------------------------------------------------------------------------
(***************************************************************************)
(* RecoveryNode.  failed and recovered are history: the failures of the    *)
(* first child and the successes of the second since the node last         *)
(* answered something else than RUNNING.                                   *)
(***************************************************************************)
RecoveryNode_members == [idx |-> 1, retry |-> 0, failed |-> 0, recovered |-> 0]

\* The loop of the tick goes on.
recovery_in_loop(m, retries) == m.retry <= retries

\* Fault: one retry too many.
recovery_left_off_by_one(m, retries) == m.retry <= retries
\* There is a retry left: the recovery child may run.
recovery_left(m, retries) == m.retry < retries

\* The first child has failed and the second one is next.
recovery_begins(m) == [m EXCEPT !.idx = 2, !.failed = @ + 1]
\* The second child was skipped: FAILURE, but retry_count_ is kept.
recovery_skipped(m) == [m EXCEPT !.idx = 1, !.failed = 0, !.recovered = 0]
\* The second child has succeeded: the first one gets another chance.
recovery_succeeds(m) == [m EXCEPT !.idx = 1, !.retry = @ + 1, !.recovered = @ + 1]

\* What the members may be after an answer of a child, or after a halt().
RecoveryNode_steps(m, retries) ==
  {m, RecoveryNode_members}
  \cup (IF m.idx = 1 /\ recovery_in_loop(m, retries) /\ recovery_left(m, retries)
        THEN {recovery_begins(m)} ELSE {})
  \cup (IF m.idx = 2 /\ recovery_in_loop(m, retries)
        THEN {recovery_skipped(m), recovery_succeeds(m)} ELSE {})

\* The first child is given at most number_of_retries further chances.
RecoveryBounded(m, retries) == m.failed <= retries /\ m.recovered <= retries
-----------------------------------------------------------------------------
(***************************************************************************)
(* RoundRobinNode, with children 1 to n.  tried is history: the children   *)
(* that have failed or been skipped in this round.  The children that are  *)
(* skipped are counted in a variable of the tick.                          *)
(***************************************************************************)
RoundRobin_members == [idx |-> 1, failed |-> 0, tried |-> {}]

\* The child has ended and the next one is up.
round_robin_ended(m, n, r) ==
  [idx |-> (m.idx % n) + 1,
   failed |-> m.failed + (IF r = "FAILURE" THEN 1 ELSE 0),
   tried |-> m.tried \cup {m.idx}]

\* Fault: a success does not reset the count of failures.
round_robin_success_keeps_count(m) == [m EXCEPT !.tried = {}]
\* A success starts a new round at the next child.
round_robin_success(m) == [m EXCEPT !.failed = 0, !.tried = {}]

\* The loop of the tick ends without a success.
round_robin_gives_up(m, skipped, n) == m.failed + skipped >= n

\* What the members and the count of the tick may be after an answer of a child,
\* or after a halt().  RUNNING and SUCCESS end the tick.
RoundRobin_steps(t, n) ==
  LET after(mem, skipped) == [mem |-> mem, skipped |-> skipped]
  IN {after(RoundRobin_members, 0)}
     \cup IF round_robin_gives_up(t.mem, t.skipped, n) THEN {}
          ELSE {after(t.mem, 0),
                after(round_robin_success(round_robin_ended(t.mem, n, "SUCCESS")), 0),
                after(round_robin_ended(t.mem, n, "FAILURE"), t.skipped),
                after(round_robin_ended(t.mem, n, "SKIPPED"), t.skipped + 1)}

\* The node gives up only when every child was tried in this round.
RoundComplete(t, n) == round_robin_gives_up(t.mem, t.skipped, n) => t.mem.tried = 1 .. n
=============================================================================
