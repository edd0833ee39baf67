# A formal model of nav3d

nav3d is a navigation stack for drones on ROS 2. A behaviour-tree navigator asks a planner
for a path, hands it to a controller, the controller streams trajectory points, and a bridge
turns them into PX4 offboard setpoints. A lifecycle manager brings the servers up and down and
watches them. This directory holds TLA+ models of the parts that carry the control logic, the TLC
configurations that check them and the TLAPS proofs of what holds for every instance.

Contents: [inventory](#inventory) · [modules](#modules) · [runs](#runs-and-bounds) ·
[fairness](#fairness) · [proofs](#proofs) · [disagreements](#where-the-code-and-its-messages-disagree) ·
[limits](#what-is-not-modelled) · [plan](#plan)

## Inventory

| Part | State it keeps | Operations | Hard because |
|---|---|---|---|
| `nav3d_util::SimpleActionServer` (`simple_action_server.hpp`) | current and pending goal handle, preempt flag, active/stop flags, worker future | `handle_goal`, `handle_cancel`, `handle_accepted`, `work`, `activate`, `deactivate`, the methods of the execute callback | three threads; the worker loop and `publish_feedback` read without the mutex; a deactivation that loses patience |
| `nav3d_controller::ControllerServer` | timed path, waypoint index, filter state | `computeControl`, `generateTimedTrajectory`, `getCurrentCommand`, `isGoalReached`, speed limit | a loop that ends only with the flight; preemption while looping; the path outlives goals |
| `nav3d_planner::PlannerServer` and the MoveIt plugin | planner plugins and whether they are active | `computePlan`, `is_path_valid`, lifecycle callbacks | long planning between reading a goal and reporting on it; plugin and action server are (de)activated separately |
| `nav3d_lifecycle_manager::LifecycleManager` | system state, bonds, timers, service clients | startup, shutdown, reset, pause, resume, bond check, respawn check | servers crash at any point of a loop over them; exceptions cut loops short; requests without a timeout |
| `nav3d_px4_bridge::OffboardControl` | odometry, waypoint and its age, hover point, take-off target, counters | `odomCallback`, `waypointCallback`, `vehicleStatusCallback`, `timerCallback` | best-effort messages, a stream that may have no gap, warm-up and retries |
| `nav3d_behavior_tree`: `BtActionServer`, `BehaviorTreeEngine` | the tree, the blackboard, the error codes | `executeCallback`, `run`, `loadBehaviorTree`, lifecycle callbacks | a loop that ends only with the tree; error codes outlive goals |
| `nav3d_behavior_tree`: client nodes (`BtActionNode`, `BtCancelActionNode`) and the action plugins made of them | goal handle, future of the acceptance, result, flags | `tick`, `halt`, result and feedback callbacks | client-side timeouts race late answers; callbacks run inside every spin |
| `nav3d_behavior_tree`: control nodes, decorators, conditions | child index, counters, timers, the last goal or path seen | `tick`, `halt` | state that survives a halt, a skip or the end of a navigation; a pipeline that ticks on past a running child |
| `nav3d_behavior_tree`, `nav3d_util`, MoveIt plugin: algorithms on paths | search position on the path | truncate, resample, cap, select, sample, remaining distance, walk along the timed path | empty and single-pose paths, equal poses, indices at both ends |
| `nav3d_controller/plugins`: goal and progress checkers | latch, baseline pose and time, parameters | `isGoalReached`, `check`, `reset`, parameter callbacks | what is remembered of one goal answers for the next |
| `nav3d_bt_navigator`, `nav3d_core::BehaviorTreeNavigator`, `NavigatorMuxer` | which navigator runs, goal on the blackboard | `goalReceived`, `onLoop`, `onPreempt`, `goalCompleted` | check-then-start; a pending goal is accepted before it is known to be usable |
| `vio_odometry_bridge`, `lifecycle_manager_client`, other utilities | none that matters | conversions, one request per call | – |
| messages, launch files, parameters | – | – | – |

How they interact. The BT navigator (an action server without an executor thread of its own) is
a client of the planner's `compute_path_to_pose` and the controller's `follow_path` servers, both
`SimpleActionServer`s with a thread of their own and a 500 ms patience. The controller publishes
trajectory points on a best-effort topic, read by `OffboardControl`. The lifecycle manager moves
the three servers through their lifecycle with services and watches a heartbeat (bond) of each;
`on_activate`/`on_deactivate` of a server call `activate()`/`deactivate()` of its action server.

What makes each part correct:

* action server – every accepted goal has someone who will end it; its status follows the action
  protocol; a deactivated server runs no callback; `deactivate()` returns;
* controller – follows and reports the goal it is executing; cancellation and deactivation end the
  loop;
* planner – the result belongs to the goal it is sent to; no plan of an inactive plugin;
* lifecycle manager – what is reported active is active and watched; dependency order; crashes are
  noticed and the system is stopped and restarted;
* offboard bridge – no gap in the stream, warm-up before commands, hover at the last point, and
  the vehicle is engaged in the end;
* navigator and BT action server – the goal the tree works on is the one that is reported on, or
  the report says that it is not; errors are those of this goal; the muxer is released; the loop
  ends when it is told to;
* client nodes – no null handle is used; the answer of a node is the result of the goal it sent
  last; no goal it knows of is left running; a node that is ticked ends;
* trees – no action runs on under a node that has ended; retries are bounded; a round is complete;
  what is followed was planned, and planned for the current goal;
* path tools and checkers – each result is what the port or parameter promises, on every path and
  for every history.

`PROJECT.json` lists the hazards line by line with the properties that cover them.

## Modules

| Module | Models | Extends / composes |
|---|---|---|
| `GoalProtocol` | the goal state machine of rcl_action: what any action server promises for one goal (abstract) | – |
| `SimpleActionServer` | the action server with an arbitrary execute callback | instantiates `GoalProtocol` for each goal |
| `ControllerServer` | `computeControl()` in place of the arbitrary callback | extends and refines `SimpleActionServer` |
| `PlannerServer` | `computePlan()`, and the plugin's activation | extends and refines `SimpleActionServer` |
| `LifecycleManager` | the manager, its servers' lifecycle states and bonds | – |
| `OffboardControl` | the bridge, the command link and the vehicle's modes | – |
| `BtNavigator` | a navigator, its `BtActionServer`, the engine's loop and the muxer | extends and refines `SimpleActionServer` |
| `BtActionNode` | the client of an action server that a tree ticks, the cancel node, the server and network as the client sees them | – |
| `ControlNodes` | the data members of `PipelineSequence`, `RecoveryNode` and `RoundRobin`, whatever the children answer | – |
| `BtTrees` | the nodes of a tree and the trees of the repository, ticked as the engine does | extends `ControlNodes`; its actions are what `BtActionNode` promises |
| `PathTools` | the algorithms on paths, with the reference definitions they are checked against | – |
| `Checkers` | the goal and progress checkers and the two conditions that ask the same | – |
| `Plugins` | `BtTrees`, `PathTools` and `Checkers` side by side, one of them the subject of a behaviour | extends the three |
| `*Proofs` | theorems about the module of that name (`PluginsProofs`: about `PathTools`, `ControlNodes` and `Checkers`) | extends it and `TLAPS` |

Conventions. A definition has the name of the function it models; a function that gives up the
mutex in the middle is split where it does, with the function's name as prefix. Operators with the
comment "Fault:" are wrong variants of the definition below them (a dropped guard, a missing
reset); no specification uses them, and replacing the definition by its variant must break the
property named in `PROJECT.json`. Properties that quote a message of the code are the ones the
code does not keep.

**SimpleActionServer.** One action is one critical section of `update_mutex_` or one unlocked
read. `goal_status` is the state of the handles inside rclcpp_action; an id is used again after it
expired, so the model runs for ever with few goals. `executor` is the callback the executor thread
is in: `handle_goal` answers, and `handle_accepted` takes the mutex again later; in the same way
`handle_cancel` accepts, and rclcpp_action moves the handle to CANCELING afterwards without the
mutex. `work_pc` is the position of `work()` and also the state of `execution_future_`
(`is_running()` is false only at "none" and "done"). `deactivate_pc` is the position of
`deactivate()`; `deactivate_timeout` is its patience running out, at any time.
With `SpinThread = FALSE` the executor and the lifecycle callbacks are one thread.
The callback is any sequence of calls to the public methods followed by a return or a throw.
Unlocked accesses to `stop_execution_`, `current_handle_` and `execution_future_` are data races in
the C++ sense; each is one atomic read in the model. `terminate()` tests `is_canceling()` and then
aborts; a cancellation arriving exactly in between gives the same final status as one that
arrives after it.

**ControllerServer, PlannerServer.** The callback is replaced by the code's, one step per call on
the action server. A path is known by the goal it belongs to; whether poses can be transformed,
the vehicle has arrived, or a plan is found is up to the environment. A null goal in
`computePlan()` is dereferenced outside its try block: the process ends ("crashed"), which is why
those runs do not check for deadlock.

**BtNavigator.** `executeCallback()` runs on the worker of an action server without an executor
thread of its own (`SpinThread = FALSE`), split where it calls the server. The tree is what a tick may
return and the lowest error code its nodes may have left on the blackboard; what trees do is the subject of
`BtTrees`. `bb_goal` is the goal whose pose is on the blackboard: comparing it with
`current_handle` is how the model sees that the tree works for another goal than the server reports
on. The other navigator is a process that asks the muxer, starts and stops. A null goal given to
a callback ends the process ("crashed"), except where the navigator first misses the robot's own pose.
`internal_owner` and `node_owner` are history variables, read by no guard: they say whose the error
codes are (this goal, one preempted in this run of `executeCallback()`, an earlier run, an activation).

**BtActionNode.** The tree's thread is in `tick()` or `halt()`; the callbacks of the client run only at
the points where that thread spins the node's executor (`Spinning`). A request is answered, and
the answer delivered, at any later time or not within the time limit; results, status messages and
acceptances come in any order. `plugin` is the derived class: what its callbacks do to the error code
and the path port, and whether it watches its inputs. Ids are used again once nobody refers to
them.

**BtTrees.** `executeTick` maps a state of the tree to the set of its outcomes, because leaves may
answer in several ways; a control node folds over its children exactly in the order the code does.
`Shape` has the seven trees of `behavior_trees/`, and small trees for the nodes that none of them
uses. Sequence, ReactiveSequence, ReactiveFallback and Inverter belong to BehaviorTree.CPP and are marked
external. Time and travelled distance advance in units between ticks. What the three control nodes of
the repository do to their counters is in `ControlNodes`, apart from the recursion over the tree; there
`X_steps` is everything that an answer of a child, or a halt, may do to the members of an `X`.

**PathTools, Checkers.** The tools see only distances, so a pose is a point of a line; `call` holds
the last call with its arguments and result, which the property compares with the reference. A loop
along a path is a recursive function on its indices, or the first index of a set where the loop only
looks for one.
A checker sees a pose relative to the goal (horizontal distance, height, quarter turns).

**LifecycleManager.** The manager's services and timers are in one mutually exclusive callback
group, so there is one operation at a time: `op`, the number of the `changeStateForAllNodes` it is
in (`phase`), the position in its loop (`pos`) and the request under way (`call`). Between any two
of these steps servers may crash, be respawned, lose heartbeats. `Faults` adds failing transitions,
late answers and bonds that are not formed in time. A request whose server dies is "lost": the
code waits without a timeout.

**OffboardControl.** Time is counted in timer periods; `waypoint_age` and `command_age` stop at the
limit they are compared with, which loses nothing. Of a pose the altitude is kept, and the take-off
tolerance is equality on it.

## Runs and bounds

| Run | Shows | Distinct states |
|---|---|---|
| `SimpleActionServer` | `SlotsConsistent`, `NoGoalLost`, `QuietWhenDeactivated`, `FeedbackLostOnlyByDeactivation`, `CallbackKeepsItsGoal`, `GoalsFollowProtocol`, `DeactivateReturns`, `ExecutedGoalEnds`; three goals, any callback | 53 569 |
| `ControllerServer` | `SucceedsOnOwnPath`, `ControlImplementsServer`, `CancelHonoured`, `ControlDeactivates` | 140 826 |
| `PlannerServer` | `NullGoalOnlyByDeactivation`, `SucceedsWithOwnPlan`, `PlanImplementsServer`, `PlannedGoalEnds` | 178 200 |
| `LifecycleManager` | `Monitored`, `DependencyOrder`, `ActiveWhenReported`, `CrashDetected` | 489 992 |
| `OffboardControl` | `StreamHasNoGap`, `HoverHoldsPosition`, `EngagedInTheEnd` | 55 000 |
| `BtNavigator` | `MistrackedGoalHasError`, `ErrorsAreOfThisRun`, `MuxerReleased`, `NavImplementsServer`, `NavigationStops` | 327 739 |
| `BtActionNode` | `NoNullHandle`, `ResultIsOfLastGoal`, `KnownGoalNotAbandoned`, `RunningEnds` | 110 085 |
| `Plugins` | trees: `FollowsComputedPath`, `NavigationEnds`, `NoOrphanedAction`, `RecoveriesBounded`, `RoundIsComplete`, `ReplansInTime`; paths: `PathToolsCorrect`; checkers: `AnswersAreOfThisGoal` | 53 844 |

and four runs that must end in a counterexample, below.

Bounds. Three goals fill both slots and leave one arriving; in the controller one of them has an
empty path. The bare server runs with an executor thread of its own, as in the planner and the
controller; without one, where the executor stands still while `deactivate()` waits, it is part of
`BtNavigator`. The navigator and the client node have two goals at a time, enough for one
executing and one pending, or one running on and one sent anew: ids are used again after they expired. Three nodes have a
first, a middle and a last one, so that a crash can have nodes on both sides; `MaxCrashes = 2`
allows a crash during the handling of another. `MaxCrashes` and `MaxDrops` are the only counters
that are cut off. In `OffboardControl` altitudes 0, 1 and 3 with a take-off altitude of 1 give a
target that is reached, one that is missed and a waypoint elsewhere; timeouts and warm-up of two
periods distinguish before, at and after each limit. Trees are as large as the repository's; a period of
two units has a tick before, at and after its end, two retries a first, a last and one too many,
two goals one to come from and one to go to. Paths of up to four poses on three coordinates have
repeated poses, turns and both ends apart from the middle; every tool is called on every such
path with arguments below, at and above what the path allows. The two tolerances and a span of one
put a pose inside, on and outside a window.

Deadlock is not checked where the system may really stop: a manager without commands or
waiting for a lost answer, and a process that a null goal has ended (planner, navigator).

## Fairness

* Action server: weak fairness of the executor inside a callback, of the worker's own steps, and
  of `deactivate()` – threads are scheduled. Of the callback it is assumed that it returns or throws
  in the end (`SimpleActionServer`), and for the controller not even that: its liveness runs assume
  only that the loop goes round, not that the vehicle arrives.
* Planner: `createPlan` returns, which the planning time limit bounds.
* Lifecycle manager: its thread goes on unless the answer it waits for is lost, a bond without
  heartbeats breaks, the bond timer fires (strong fairness: the executor takes expired timers before
  service requests, so requests cannot starve it). For the respawn run also: the respawn timer fires and
  launch restarts the process.
* Bridge: the timer fires, the vehicle reports its status, and of a command that is sent again and
  again one gets through (strong fairness of its arrival; a best-effort link that loses every
  message for ever can promise nothing).
* Navigator: the worker goes on (a tick returns, because the nodes wait with timeouts) and so does
  `deactivate()`; the tree may answer RUNNING for ever.
* Client node: the tree ticks a running node, the server handles what it is asked in its own
  time, an answer comes or is given up after `server_timeout_`, and a result whose delivery is possible again
  and again is delivered (strong fairness: the node is spun in every tick, but not between them).
* Trees: the loop turns and time passes; an action that is ticked again and again ends again and again, which
  is what `RunningEnds` shows of the client nodes. The paths and checkers have no liveness.
* Clients are never assumed to do anything.

## Proofs

All theorems hold for every value of the constants that satisfies the named assumptions: any set
of goals (`NoGoalAssumption` makes the null handle different from them), any number of nodes above
zero, any periods with `WaypointTimeout` and `RetryPeriod` at least one, any bound above zero on the poses
of a navigation, any span of poses and any non-empty sets of natural tolerances and allowances, any
length of paths and any coordinates, any number of children and of retries.

* `SimpleActionServerProofs`. `IndInv` = `TypeOK`, `SlotsConsistent`, `NoGoalLost` and
  `AcceptedInHand`. `NoGoalLost` alone is not inductive: when `handle_accepted` files a goal, one
  must know that the goal in its hand is in neither slot. The methods of the class are used by
  four actors, so one lemma per method shows what it preserves (`MethodPost`), and the actions cite
  it. `StopInv` relates the stop flag, the deactivation and the worker and gives
  `QuietAfterDeactivation`; `FeedbackExplained` is inductive on top of `IndInv`. `ProtocolImplemented` shows that each step is, for each goal, a step of
  `GoalProtocol` or a stutter; `CallbackOwnsItsGoal` is an action property.
* `ControllerServerProofs`, `PlannerServerProofs`. First the refinement (`ControlSpec => Spec`,
  `PlanSpec => Spec`), which brings the server's invariants; then `ControlInv` and `PlanInv`,
  which add what the callback's local goal and path have to do with the current handle at each
  point. They need `StopInv`: only with it is a goal that vanished known to be the work of a
  deactivation that has not ended. The success properties follow from them step by step.
* `LifecycleManagerProofs`. `IndInv` = `TypeOK`, `Monitored`, `StoppedFirst`, `BondsSoFar`:
  an operation that takes bonds away has first cleared `system_active_`, and an activate loop
  leaves a bond behind for each node it passed. `OrderInv` says what the two loops leave behind
  them: every node before the position of an activate loop is active or has died since
  (`ActiveOrDied`), none after that of a deactivate loop (it runs backwards) is active. Crashes and
  respawns only make active nodes died ones, so that it survives them; from it the action properties
  `DependencyOrder` and, with `BondsSoFar` for the bond of a node that died, `ActiveWhenReported`
  follow step by step. That the death is then noticed is `CrashDetected`, which is model-checked.
* `BtNavigatorProofs`. The refinement `NavSpec => Spec`, action by action, then `NavInv` = the
  server's `IndInv` and `StopInv` with four parts of its own. `MuxerHeld`: the name in the muxer is
  that of a navigator still to release it, also when two started together and one overwrote the
  other. `NavRuns`: where the worker is when the callback is at each point. `ErrorsFresh`: an
  error left by a failed activation stands only while the server is inactive and no callback can be reached –
  the reason why a run starts without one – and a code of `loadBehaviorTree()` only until the goal
  is rejected. `ErrorsOwned` says whose the codes are at each point of the callback: of none or
  of this goal where it may still be rejected, of this and preempted goals while it navigates. `ErrorsEndWithTheirRun` follows. `NavOwns`: while the server is active, the goal the
  callback has read is still the current one, a pending goal it has seen is still there, and the
  pose on the blackboard is the current goal's or an error is recorded. `NavOwns` needs
  `CallbackKeepsItsGoal`'s argument (no other thread changes the handles under a callback) and
  `StopInv` for a deactivation.
* `ControllerKeepsProtocol`, `PlannerKeepsProtocol`, `NavigatorKeepsProtocol` carry the server's
  theorems over the refinements: the goals of the three real servers follow `GoalProtocol`, none
  is lost, and nothing is executed after `deactivate()` has returned.
* `BtActionNodeProofs`. `NodeInv` records at every point of `tick()` and `halt()` which of answer,
  handle and result is there (`NodeKnows`); that a goal whose answer is awaited is the newest and not the
  one the handle names (`FutureIsNew`); that a result which is available is final and the last
  goal's (`ResultIsFinal`); and that the client sees a goal as active for as long as it executes
  (`HandleIsSeen`). The last is what makes `KnownGoalNotAbandoned` inductive: `halt()` asks to cancel
  only what it sees as active. `ResultDecides` shows besides that the switch in `tick()` never meets a
  status that is not final.
* `PluginsProofs`, paths. `ToolsCorrect` says of every path what the run says of short ones. The prover
  cannot use an induction rule with a predicate for a parameter; `IndexInduction`, `NaturalInduction`,
  `LeastIndex` and `Recursion` state induction, minima and recursion along indices with sets and
  functions instead, and come from the least element of a well-founded relation (`WFMin`). On them rest
  the facts about the loops: `Travelled` and `TravelledMonotone` (the distances that are added up),
  `FirstAfter`, `MinBy`, `Backward` (the walk from the closest pose back is the walk along the reversed
  path), `CapIndices` (the rounded indices stay in order and leave room for the last, from
  `RoundedBound`), `ResampleWalk`, `Times`, `Transformed`. One lemma for each tool then
  gives its part of `PathToolsCorrect`. Two tools remember an index between calls, so `PathToolsInv` adds
  that the index is one of the path it is used on: that is why a walk that goes on after the path
  was replaced or the clock was set back stays inside it.
* `PluginsProofs`, control nodes. The life of a node is any function on the naturals that starts with
  the initial members and takes the steps of its `X_steps`: any answers in any number of ticks, and a halt at any time.
  `PipelineOrdered` needs that all children before `last_child_ticked_` have passed;
  `RecoveryNodeBounded` that the first child is ahead of the recoveries by the one that runs, and that
  both stay below `retry_count_`, which a skipped recovery does not reset; `RoundRobinComplete` that the
  children counted as failed or skipped are those right behind the current one, going round
  (`Behind`), so that no child is counted twice.
* `PluginsProofs`, checkers. `CheckersInv` adds to `AnswersAreOfThisGoal` what a checker remembers: a latch
  was set in the window of this goal, and a baseline is not older than the time since the first
  question about it. Lemmas say what each question answers and leaves behind (`GoalAnswer`,
  `ProgressAnswer`), that a pose in the window is inside the reported tolerances
  (`WindowTolerances`, from the order of squares), and that the clock keeps order
  (`LaterMonotone`). `ToolSpec` and `CheckersSpec` are the tools and the checkers alone; the run checks
  the same steps inside `Plugins`.
* `OffboardControlProofs`. `IndInv` adds to the properties that a hover point exists as soon as
  there is a waypoint or a take-off target, and that it is the setpoint published last, except for
  a waypoint that came since.

Proved and not checked by a run of their own: `FollowsCurrentGoal`, `PlannerKeptWhileUsed`,
`WarmupFirst`, `CrashOnlyByDeactivation` and `ResultDecides`, and the inductive invariants; TLC has checked
each of these on an instance like those of the runs before it was proved.

Model-checked only:

* the liveness properties: fairness and ENABLED are outside what the prover does;
* the properties of whole trees: `FollowsComputedPath`, `NoOrphanedAction`, `ReplansInTime`,
  `RecoveriesBounded` and `RoundIsComplete`. Ticking a tree is an operator that calls itself for
  the children, and the prover has no support for those. What the last two, and the order that
  the first rests on, mean for a single node is proved of `ControlNodes`, whose operators the trees
  are made of; that a node in a tree takes no other steps than those is seen in `BtTrees`
  and not proved.

## Where the code and its messages disagree

Four runs end in a counterexample to what a message of the code or the repository's README says; `PROJECT.json` quotes them.

* `SimpleActionServer_forgot` – "Forgot to handle a preemption": it happens without anyone
  forgetting, through the window between the worker's last look at the pending slot and its end.
* `SimpleActionServer_deactivated` – "Deactivation completed." with a goal that stays active: the
  worker was launched but had not tested `stop_execution_` yet.
* `LifecycleManager_respawn` – "Successfully re-established connections …, starting back up.":
  the hard reset that says "Shutting down related nodes." is ended by an exception, also with
  `hard_change`, the nodes before the dead one stay active, and the startup fails on them. (A
  `SHUTDOWN` with a dead node stops in the same way and reports success.)
* `BtTrees_goal_update` – "replanning on goal updates": a goal that arrives while
  `ComputePathToPose` is running is noticed and forgotten; the default tree follows the path to the
  old goal and reports success for the new one.

Further behaviours are in the models and named by the properties rather than excluded by them:
`publish_feedback` and `computePlan` can meet a null handle or goal, but only while a deactivation
that ran out of patience is waiting (`FeedbackLostOnlyByDeactivation`,
`NullGoalOnlyByDeactivation`); the manager blocks for ever when a server dies during a transition
(`CrashDetected` names that case); and it dereferences null clients when a command or an armed
respawn timer follows SHUTDOWN. `onPreempt` of the navigators says "continuing to track the last
goal" when a new pose cannot be transformed, but it has already accepted the new goal, so that the
old one was aborted and the result, with its error, goes to the new one
(`MistrackedGoalHasError`). A goal whose acceptance comes after the client node has given it up runs on
with nobody to cancel it (`KnownGoalNotAbandoned` is about the others). Error codes are reset at the
end of a run of `executeCallback()` only (`bt_action_server_impl.hpp:289` and `:342`), not when the
run goes over to another goal: when a goal is accepted by `onPreempt` and cannot be transformed
(`navigate_to_pose.cpp:184-190`), and a third goal preempts it and the tree succeeds,
`populateErrorCode` (`:319`, `:382-385`) reports TF_ERROR of the second goal with the success of the
third. `ErrorsAreOfThisRun` allows exactly this, codes of goals preempted in the same run, and
excludes every other code that is not the goal's own; no text of the repository says which is
meant. `PathLongerOnApproach` and `DistanceController` may answer without looking at a child that
runs, which then goes on unattended; `NoOrphanedAction` allows this of these two while the
navigation lasts, and not beyond its end. When a goal is replaced, `FollowPath` may end the old
path in the very tick in which the replanning begins: `ReplansInTime` bounds the age of the missed goal by a
period, inclusive, without the time spent planning. A server that dies after its activation was
confirmed is reported active with the others (`ActiveWhenReported` says that its bond and the
timer are there, `CrashDetected` that the manager notices). Two navigators that ask the muxer at the same time both start (`MuxerReleased` allows
for it).

Seen while modelling, and modelled as written: `WouldAPlannerRecoveryHelp` aliases the result type
of `ComputePathToPose` twice (`would_a_planner_recovery_help_condition.hpp:17`), so that it never
tests the codes of `ComputePathThroughPoses`, as the route condition does for its second action; a goal checker
whose `stateful` is switched off after it has latched skips the position until the next reset; the
progress checkers look at the plane, so that a vehicle climbing in place counts as stuck; a cancel
node cancels every goal of its server older than 10 ms, whoever sent it. Not modelled: the default
tree of the through-poses navigator (`navigate_through_poses.cpp:65`) is not in the repository.

## What is not modelled

* The end of the process: `rclcpp::ok()` is true, `onRclPreshutdown` is left out.
* Numbers: interpolation between poses, reference filter, speed limit, frames, offset
  filter, yaw of setpoints, velocities, estimated times; the fields of goals and results other than error codes and paths.
* Configuring and cleaning up the servers; the action server objects live throughout.
* `BtServiceNode`, which no plugin uses; `should_send_goal_`, which no plugin sets; the arrays of goals
  of `GoalUpdater` and the goal conditions, which the trees of the repository do not use.
* Registration of plugins, loggers, Groot, diagnostics, launch files, messages, `vio_odometry_bridge`,
  `lifecycle_manager_client`.

## Plan

Done: all components above are modelled and checked; every safety property that a run checks is a
theorem, but for those of whole trees.

1. Ticking a tree as steps of its nodes, with the position in the tree as state, in place of one
   recursive operator: the theorems about single nodes would then carry over to trees.
2. A navigator on top of the planner and controller servers instead of arbitrary leaves: too large for
   TLC with the servers' own threads, within reach with `GoalProtocol` for each of them.
