--------------------------- MODULE LifecycleManager ---------------------------
(***************************************************************************)
(* nav3d_lifecycle_manager::LifecycleManager and the managed servers as it *)
(* sees them: their lifecycle state, through LifecycleServiceClient, and   *)
(* their bond (heartbeat).  The manager's services and timers share one    *)
(* mutually exclusive callback group, so it runs one operation at a time;  *)
(* servers crash, come back and fail transitions at any moment in between. *)
(*                                                                         *)
(* The servers are 1..N in the order of node_names_.                       *)
(***************************************************************************)
EXTENDS Naturals, Sequences

CONSTANTS N,               \* number of managed nodes
          Commands,        \* operations clients ask for through manage_nodes
          Autostart,       \* autostart
          BondTimeout,     \* bond_timeout > 0
          AttemptRespawn,  \* attempt_respawn_reconnection
          Faults,          \* servers may fail transitions, answer late, lose heartbeats
          MaxCrashes       \* bound on the number of server crashes

ASSUME NAssumption == N \in Nat \ {0}
ASSUME OptionsAssumption ==
    /\ Commands \subseteq {"startup", "reset", "shutdown", "pause", "resume"}
    /\ Autostart \in BOOLEAN /\ BondTimeout \in BOOLEAN
    /\ AttemptRespawn \in BOOLEAN /\ Faults \in BOOLEAN
    /\ MaxCrashes \in Nat

VARIABLES node_state,     \* lifecycle state of each server, "down" if its process is
          crashes,        \* how many crashes there were
          bond_map,       \* bond_map_: "none" if there is no entry
          system_active,  \* system_active_
          bond_timer,     \* bond_timer_ is set
          respawn_timer,  \* bond_respawn_timer_ is set
          clients,        \* the entries of node_map_ are not null
          op,             \* the operation the service thread is in
          phase,          \* which changeStateForAllNodes of the operation it is in
          pos,            \* the position of its loop, N + 1 after the loop
          call            \* the change_state request of that position

ctl == <<op, phase, pos, call>>
timers == <<bond_timer, respawn_timer>>
vars == <<node_state, crashes, bond_map, system_active, timers, clients, ctl>>

Nodes == 1..N

NodeState == {"down", "unconfigured", "inactive", "active", "finalized"}

Bond == {"none", "unformed", "formed", "broken"}

(* The transitions each operation asks of all nodes, in order.             *)
Phases(o) ==
    CASE o = "startup"    -> <<"configure", "activate">>
      [] o = "resume"     -> <<"activate">>
      [] o = "pause"      -> <<"deactivate">>
      [] o = "reset"      -> <<"deactivate", "cleanup">>
      [] o = "hard_reset" -> <<"deactivate", "cleanup">>
      [] o = "shutdown"   -> <<"deactivate", "cleanup", "shutdown">>

Operations == {"startup", "resume", "pause", "reset", "hard_reset", "shutdown"}

(* The state a server must be in for a transition, and transition_state_map_.*)
Source(t) == CASE t = "configure"  -> "unconfigured"
               [] t = "activate"   -> "inactive"
               [] t = "deactivate" -> "active"
               [] t = "cleanup"    -> "inactive"
               [] t = "shutdown"   -> "unconfigured"

Target(t) == CASE t = "configure"  -> "inactive"
               [] t = "activate"   -> "active"
               [] t = "deactivate" -> "inactive"
               [] t = "cleanup"    -> "unconfigured"
               [] t = "shutdown"   -> "finalized"

Busy == op \in Operations

(* The loop of changeStateForAllNodes is running.                          *)
InLoop == Busy /\ phase <= Len(Phases(op)) /\ pos <= N

transition == Phases(op)[phase]

(* Fault: the nodes are always visited in order.                           *)
node_at_forward(p) == p

(* Configure and activate visit the nodes in order, the others in reverse. *)
node_at(p) == IF transition \in {"configure", "activate"} THEN p ELSE N + 1 - p

TypeOK ==
    /\ node_state \in [Nodes -> NodeState]
    /\ crashes \in 0..MaxCrashes
    /\ bond_map \in [Nodes -> Bond]
    /\ system_active \in BOOLEAN /\ bond_timer \in BOOLEAN
    /\ respawn_timer \in BOOLEAN /\ clients \in BOOLEAN
    /\ op \in Operations \cup {"idle", "crashed"}
    /\ phase \in 1..4
    /\ pos \in 1..(N + 1)
    /\ call \in {"none", "sent", "answered", "lost"}

-----------------------------------------------------------------------------
(* How an operation begins and ends, and what its loop does next.          *)

begin(o) ==
    /\ op' = o
    /\ phase' = 1
    /\ pos' = 1
    /\ call' = "none"

idle == begin("idle")

(* Fault: reset(), pause() and shutdown() forget the timer and the flag.   *)
start_operation_monitored(o) ==
    /\ begin(o)
    /\ UNCHANGED <<system_active, bond_timer>>

(* reset(), pause() and shutdown() first stop the monitoring; startup()    *)
(* and resume() leave it as it is.                                         *)
start_operation(o) ==
    /\ begin(o)
    /\ IF o \in {"startup", "resume"}
       THEN UNCHANGED <<system_active, bond_timer>>
       ELSE system_active' = FALSE /\ bond_timer' = FALSE

next_node ==
    /\ pos' = pos + 1
    /\ call' = "none"
    /\ UNCHANGED <<op, phase>>

(* changeStateForAllNodes returns false.  startup(), resume(), pause() and *)
(* reset() give up; shutdownAllNodes() ignores it and goes on with its     *)
(* next transition; a hard reset ends, its remaining transition skipped.   *)
phase_fails ==
    CASE op = "shutdown"   -> /\ pos' = N + 1
                              /\ call' = "none"
                              /\ UNCHANGED <<op, phase>>
      [] op = "hard_reset" -> /\ phase' = Len(Phases(op)) + 1
                              /\ pos' = 1
                              /\ call' = "none"
                              /\ UNCHANGED op
      [] OTHER             -> idle

(* changeStateForNode returned false: hard_change goes on with the loop.   *)
node_fails == IF op = "hard_reset" THEN next_node ELSE phase_fails

(* changeStateForNode threw std::runtime_error: the catch clause returns   *)
(* false, also with hard_change.                                           *)
node_throws == phase_fails

-----------------------------------------------------------------------------
(* changeStateForNode for the node of the loop's position.                 *)

(* A client that has been reset is dereferenced: the manager dies.         *)
null_client ==
    /\ InLoop /\ call = "none"
    /\ ~ clients
    /\ begin("crashed")
    /\ UNCHANGED <<node_state, crashes, bond_map, system_active, timers, clients>>

(* change_state: the request is sent, or its service is not available.     *)
change_state_send ==
    /\ InLoop /\ call = "none"
    /\ clients
    /\ IF node_state[node_at(pos)] = "down"
       THEN node_throws
       ELSE call' = "sent" /\ UNCHANGED <<op, phase, pos>>
    /\ UNCHANGED <<node_state, crashes, bond_map, system_active, timers, clients>>

(* The server answers.  An illegal transition changes nothing; one that    *)
(* fails leaves the server where it was, or, on an error, unconfigured.    *)
(* change_state() returns true whatever the answer says.                   *)
change_state_answer ==
    /\ InLoop /\ call = "sent"
    /\ LET n == node_at(pos)
       IN \E s \in {Target(transition)}
                     \cup (IF Faults THEN {node_state[n], "unconfigured"} ELSE {}) :
            node_state' = [node_state EXCEPT ![n] =
                             IF @ = Source(transition) THEN s ELSE @]
    /\ call' = "answered"
    /\ UNCHANGED <<crashes, bond_map, system_active, timers, clients, op, phase, pos>>

(* get_state is not answered in time, or there is no service any more.     *)
get_state_throws ==
    /\ InLoop /\ call = "answered"
    /\ Faults \/ node_state[node_at(pos)] = "down"
    /\ node_throws
    /\ UNCHANGED <<node_state, crashes, bond_map, system_active, timers, clients>>

get_state_differs ==
    /\ InLoop /\ call = "answered"
    /\ node_state[node_at(pos)] \notin {"down", Target(transition)}
    /\ node_fails
    /\ UNCHANGED <<node_state, crashes, bond_map, system_active, timers, clients>>

(* Fault: the state is not compared.                                       *)
get_state_unchecked ==
    /\ InLoop /\ call = "answered"
    /\ node_state[node_at(pos)] # "down"
    /\ bond_map' = [bond_map EXCEPT ![node_at(pos)] =
                      IF transition = "activate" THEN "formed" ELSE "none"]
    /\ next_node
    /\ UNCHANGED <<node_state, crashes, system_active, timers, clients>>

(* The server is in the state that was asked for.  After activate its bond *)
(* is created, unless there is an entry; after deactivate it is erased.    *)
get_state_agrees ==
    /\ InLoop /\ call = "answered"
    /\ node_state[node_at(pos)] = Target(transition)
    /\ LET n == node_at(pos)
           create == transition = "activate" /\ bond_map[n] = "none" /\ BondTimeout
       IN \/ /\ create                 \* waitUntilFormed succeeds ...
             /\ bond_map' = [bond_map EXCEPT ![n] = "formed"]
             /\ next_node
          \/ /\ create /\ Faults       \* ... or not in time: the entry stays
             /\ bond_map' = [bond_map EXCEPT ![n] = "unformed"]
             /\ node_fails
          \/ /\ ~ create
             /\ bond_map' = IF transition = "deactivate"
                            THEN [bond_map EXCEPT ![n] = "none"]
                            ELSE bond_map
             /\ next_node
    /\ UNCHANGED <<node_state, crashes, system_active, timers, clients>>

(* The loop is over: the next transition, if the operation has one.        *)
phase_done ==
    /\ Busy /\ phase <= Len(Phases(op)) /\ pos = N + 1
    /\ phase' = phase + 1
    /\ pos' = 1
    /\ UNCHANGED <<op, call, node_state, crashes, bond_map, system_active, timers, clients>>

(* What an operation does after its last transition.                       *)
operation_done ==
    /\ Busy /\ phase = Len(Phases(op)) + 1
    /\ idle
    /\ IF op \in {"startup", "resume"}
       THEN system_active' = TRUE /\ bond_timer' = (bond_timer \/ BondTimeout)
       ELSE UNCHANGED <<system_active, bond_timer>>
    /\ IF op = "hard_reset"            \* the rest of checkBondConnections
       THEN /\ bond_map' = [n \in Nodes |-> "none"]
            /\ respawn_timer' = (respawn_timer \/ AttemptRespawn)
       ELSE UNCHANGED <<bond_map, respawn_timer>>
    /\ clients' = (clients /\ op # "shutdown")
    /\ UNCHANGED <<node_state, crashes>>

OperationStep ==
    \/ null_client \/ change_state_send \/ change_state_answer
    \/ get_state_throws \/ get_state_differs \/ get_state_agrees
    \/ phase_done \/ operation_done

-----------------------------------------------------------------------------
(* What starts an operation.                                               *)

managerCallback(c) ==
    /\ op = "idle"
    /\ start_operation(c)
    /\ UNCHANGED <<node_state, crashes, bond_map, respawn_timer, clients>>

(* Fault: the last node is left out.                                       *)
checkBondConnections_off_by_one ==
    /\ op = "idle"
    /\ bond_timer /\ system_active
    /\ \E n \in 1..(N - 1) : bond_map[n] = "broken"
    /\ start_operation("hard_reset")
    /\ UNCHANGED <<node_state, crashes, bond_map, respawn_timer, clients>>

(* The bond timer finds a broken bond.                                     *)
checkBondConnections ==
    /\ op = "idle"
    /\ bond_timer /\ system_active
    /\ \E n \in Nodes : bond_map[n] = "broken"
    /\ start_operation("hard_reset")
    /\ UNCHANGED <<node_state, crashes, bond_map, respawn_timer, clients>>

(* The respawn timer: drop it if the system came back some other way, use  *)
(* get_state to count the live servers (through null clients after a       *)
(* shutdown), start up if all are there, give up when it has taken too     *)
(* long.                                                                   *)
checkBondRespawnConnection ==
    /\ op = "idle"
    /\ respawn_timer
    /\ \/ /\ system_active
          /\ respawn_timer' = FALSE
          /\ UNCHANGED ctl
       \/ /\ ~ system_active /\ ~ clients
          /\ begin("crashed")
          /\ UNCHANGED respawn_timer
       \/ /\ ~ system_active /\ clients
          /\ \A n \in Nodes : node_state[n] # "down"
          /\ respawn_timer' = FALSE
          /\ begin("startup")
       \/ /\ ~ system_active /\ clients
          /\ Faults \/ \E n \in Nodes : node_state[n] = "down"
          /\ respawn_timer' = FALSE
          /\ UNCHANGED ctl
    /\ UNCHANGED <<node_state, crashes, bond_map, system_active, bond_timer, clients>>

-----------------------------------------------------------------------------
(* The servers.                                                            *)

(* A server dies; a change_state request it was handling is never answered *)
(* and the manager waits for it without a timeout.                         *)
crash(n) ==
    /\ node_state[n] # "down"
    /\ crashes < MaxCrashes
    /\ crashes' = crashes + 1
    /\ node_state' = [node_state EXCEPT ![n] = "down"]
    /\ call' = IF InLoop /\ call = "sent" /\ node_at(pos) = n THEN "lost" ELSE call
    /\ UNCHANGED <<bond_map, system_active, timers, clients, op, phase, pos>>

(* The launch system starts it again.                                      *)
respawn(n) ==
    /\ node_state[n] = "down"
    /\ node_state' = [node_state EXCEPT ![n] = "unconfigured"]
    /\ UNCHANGED <<crashes, bond_map, system_active, timers, clients, ctl>>

(* The heartbeat of a server that is not active any more times out.        *)
bond_breaks(n) ==
    /\ bond_map[n] \in {"unformed", "formed"}
    /\ node_state[n] # "active"
    /\ bond_map' = [bond_map EXCEPT ![n] = "broken"]
    /\ UNCHANGED <<node_state, crashes, system_active, timers, clients, ctl>>

(* A live server's bond forms late, or its heartbeats do not get through.  *)
bond_changes(n) ==
    /\ \/ bond_map[n] = "unformed" /\ node_state[n] = "active"
          /\ bond_map' = [bond_map EXCEPT ![n] = "formed"]
       \/ Faults /\ bond_map[n] \in {"unformed", "formed"}
          /\ bond_map' = [bond_map EXCEPT ![n] = "broken"]
    /\ UNCHANGED <<node_state, crashes, system_active, timers, clients, ctl>>

Init ==
    /\ node_state = [n \in Nodes |-> "unconfigured"]
    /\ crashes = 0
    /\ bond_map = [n \in Nodes |-> "none"]
    /\ system_active = FALSE
    /\ bond_timer = FALSE
    /\ respawn_timer = FALSE
    /\ clients = TRUE
    /\ op = IF Autostart THEN "startup" ELSE "idle"
    /\ phase = 1 /\ pos = 1 /\ call = "none"

ServerStep == \E n \in Nodes : crash(n) \/ respawn(n) \/ bond_breaks(n) \/ bond_changes(n)

Next ==
    \/ OperationStep
    \/ \E c \in Commands : managerCallback(c)
    \/ checkBondConnections
    \/ checkBondRespawnConnection
    \/ ServerStep

Spec == Init /\ [][Next]_vars

(* The manager's thread goes on while it has something to do, a server     *)
(* answers while it lives, and a bond that gets no heartbeat breaks.  The  *)
(* executor looks for expired timers before it takes a service request, so *)
(* that requests cannot keep the bond timer waiting.                       *)
Fairness ==
    /\ WF_vars(OperationStep)
    /\ SF_vars(checkBondConnections)
    /\ WF_vars(\E n \in Nodes : bond_breaks(n))

FairSpec == Spec /\ Fairness

(* ... and the respawn timer fires and crashed servers are started again.  *)
RespawnSpec ==
    /\ FairSpec
    /\ WF_vars(checkBondRespawnConnection)
    /\ \A n \in Nodes : WF_vars(respawn(n))

-----------------------------------------------------------------------------
(* Properties.                                                             *)

(* While the system is reported active it is monitored: the bond timer is  *)
(* armed, and every node has a bond, so that checkBondConnections never    *)
(* dereferences an entry that bond_map_[] has just made up.                *)
Monitored ==
    system_active /\ BondTimeout =>
      /\ bond_timer
      /\ \A n \in Nodes : bond_map[n] # "none"

(* What makes Monitored inductive: an operation that takes bonds away has  *)
(* cleared system_active_ first, and an activate loop leaves a bond behind *)
(* for every node it has passed.                                           *)
StoppedFirst == op \in {"pause", "reset", "hard_reset", "shutdown"} => ~ system_active

Activating == op \in {"startup", "resume"} /\ phase = Len(Phases(op))

BondsSoFar ==
    BondTimeout =>
      /\ Activating => \A n \in 1..(pos - 1) : bond_map[n] # "none"
      /\ op \in {"startup", "resume"} /\ phase = Len(Phases(op)) + 1
           => \A n \in Nodes : bond_map[n] # "none"

IndInv == TypeOK /\ Monitored /\ StoppedFirst /\ BondsSoFar

Deactivating == op \in {"pause", "reset", "shutdown"} /\ phase = 1 /\ pos <= N

(* Its process has died, and may have been started again.                  *)
Died(n) == node_state[n] \in {"down", "unconfigured"} /\ crashes > 0

ActiveOrDied(n) == node_state[n] = "active" \/ Died(n)

(* What the two properties below rest on: behind the position of an        *)
(* activate loop a node is active or has died, behind that of a deactivate *)
(* loop (which runs backwards) none is active.                             *)
OrderInv ==
    /\ Activating => \A m \in 1..(pos - 1) : ActiveOrDied(m)
    /\ op \in {"startup", "resume"} /\ phase = Len(Phases(op)) + 1
         => \A m \in Nodes : ActiveOrDied(m)
    /\ Deactivating => \A m \in (N + 2 - pos)..N : node_state[m] # "active"

(* A node is activated only after the ones before it are active (or have   *)
(* died since), and deactivated only when no node after it is active: a *)
(* server is never taken away from under a client of it.  A hard reset     *)
(* goes on after a node that will not deactivate.                          *)
DependencyOrder ==
    [][\A n \in Nodes :
         /\ node_state[n] # "active" /\ node_state'[n] = "active"
              => \A m \in 1..(n - 1) : ActiveOrDied(m)
         /\ node_state[n] = "active" /\ node_state'[n] = "inactive" /\ op # "hard_reset"
              => \A m \in (n + 1)..N : node_state[m] # "active"]_vars

(* The manager reports the system active only when every node has reached  *)
(* the active state.  A server may have died after that, and be back       *)
(* unconfigured, before the report; nothing but a death takes it away, and *)
(* the report leaves it with a bond and the bond timer, which CrashDetected *)
(* says will notice.                                                       *)
ActiveWhenReported ==
    [][~ system_active /\ system_active'
         => \A n \in Nodes :
              \/ node_state[n] = "active"
              \/ Died(n) /\ (BondTimeout => bond_timer' /\ bond_map[n] # "none")]_vars

(* A server that is not active while the system is reported active, dead   *)
(* or started again since, is noticed: the hard reset begins, unless all   *)
(* servers are brought back by other means, or the manager is blocked by a *)
(* request that will never be answered.                                    *)
CrashDetected ==
    (system_active /\ \E n \in Nodes : node_state[n] # "active")
      ~> (~ system_active \/ (\A n \in Nodes : node_state[n] = "active") \/ call = "lost")

(* "Successfully re-established connections from server respawns, starting *)
(* back up.": a startup that begins with all servers there, none of which  *)
(* crashes or fails any more, makes the system active.                     *)
RespawnRecovers ==
    (/\ op = "startup" /\ phase = 1 /\ pos = 1 /\ call = "none"
     /\ crashes = MaxCrashes /\ \A n \in Nodes : node_state[n] # "down")
      ~> system_active
=============================================================================
