------------------------ MODULE LifecycleManagerProofs ------------------------
(***************************************************************************)
(* Proofs about LifecycleManager, for any number of managed nodes, any     *)
(* commands, crashes and faults.                                           *)
(***************************************************************************)
EXTENDS LifecycleManager, TLAPS

USE NAssumption, OptionsAssumption

-----------------------------------------------------------------------------
(* The transitions of each operation.                                      *)

LEMMA PhasesOf ==
  /\ Phases("startup") = <<"configure", "activate">>
  /\ Phases("resume") = <<"activate">>
  /\ Phases("pause") = <<"deactivate">>
  /\ Phases("reset") = <<"deactivate", "cleanup">>
  /\ Phases("hard_reset") = <<"deactivate", "cleanup">>
  /\ Phases("shutdown") = <<"deactivate", "cleanup", "shutdown">>
  BY DEF Phases

LEMMA PhaseLengths ==
  /\ Len(Phases("startup")) = 2
  /\ Len(Phases("resume")) = 1
  /\ Len(Phases("pause")) = 1
  /\ Len(Phases("reset")) = 2
  /\ Len(Phases("hard_reset")) = 2
  /\ Len(Phases("shutdown")) = 3
  BY PhasesOf

(* Only startup and resume activate, and only with their last transition.  *)
LEMMA ActivateIsLast ==
  ASSUME NEW o \in Operations, NEW p \in 1..Len(Phases(o))
  PROVE  /\ Len(Phases(o)) \in 1..3
         /\ Phases(o)[p] = "activate" <=> o \in {"startup", "resume"} /\ p = Len(Phases(o))
         /\ Phases(o)[p] = "deactivate" => o \notin {"startup", "resume"}
         /\ Phases(o)[p] \in {"configure", "activate", "deactivate", "cleanup", "shutdown"}
  BY PhasesOf, PhaseLengths DEF Operations

LEMMA TargetIsState ==
  ASSUME NEW t \in {"configure", "activate", "deactivate", "cleanup", "shutdown"}
  PROVE  Target(t) \in NodeState
  BY DEF Target, NodeState

LEMMA InitIndInv == Init => IndInv
<1> SUFFICES ASSUME Init PROVE IndInv
  OBVIOUS
<1>1. TypeOK
  <2>1. node_state \in [Nodes -> NodeState] /\ bond_map \in [Nodes -> Bond]
    BY DEF Init, NodeState, Bond
  <2>2. op \in Operations \cup {"idle", "crashed"}
    BY DEF Init, Operations
  <2>3. /\ crashes \in 0..MaxCrashes /\ phase \in 1..4 /\ pos \in 1..(N + 1)
        /\ call \in {"none", "sent", "answered", "lost"}
    BY DEF Init
  <2>4. /\ system_active \in BOOLEAN /\ bond_timer \in BOOLEAN
        /\ respawn_timer \in BOOLEAN /\ clients \in BOOLEAN
    BY DEF Init
  <2> QED  BY <2>1, <2>2, <2>3, <2>4 DEF TypeOK
<1>2. Monitored
  BY DEF Init, Monitored
<1>3. StoppedFirst
  BY DEF Init, StoppedFirst
<1>4. BondsSoFar
  BY PhaseLengths DEF Init, BondsSoFar, Activating
<1> QED  BY <1>1, <1>2, <1>3, <1>4 DEF IndInv

-----------------------------------------------------------------------------
(* What a step does to the control of the manager and to the bonds.        *)

CtlOK == /\ op \in Operations \cup {"idle", "crashed"}
         /\ phase \in 1..4 /\ pos \in 1..(N + 1)
         /\ call \in {"none", "sent", "answered", "lost"}

DataOK == /\ node_state \in [Nodes -> NodeState]
          /\ crashes \in 0..MaxCrashes
          /\ bond_map \in [Nodes -> Bond]
          /\ system_active \in BOOLEAN /\ bond_timer \in BOOLEAN
          /\ respawn_timer \in BOOLEAN /\ clients \in BOOLEAN

LEMMA TypeParts == TypeOK <=> CtlOK /\ DataOK
  BY DEF TypeOK, CtlOK, DataOK

BondsKept == \A n \in Nodes : bond_map[n] # "none" => bond_map'[n] # "none"

MonitorKept == UNCHANGED <<system_active, bond_timer>>

(* The bonds and the monitoring survive: the invariant does if no loop     *)
(* moves on ...                                                            *)
LEMMA SameLoopPreserves ==
  ASSUME IndInv, CtlOK', DataOK', BondsKept, MonitorKept, UNCHANGED <<op, phase, pos>>
  PROVE  IndInv'
<1> USE DEF IndInv, MonitorKept
<1>1. TypeOK'
  BY TypeParts DEF CtlOK, DataOK, TypeOK
<1>2. Monitored'
  BY DEF Monitored, BondsKept
<1>3. StoppedFirst'
  BY DEF StoppedFirst
<1>4. BondsSoFar'
  <2>1. \A n \in 1..(pos - 1) : n \in Nodes
    BY DEF TypeOK, Nodes
  <2> QED  BY <2>1 DEF BondsSoFar, Activating, BondsKept
<1> QED  BY <1>1, <1>2, <1>3, <1>4

(* ... or if the manager is not starting up or resuming after the step.    *)
LEMMA NoStartPreserves ==
  ASSUME IndInv, CtlOK', DataOK', BondsKept, MonitorKept,
         op' \notin {"startup", "resume"}, op' \in {op, "idle", "crashed"}
  PROVE  IndInv'
<1> USE DEF IndInv, MonitorKept
<1>1. TypeOK'
  BY DEF CtlOK, DataOK, TypeOK
<1>2. Monitored'
  BY DEF Monitored, BondsKept
<1>3. StoppedFirst'
  BY DEF StoppedFirst
<1>4. BondsSoFar'
  BY DEF BondsSoFar, Activating
<1> QED  BY <1>1, <1>2, <1>3, <1>4

LEMMA LoopFacts ==
  ASSUME IndInv, InLoop
  PROVE  /\ op \in Operations /\ phase \in 1..Len(Phases(op)) /\ Len(Phases(op)) \in 1..3
         /\ pos \in 1..N /\ node_at(pos) \in Nodes
         /\ transition \in {"configure", "activate", "deactivate", "cleanup", "shutdown"}
         /\ transition = "activate" <=> Activating
         /\ transition = "activate" => node_at(pos) = pos
         /\ transition = "deactivate" => op \notin {"startup", "resume"}
<1>1. TypeOK /\ op \in Operations /\ phase <= Len(Phases(op)) /\ pos <= N
  BY DEF IndInv, InLoop, Busy
<1>2. Len(Phases(op)) \in 1..3
  BY <1>1, PhaseLengths DEF Operations
<1>3. phase \in 1..Len(Phases(op)) /\ pos \in 1..N
  BY <1>1, <1>2 DEF TypeOK
<1>4. /\ transition \in {"configure", "activate", "deactivate", "cleanup", "shutdown"}
      /\ transition = "activate" <=> Activating
      /\ transition = "deactivate" => op \notin {"startup", "resume"}
  BY <1>1, <1>3, ActivateIsLast DEF transition, Activating
<1>5. node_at(pos) \in Nodes /\ (transition = "activate" => node_at(pos) = pos)
  BY <1>3 DEF node_at, Nodes
<1> QED  BY <1>1, <1>2, <1>3, <1>4, <1>5

LEMMA NextNodePost ==
  ASSUME IndInv, InLoop, next_node
  PROVE  CtlOK' /\ op' = op /\ phase' = phase /\ pos' = pos + 1
  BY LoopFacts DEF next_node, CtlOK, IndInv, TypeOK

LEMMA PhaseFailsPost ==
  ASSUME IndInv, InLoop, phase_fails
  PROVE  CtlOK' /\ op' \notin {"startup", "resume"} /\ op' \in {op, "idle"}
<1>1. TypeOK /\ Len(Phases(op)) \in 1..3
  BY LoopFacts DEF IndInv
<1>2. CASE op = "shutdown"
  BY <1>1, <1>2 DEF phase_fails, CtlOK, TypeOK
<1>3. CASE op = "hard_reset"
  <2>1. phase' = Len(Phases(op)) + 1 /\ pos' = 1 /\ call' = "none" /\ op' = op
    BY <1>3 DEF phase_fails
  <2>2. Len(Phases(op)) = 2
    BY <1>3, PhaseLengths
  <2>3. phase' = 3 /\ pos' \in 1..(N + 1)
    BY <2>1, <2>2
  <2> QED  BY <1>3, <2>1, <2>3 DEF CtlOK, Operations
<1>4. CASE op \notin {"shutdown", "hard_reset"}
  <2>1. idle
    BY <1>4 DEF phase_fails
  <2> QED  BY <1>1, <2>1 DEF idle, begin, CtlOK, TypeOK
<1> QED  BY <1>2, <1>3, <1>4

LEMMA NodeFailsPost ==
  ASSUME IndInv, InLoop, node_fails
  PROVE  CtlOK' /\ op' \notin {"startup", "resume"} /\ op' \in {op, "idle"}
<1>1. CASE op = "hard_reset"
  BY <1>1, NextNodePost DEF node_fails
<1>2. CASE op # "hard_reset"
  BY <1>2, PhaseFailsPost DEF node_fails
<1> QED  BY <1>1, <1>2

-----------------------------------------------------------------------------
(* The inductive invariant, action by action.                              *)

(* The steps of the loop that leave the bonds alone.                       *)
LEMMA CallPreserves ==
  ASSUME IndInv, null_client \/ change_state_send \/ get_state_throws \/ get_state_differs
  PROVE  IndInv'
<1>1. InLoop
  BY DEF null_client, change_state_send, get_state_throws, get_state_differs
<1>2. /\ UNCHANGED <<node_state, crashes, bond_map, system_active, bond_timer,
                     respawn_timer, clients>>
  BY DEF null_client, change_state_send, get_state_throws, get_state_differs, timers
<1>3. CtlOK /\ DataOK
  BY TypeParts DEF IndInv
<1>4. DataOK' /\ BondsKept /\ MonitorKept
  BY <1>2, <1>3 DEF DataOK, BondsKept, MonitorKept
<1>5. CASE null_client
  <2>1. CtlOK' /\ op' = "crashed"
    BY <1>3, <1>5 DEF null_client, begin, CtlOK
  <2> QED  BY <1>4, <2>1, NoStartPreserves
<1>6. CASE change_state_send /\ node_state[node_at(pos)] # "down"
  <2>1. call' = "sent" /\ UNCHANGED <<op, phase, pos>>
    BY <1>6 DEF change_state_send
  <2>2. CtlOK'
    BY <1>3, <2>1 DEF CtlOK
  <2> QED  BY <1>4, <2>1, <2>2, SameLoopPreserves
<1>7. CASE phase_fails \/ node_fails
  <2>1. CtlOK' /\ op' \notin {"startup", "resume"} /\ op' \in {op, "idle"}
    BY <1>1, <1>7, PhaseFailsPost, NodeFailsPost
  <2> QED  BY <1>4, <2>1, NoStartPreserves
<1> QED
  BY <1>5, <1>6, <1>7
     DEF change_state_send, get_state_throws, get_state_differs, node_throws

LEMMA AnswerPreserves == ASSUME IndInv, change_state_answer PROVE IndInv'
<1>1. InLoop /\ CtlOK /\ DataOK
  BY TypeParts DEF change_state_answer, IndInv
<1>2. /\ UNCHANGED <<crashes, bond_map, system_active, bond_timer, respawn_timer, clients>>
      /\ UNCHANGED <<op, phase, pos>> /\ call' = "answered"
  BY DEF change_state_answer, timers
<1>3. node_at(pos) \in Nodes /\ Target(transition) \in NodeState
  BY <1>1, LoopFacts, TargetIsState
<1>4. node_state' \in [Nodes -> NodeState]
  <2>1. PICK s \in {Target(transition)} \cup
                     (IF Faults THEN {node_state[node_at(pos)], "unconfigured"} ELSE {}) :
          node_state' = [node_state EXCEPT ![node_at(pos)] =
                           IF @ = Source(transition) THEN s ELSE @]
    BY DEF change_state_answer
  <2>2. node_state \in [Nodes -> NodeState]
    BY <1>1 DEF DataOK
  <2>3. s \in NodeState
    BY <1>3, <2>2 DEF NodeState
  <2> QED  BY <1>3, <2>1, <2>2, <2>3
<1>5. CtlOK' /\ DataOK' /\ BondsKept /\ MonitorKept
  BY <1>1, <1>2, <1>4 DEF CtlOK, DataOK, BondsKept, MonitorKept
<1> QED  BY <1>2, <1>5, SameLoopPreserves

(* After deactivate a bond goes, but the system is not active then.  After *)
(* activate the node of this position has a bond, and the loop moves on.   *)
LEMMA AgreesPreserves == ASSUME IndInv, get_state_agrees PROVE IndInv'
<1> DEFINE n == node_at(pos)
           create == transition = "activate" /\ bond_map[n] = "none" /\ BondTimeout
<1>1. InLoop /\ CtlOK /\ DataOK /\ Monitored /\ StoppedFirst /\ BondsSoFar
  BY TypeParts DEF get_state_agrees, IndInv
<1>2. UNCHANGED <<node_state, crashes, system_active, bond_timer, respawn_timer, clients>>
  BY DEF get_state_agrees, timers
<1>3. n \in Nodes
  BY <1>1, LoopFacts
<1>4. CASE ~ create /\ transition = "deactivate"
  <2>1. bond_map' = [bond_map EXCEPT ![n] = "none"] /\ next_node
    BY <1>4 DEF get_state_agrees
  <2>2. CtlOK' /\ DataOK' /\ op' = op
    BY <1>1, <1>2, <1>3, <2>1, NextNodePost DEF DataOK, Bond
  <2>3. op \in {"pause", "reset", "hard_reset", "shutdown"}
    BY <1>1, <1>4, LoopFacts DEF Operations
  <2>4. ~ system_active /\ ~ system_active'
    BY <1>1, <1>2, <2>3 DEF StoppedFirst
  <2>5. TypeOK'
    BY <2>2 DEF TypeOK, CtlOK, DataOK
  <2>6. Monitored' /\ StoppedFirst'
    BY <2>4 DEF Monitored, StoppedFirst
  <2>7. BondsSoFar'
    BY <2>2, <2>3 DEF BondsSoFar, Activating
  <2> QED  BY <2>5, <2>6, <2>7 DEF IndInv
<1>5. CASE create /\ node_fails /\ bond_map' = [bond_map EXCEPT ![n] = "unformed"]
  <2>1. CtlOK' /\ op' \notin {"startup", "resume"} /\ op' \in {op, "idle"}
    BY <1>1, <1>5, NodeFailsPost
  <2>2. DataOK' /\ BondsKept /\ MonitorKept
    BY <1>1, <1>2, <1>3, <1>5 DEF DataOK, Bond, BondsKept, MonitorKept
  <2> QED  BY <2>1, <2>2, NoStartPreserves
<1>6. CASE /\ next_node
           /\ \/ create /\ bond_map' = [bond_map EXCEPT ![n] = "formed"]
              \/ ~ create /\ bond_map' = bond_map
  <2>1. CtlOK' /\ op' = op /\ phase' = phase /\ pos' = pos + 1
    BY <1>1, <1>6, NextNodePost
  <2>2. DataOK' /\ BondsKept /\ MonitorKept
    BY <1>1, <1>2, <1>3, <1>6 DEF DataOK, Bond, BondsKept, MonitorKept
  <2>3. TypeOK'
    BY <2>1, <2>2 DEF TypeOK, CtlOK, DataOK
  <2>4. Monitored' /\ StoppedFirst'
    BY <1>1, <2>1, <2>2 DEF Monitored, StoppedFirst, BondsKept, MonitorKept
  <2>5. BondTimeout /\ Activating => \A m \in 1..pos : bond_map'[m] # "none"
    <3> SUFFICES ASSUME BondTimeout, Activating, NEW m \in 1..pos
                 PROVE  bond_map'[m] # "none"
      OBVIOUS
    <3>1. transition = "activate" /\ n = pos /\ pos \in 1..N
      BY <1>1, LoopFacts
    <3>2. CASE m = pos
      BY <1>1, <1>3, <1>6, <3>1, <3>2 DEF DataOK
    <3>3. CASE m # pos
      <4>1. m \in 1..(pos - 1) /\ m \in Nodes
        BY <3>1, <3>3 DEF Nodes
      <4> QED  BY <1>1, <2>2, <4>1 DEF BondsSoFar, BondsKept
    <3> QED  BY <3>2, <3>3
  <2>6. BondsSoFar'
    <3>1. pos' - 1 = pos
      BY <1>1, <2>1 DEF CtlOK
    <3>2. phase # Len(Phases(op)) + 1
      BY <1>1, LoopFacts
    <3> QED  BY <2>1, <2>5, <3>1, <3>2 DEF BondsSoFar, Activating
  <2> QED  BY <2>3, <2>4, <2>6 DEF IndInv
<1> QED  BY <1>4, <1>5, <1>6 DEF get_state_agrees

LEMMA PhaseDonePreserves == ASSUME IndInv, phase_done PROVE IndInv'
<1>1. CtlOK /\ DataOK /\ Monitored /\ StoppedFirst /\ BondsSoFar
  BY TypeParts DEF IndInv
<1>2. /\ UNCHANGED <<op, call, node_state, crashes, bond_map, system_active, bond_timer,
                     respawn_timer, clients>>
      /\ op \in Operations /\ phase <= Len(Phases(op)) /\ pos = N + 1
      /\ phase' = phase + 1 /\ pos' = 1
  BY DEF phase_done, timers, Busy
<1>3. Len(Phases(op)) \in 1..3
  BY <1>2, PhaseLengths DEF Operations
<1>4. CtlOK' /\ DataOK'
  <2>1. phase' \in 1..4 /\ pos' \in 1..(N + 1)
    BY <1>1, <1>2, <1>3 DEF CtlOK
  <2>2. CtlOK'
    BY <1>1, <1>2, <2>1 DEF CtlOK
  <2>3. DataOK'
    BY <1>1, <1>2 DEF DataOK
  <2> QED  BY <2>2, <2>3
<1>5. TypeOK'
  BY <1>4 DEF TypeOK, CtlOK, DataOK
<1>6. Monitored' /\ StoppedFirst'
  BY <1>1, <1>2 DEF Monitored, StoppedFirst
<1>7. BondsSoFar'
  <2>1. BondTimeout /\ Activating => \A n \in Nodes : bond_map[n] # "none"
    BY <1>1, <1>2 DEF BondsSoFar, Nodes
  <2>2. phase + 1 = Len(Phases(op)) + 1 => phase = Len(Phases(op))
    BY <1>1, <1>3 DEF CtlOK
  <2>3. \A n \in 1..(pos' - 1) : FALSE
    BY <1>2
  <2> QED  BY <1>2, <2>1, <2>2, <2>3 DEF BondsSoFar, Activating
<1> QED  BY <1>5, <1>6, <1>7 DEF IndInv

(* The end of startup() and resume() is where system_active_ is set: the   *)
(* activate loop has left a bond for every node.  The end of a hard reset  *)
(* is where bond_map_ is cleared: system_active_ has long been false.      *)
LEMMA OperationDonePreserves == ASSUME IndInv, operation_done PROVE IndInv'
<1>1. CtlOK /\ DataOK /\ Monitored /\ StoppedFirst /\ BondsSoFar
  BY TypeParts DEF IndInv
<1>2. /\ op' = "idle" /\ phase' = 1 /\ pos' = 1 /\ call' = "none"
      /\ op \in Operations /\ phase = Len(Phases(op)) + 1
      /\ UNCHANGED <<node_state, crashes>>
  BY DEF operation_done, idle, begin, Busy
<1>3. CtlOK'
  BY <1>2 DEF CtlOK
<1>4. clients' \in BOOLEAN
  BY DEF operation_done
<1>5. StoppedFirst' /\ BondsSoFar'
  BY <1>2 DEF StoppedFirst, BondsSoFar, Activating
<1>6. CASE op \in {"startup", "resume"}
  <2>1. /\ system_active' = TRUE /\ bond_timer' = (bond_timer \/ BondTimeout)
        /\ UNCHANGED <<bond_map, respawn_timer>>
    BY <1>6 DEF operation_done
  <2>2. DataOK'
    BY <1>1, <1>2, <1>4, <2>1, OptionsAssumption DEF DataOK
  <2>3. BondTimeout => \A n \in Nodes : bond_map[n] # "none"
    BY <1>1, <1>2, <1>6 DEF BondsSoFar
  <2>4. Monitored'
    BY <2>1, <2>3 DEF Monitored
  <2>5. TypeOK'
    BY <1>3, <2>2 DEF TypeOK, CtlOK, DataOK
  <2> QED  BY <1>5, <2>4, <2>5 DEF IndInv
<1>7. CASE op \notin {"startup", "resume"}
  <2>1. /\ UNCHANGED <<system_active, bond_timer>>
        /\ respawn_timer' \in BOOLEAN
        /\ bond_map' = [n \in Nodes |-> "none"] \/ bond_map' = bond_map
    BY <1>1, <1>7, OptionsAssumption DEF operation_done, DataOK
  <2>2. bond_map' \in [Nodes -> Bond]
    BY <1>1, <2>1 DEF DataOK, Bond
  <2>3. DataOK'
    BY <1>1, <1>2, <1>4, <2>1, <2>2 DEF DataOK
  <2>4. ~ system_active'
    BY <1>1, <1>2, <1>7, <2>1 DEF StoppedFirst, Operations
  <2>5. Monitored'
    BY <2>4 DEF Monitored
  <2>6. TypeOK'
    BY <1>3, <2>3 DEF TypeOK, CtlOK, DataOK
  <2> QED  BY <1>5, <2>5, <2>6 DEF IndInv
<1> QED  BY <1>6, <1>7

LEMMA StartPreserves ==
  ASSUME IndInv, NEW o \in Operations, start_operation(o),
         UNCHANGED <<node_state, crashes, bond_map, respawn_timer, clients>>
  PROVE  IndInv'
<1>1. CtlOK /\ DataOK /\ Monitored
  BY TypeParts DEF IndInv
<1>2. op' = o /\ phase' = 1 /\ pos' = 1 /\ call' = "none"
  BY DEF start_operation, begin
<1>3. \/ UNCHANGED <<system_active, bond_timer>> /\ o \in {"startup", "resume"}
      \/ system_active' = FALSE /\ bond_timer' = FALSE
  BY DEF start_operation
<1>4. CtlOK' /\ DataOK'
  <2>1. CtlOK'
    BY <1>2 DEF CtlOK
  <2>2. system_active' \in BOOLEAN /\ bond_timer' \in BOOLEAN
    BY <1>1, <1>3 DEF DataOK
  <2>3. DataOK'
    BY <1>1, <2>2 DEF DataOK
  <2> QED  BY <2>1, <2>3
<1>5. TypeOK'
  BY <1>4 DEF TypeOK, CtlOK, DataOK
<1>6. Monitored'
  BY <1>1, <1>3 DEF Monitored
<1>7. StoppedFirst'
  BY <1>2, <1>3 DEF StoppedFirst
<1>8. BondsSoFar'
  <2>1. Len(Phases(o)) \in 1..3
    BY PhaseLengths DEF Operations
  <2>2. 1 # Len(Phases(o)) + 1 /\ \A n \in 1..(pos' - 1) : FALSE
    BY <1>2, <2>1
  <2> QED  BY <1>2, <2>2 DEF BondsSoFar, Activating
<1> QED  BY <1>5, <1>6, <1>7, <1>8 DEF IndInv

LEMMA RespawnCheckPreserves == ASSUME IndInv, checkBondRespawnConnection PROVE IndInv'
<1>1. CtlOK /\ DataOK
  BY TypeParts DEF IndInv
<1>2. /\ UNCHANGED <<node_state, crashes, bond_map, system_active, bond_timer, clients>>
      /\ respawn_timer' \in BOOLEAN
  BY <1>1 DEF checkBondRespawnConnection, DataOK
<1>3. DataOK' /\ BondsKept /\ MonitorKept
  BY <1>1, <1>2 DEF DataOK, BondsKept, MonitorKept
<1>4. CASE UNCHANGED ctl
  <2>1. UNCHANGED <<op, phase, pos, call>>
    BY <1>4 DEF ctl
  <2>2. CtlOK'
    BY <1>1, <2>1 DEF CtlOK
  <2> QED  BY <1>3, <2>1, <2>2, SameLoopPreserves
<1>5. CASE begin("crashed")
  <2>1. CtlOK' /\ op' = "crashed"
    BY <1>5 DEF begin, CtlOK
  <2> QED  BY <1>3, <2>1, NoStartPreserves
<1>6. CASE begin("startup")
  <2>1. CtlOK' /\ op' = "startup" /\ phase' = 1 /\ pos' = 1
    BY <1>6 DEF begin, CtlOK, Operations
  <2>2. TypeOK'
    BY <1>3, <2>1 DEF TypeOK, CtlOK, DataOK
  <2>3. Monitored' /\ StoppedFirst'
    BY <1>2, <2>1 DEF IndInv, Monitored, StoppedFirst
  <2>4. BondsSoFar'
    BY <2>1, PhaseLengths DEF BondsSoFar, Activating
  <2> QED  BY <2>2, <2>3, <2>4 DEF IndInv
<1> QED  BY <1>4, <1>5, <1>6 DEF checkBondRespawnConnection

(* Whatever the servers do leaves the control alone, except that a crash   *)
(* may lose the answer the manager waits for.                              *)
LEMMA ServerPreserves ==
  ASSUME IndInv, NEW n \in Nodes, crash(n) \/ respawn(n) \/ bond_breaks(n) \/ bond_changes(n)
  PROVE  IndInv'
<1>1. CtlOK /\ DataOK
  BY TypeParts DEF IndInv
<1>2. /\ UNCHANGED <<op, phase, pos, system_active, bond_timer, respawn_timer, clients>>
      /\ call' \in {call, "lost"}
  BY DEF crash, respawn, bond_breaks, bond_changes, timers, ctl
<1>3. node_state' \in [Nodes -> NodeState] /\ crashes' \in 0..MaxCrashes
  BY <1>1, OptionsAssumption
     DEF crash, respawn, bond_breaks, bond_changes, DataOK, NodeState
<1>4. bond_map' \in [Nodes -> Bond] /\ BondsKept
  BY <1>1 DEF crash, respawn, bond_breaks, bond_changes, DataOK, Bond, BondsKept
<1>5. CtlOK' /\ DataOK' /\ MonitorKept
  BY <1>1, <1>2, <1>3, <1>4 DEF CtlOK, DataOK, MonitorKept
<1> QED  BY <1>2, <1>4, <1>5, SameLoopPreserves

LEMMA NextPreserves == IndInv /\ [Next]_vars => IndInv'
<1> SUFFICES ASSUME IndInv, [Next]_vars PROVE IndInv'
  OBVIOUS
<1>1. CASE OperationStep
  BY <1>1, CallPreserves, AnswerPreserves, AgreesPreserves, PhaseDonePreserves,
     OperationDonePreserves DEF OperationStep
<1>2. ASSUME NEW c \in Commands, managerCallback(c) PROVE IndInv'
  BY <1>2, StartPreserves, OptionsAssumption DEF managerCallback, Operations
<1>3. CASE checkBondConnections
  BY <1>3, StartPreserves DEF checkBondConnections, Operations
<1>4. CASE checkBondRespawnConnection
  BY <1>4, RespawnCheckPreserves
<1>5. CASE ServerStep
  BY <1>5, ServerPreserves DEF ServerStep
<1>6. CASE UNCHANGED vars
  <2>1. CtlOK /\ DataOK
    BY TypeParts DEF IndInv
  <2>2. /\ UNCHANGED <<node_state, crashes, bond_map, system_active, bond_timer>>
        /\ UNCHANGED <<respawn_timer, clients, op, phase, pos, call>>
    BY <1>6 DEF vars, timers, ctl
  <2>3. CtlOK' /\ DataOK' /\ BondsKept /\ MonitorKept
    BY <2>1, <2>2 DEF CtlOK, DataOK, BondsKept, MonitorKept
  <2> QED  BY <2>2, <2>3, SameLoopPreserves
<1> QED  BY <1>1, <1>2, <1>3, <1>4, <1>5, <1>6 DEF Next

(* The inductive invariant holds in every reachable state.                 *)
THEOREM Invariance == Spec => []IndInv
  BY InitIndInv, NextPreserves, PTL DEF Spec

(* Every variable of the manager keeps its type.                           *)
THEOREM TypeCorrect == Spec => []TypeOK
<1>1. IndInv => TypeOK
  BY DEF IndInv
<1> QED  BY <1>1, Invariance, PTL

(* Whatever commands, crashes and failures there were, a system that is    *)
(* reported active has its bond timer armed and a bond for every node, so  *)
(* checkBondConnections dereferences only bonds that exist.                *)
THEOREM ActiveIsMonitored == Spec => []Monitored
<1>1. IndInv => Monitored
  BY DEF IndInv
<1> QED  BY <1>1, Invariance, PTL

-----------------------------------------------------------------------------
(* The order of activation and deactivation.                               *)

(* Servers die and come back, and that is all.                             *)
NodesDegrade ==
    /\ crashes' \in {crashes, crashes + 1}
    /\ \A m \in Nodes :
         \/ node_state'[m] = node_state[m]
         \/ node_state'[m] = "down" /\ crashes' = crashes + 1
         \/ node_state[m] = "down" /\ node_state'[m] = "unconfigured"

LEMMA StaysActiveOrDied ==
  ASSUME TypeOK, NodesDegrade, NEW m \in Nodes, ActiveOrDied(m)
  PROVE  ActiveOrDied(m)'
  BY DEF TypeOK, NodesDegrade, ActiveOrDied, Died

(* What the loops have passed stays so while servers crash and come back   *)
(* and the loop stands still ...                                           *)
LEMMA SameLoopOrder ==
  ASSUME TypeOK, OrderInv, NodesDegrade, UNCHANGED <<op, phase, pos>>
  PROVE  OrderInv'
<1>1. (\A m \in 1..(pos - 1) : m \in Nodes) /\ (\A m \in (N + 2 - pos)..N : m \in Nodes)
  BY DEF TypeOK, Nodes
<1>2. Activating' => \A m \in 1..(pos' - 1) : ActiveOrDied(m)'
  BY <1>1, StaysActiveOrDied DEF OrderInv, Activating
<1>3. op' \in {"startup", "resume"} /\ phase' = Len(Phases(op')) + 1
        => \A m \in Nodes : ActiveOrDied(m)'
  BY StaysActiveOrDied DEF OrderInv
<1>4. Deactivating' => \A m \in (N + 2 - pos')..N : node_state'[m] # "active"
  BY <1>1 DEF OrderInv, Deactivating, NodesDegrade
<1> QED  BY <1>2, <1>3, <1>4 DEF OrderInv

(* ... and nothing is claimed outside of the loops.                        *)
LEMMA NoLoopOrder ==
  ASSUME op' \notin {"startup", "resume"}, ~ Deactivating'
  PROVE  OrderInv'
  BY DEF OrderInv, Activating

LEMMA FailureOrder ==
  ASSUME IndInv, InLoop, node_fails \/ node_throws PROVE OrderInv'
<1>1. op' \notin {"startup", "resume"}
  BY PhaseFailsPost, NodeFailsPost DEF node_throws
<1>2. CASE op = "hard_reset" /\ next_node
  BY <1>1, <1>2, NoLoopOrder DEF next_node, Deactivating
<1>3. CASE phase_fails
  <2>1. \/ op' = "shutdown" /\ pos' = N + 1
        \/ op' \in {"hard_reset", "idle"}
    BY <1>3 DEF phase_fails, idle, begin
  <2> QED  BY <1>1, <2>1, NoLoopOrder DEF Deactivating
<1> QED  BY <1>2, <1>3 DEF node_fails, node_throws

LEMMA DeactivateLoop ==
  ASSUME IndInv, InLoop
  PROVE  Deactivating <=> transition = "deactivate" /\ op # "hard_reset"
<1>1. op \in Operations /\ phase \in 1..Len(Phases(op)) /\ pos \in 1..N
  BY LoopFacts
<1>2. pos <= N
  BY DEF InLoop
<1>3. CASE op \in {"startup", "resume"}
  BY <1>1, <1>3, LoopFacts DEF Deactivating
<1>4. CASE op = "pause"
  BY <1>1, <1>2, <1>4, PhasesOf DEF Deactivating, transition
<1>5. CASE op \in {"reset", "hard_reset"}
  BY <1>1, <1>2, <1>5, PhasesOf DEF Deactivating, transition
<1>6. CASE op = "shutdown"
  BY <1>1, <1>2, <1>6, PhasesOf DEF Deactivating, transition
<1> QED  BY <1>1, <1>3, <1>4, <1>5, <1>6 DEF Operations

(* change_state reaches the node of the position only, and that node is    *)
(* not yet behind the loop.                                                *)
LEMMA AnswerOrder == ASSUME IndInv, OrderInv, change_state_answer PROVE OrderInv'
<1>1. InLoop /\ TypeOK /\ UNCHANGED <<op, phase, pos>>
  BY DEF change_state_answer, IndInv
<1>2. /\ node_at(pos) \in Nodes /\ pos \in 1..N /\ phase \in 1..Len(Phases(op))
      /\ Len(Phases(op)) \in 1..3 /\ (Activating => node_at(pos) = pos)
  BY <1>1, LoopFacts
<1>3. \A m \in Nodes : m # node_at(pos) => node_state'[m] = node_state[m]
  BY <1>1 DEF change_state_answer, TypeOK
<1>4. Deactivating => node_at(pos) = N + 1 - pos
  BY <1>1, DeactivateLoop DEF node_at
<1>5. Activating' => \A m \in 1..(pos' - 1) : ActiveOrDied(m)'
  <2>1. \A m \in 1..(pos - 1) : m \in Nodes /\ m # pos
    BY <1>2 DEF Nodes
  <2>2. UNCHANGED crashes
    BY DEF change_state_answer
  <2> QED  BY <1>1, <1>2, <1>3, <2>1, <2>2 DEF OrderInv, Activating, ActiveOrDied, Died
<1>6. phase' # Len(Phases(op')) + 1
  BY <1>1, <1>2
<1>7. Deactivating' => \A m \in (N + 2 - pos')..N : node_state'[m] # "active"
  <2>1. \A m \in (N + 2 - pos)..N : m \in Nodes /\ m # N + 1 - pos
    BY <1>2 DEF Nodes
  <2> QED  BY <1>1, <1>3, <1>4, <2>1 DEF OrderInv, Deactivating
<1> QED  BY <1>5, <1>6, <1>7 DEF OrderInv

(* The loop moves on when get_state has confirmed the node's state.        *)
LEMMA AgreesOrder == ASSUME IndInv, OrderInv, get_state_agrees PROVE OrderInv'
<1>1. /\ InLoop /\ TypeOK /\ UNCHANGED node_state
      /\ node_state[node_at(pos)] = Target(transition)
  BY DEF get_state_agrees, IndInv
<1>2. CASE node_fails
  BY <1>1, <1>2, FailureOrder
<1>3. CASE next_node
  <2>0. UNCHANGED <<node_state, crashes>>
    BY DEF get_state_agrees
  <2>1. UNCHANGED <<op, phase>> /\ pos' = pos + 1 /\ pos \in 1..N
    BY <1>1, <1>3, LoopFacts DEF next_node
  <2>2. Activating' => \A m \in 1..(pos' - 1) : ActiveOrDied(m)'
    <3> SUFFICES ASSUME Activating, NEW m \in 1..pos PROVE ActiveOrDied(m)
      BY <1>1, <2>1, <2>0 DEF Activating, ActiveOrDied, Died
    <3>1. node_state[pos] = "active"
      BY <1>1, LoopFacts DEF Target
    <3>2. m \in 1..(pos - 1) \/ m = pos
      BY <2>1
    <3> QED  BY <3>1, <3>2 DEF OrderInv, ActiveOrDied
  <2>3. phase' # Len(Phases(op')) + 1
    BY <1>1, <2>1, LoopFacts
  <2>4. Deactivating' => \A m \in (N + 2 - pos')..N : node_state'[m] # "active"
    <3> SUFFICES ASSUME Deactivating', NEW m \in (N + 1 - pos)..N
                 PROVE  node_state[m] # "active"
      BY <1>1, <2>1
    <3>1. Deactivating
      BY <2>1 DEF Deactivating
    <3>2. transition = "deactivate"
      BY <1>1, <3>1, DeactivateLoop
    <3>3. node_state[N + 1 - pos] = "inactive"
      BY <1>1, <3>2 DEF Target, node_at
    <3>4. m \in (N + 2 - pos)..N \/ m = N + 1 - pos
      BY <2>1
    <3> QED  BY <3>1, <3>3, <3>4 DEF OrderInv
  <2> QED  BY <2>2, <2>3, <2>4 DEF OrderInv
<1> QED  BY <1>2, <1>3 DEF get_state_agrees

LEMMA PhaseDoneOrder == ASSUME IndInv, OrderInv, phase_done PROVE OrderInv'
<1>1. /\ TypeOK /\ UNCHANGED <<op, node_state, crashes>>
      /\ op \in Operations /\ phase <= Len(Phases(op)) /\ pos = N + 1
      /\ phase' = phase + 1 /\ pos' = 1 /\ phase \in 1..4
  BY DEF phase_done, Busy, IndInv, TypeOK
<1>2. Len(Phases(op)) \in 1..3
  BY <1>1, PhaseLengths DEF Operations
<1>3. Activating' => \A m \in 1..(pos' - 1) : ActiveOrDied(m)'
  BY <1>1
<1>4. op' \in {"startup", "resume"} /\ phase' = Len(Phases(op')) + 1
        => \A m \in Nodes : ActiveOrDied(m)'
  <2>1. phase' = Len(Phases(op')) + 1 => phase = Len(Phases(op))
    BY <1>1, <1>2
  <2> QED  BY <1>1, <2>1 DEF OrderInv, Activating, Nodes, ActiveOrDied, Died
<1>5. ~ Deactivating'
  BY <1>1 DEF Deactivating
<1> QED  BY <1>3, <1>4, <1>5 DEF OrderInv

(* A loop that begins has passed no node yet.                              *)
LEMMA BeginOrder ==
  ASSUME NEW o \in Operations \cup {"idle", "crashed"}, begin(o) PROVE OrderInv'
<1>1. op' = o /\ phase' = 1 /\ pos' = 1
  BY DEF begin
<1>2. op' \in {"startup", "resume"} => phase' # Len(Phases(op')) + 1
  BY <1>1, PhaseLengths
<1>3. (\A m \in 1..(pos' - 1) : FALSE) /\ (\A m \in (N + 2 - pos')..N : FALSE)
  BY <1>1
<1> QED  BY <1>2, <1>3 DEF OrderInv

LEMMA OrderInvInductive == IndInv /\ OrderInv /\ [Next]_vars => OrderInv'
<1> SUFFICES ASSUME IndInv, OrderInv, [Next]_vars PROVE OrderInv'
  OBVIOUS
<1>0. TypeOK
  BY DEF IndInv
<1>1. CASE null_client \/ operation_done
  BY <1>1, BeginOrder DEF null_client, operation_done, idle
<1>2. CASE change_state_send
  <2>1. CASE node_throws
    BY <1>2, <2>1, FailureOrder DEF change_state_send
  <2>2. CASE ~ node_throws
    BY <1>0, <1>2, <2>2, SameLoopOrder DEF change_state_send, NodesDegrade
  <2> QED  BY <2>1, <2>2
<1>3. CASE get_state_throws \/ get_state_differs
  BY <1>3, FailureOrder DEF get_state_throws, get_state_differs
<1>4. CASE change_state_answer \/ get_state_agrees \/ phase_done
  BY <1>4, AnswerOrder, AgreesOrder, PhaseDoneOrder
<1>5. ASSUME NEW c \in Commands, managerCallback(c) PROVE OrderInv'
  BY <1>5, BeginOrder DEF managerCallback, start_operation, Operations
<1>6. CASE checkBondConnections
  BY <1>6, BeginOrder DEF checkBondConnections, start_operation, Operations
<1>7. CASE checkBondRespawnConnection
  <2>1. CASE begin("crashed") \/ begin("startup")
    BY <2>1, BeginOrder DEF Operations
  <2>2. CASE UNCHANGED ctl
    BY <1>0, <1>7, <2>2, SameLoopOrder DEF checkBondRespawnConnection, ctl, NodesDegrade
  <2> QED  BY <1>7, <2>1, <2>2 DEF checkBondRespawnConnection
<1>8. CASE ServerStep
  <2>1. NodesDegrade
    BY <1>0, <1>8 DEF ServerStep, crash, respawn, bond_breaks, bond_changes, TypeOK, NodesDegrade
  <2>2. UNCHANGED <<op, phase, pos>>
    BY <1>8 DEF ServerStep, crash, respawn, bond_breaks, bond_changes, ctl
  <2> QED  BY <1>0, <2>1, <2>2, SameLoopOrder
<1>9. CASE UNCHANGED vars
  BY <1>0, <1>9, SameLoopOrder DEF vars, ctl, NodesDegrade
<1> QED
  BY <1>1, <1>2, <1>3, <1>4, <1>5, <1>6, <1>7, <1>8, <1>9 DEF Next, OperationStep

(* At every position of a loop, the nodes behind it are as it left them or *)
(* have failed since.                                                      *)
THEOREM OrderInvariance == Spec => []OrderInv
<1>1. Init => OrderInv
  BY PhaseLengths DEF Init, OrderInv, Activating, Deactivating
<1> QED  BY <1>1, Invariance, OrderInvInductive, PTL DEF Spec

(* Only an answer to change_state activates or deactivates a server.       *)
LEMMA OnlyAnswersActivate ==
  ASSUME IndInv, [Next]_vars, ~ change_state_answer PROVE NodesDegrade
<1>0. TypeOK
  BY DEF IndInv
<1>1. CASE OperationStep
  BY <1>1 DEF OperationStep, null_client, change_state_send, get_state_throws,
     get_state_differs, get_state_agrees, phase_done, operation_done, NodesDegrade
<1>2. CASE ServerStep
  BY <1>0, <1>2 DEF ServerStep, crash, respawn, bond_breaks, bond_changes, TypeOK, NodesDegrade
<1>3. CASE \/ \E c \in Commands : managerCallback(c)
           \/ checkBondConnections \/ checkBondRespawnConnection \/ UNCHANGED vars
  BY <1>3 DEF managerCallback, checkBondConnections, checkBondRespawnConnection, vars,
     NodesDegrade
<1> QED  BY <1>1, <1>2, <1>3 DEF Next

(* Servers are activated in the order of node_names_ and deactivated in    *)
(* the reverse order, whatever fails and crashes on the way.               *)
THEOREM ActivatesInOrder == Spec => DependencyOrder
<1> DEFINE Ordered(n) ==
      /\ node_state[n] # "active" /\ node_state'[n] = "active"
           => \A m \in 1..(n - 1) : ActiveOrDied(m)
      /\ node_state[n] = "active" /\ node_state'[n] = "inactive" /\ op # "hard_reset"
           => \A m \in (n + 1)..N : node_state[m] # "active"
<1>1. ASSUME IndInv, OrderInv, [Next]_vars, NEW n \in Nodes PROVE Ordered(n)
  <2>1. CASE ~ change_state_answer
    BY <1>1, <2>1, OnlyAnswersActivate DEF NodesDegrade
  <2>2. CASE change_state_answer
    <3>0. InLoop /\ TypeOK
      BY <1>1, <2>2 DEF change_state_answer, IndInv
    <3>1. /\ node_at(pos) \in Nodes /\ pos \in 1..N
          /\ transition = "activate" <=> Activating
          /\ transition = "activate" => node_at(pos) = pos
          /\ transition \in {"configure", "activate", "deactivate", "cleanup", "shutdown"}
      BY <1>1, <3>0, LoopFacts
    <3>2. CASE n # node_at(pos)
      BY <2>2, <3>0, <3>1, <3>2 DEF change_state_answer, TypeOK
    <3>3. CASE n = node_at(pos)
      <4>1. \/ node_state'[n] \in {node_state[n], "unconfigured"}
            \/ node_state[n] = Source(transition) /\ node_state'[n] = Target(transition)
        BY <2>2, <3>0, <3>1, <3>3 DEF change_state_answer, TypeOK
      <4>2. node_state[n] # "active" /\ node_state'[n] = "active" => transition = "activate"
        BY <3>1, <4>1 DEF Target
      <4>3. node_state[n] = "active" /\ node_state'[n] = "inactive" => transition = "deactivate"
        BY <3>1, <4>1 DEF Source
      <4>4. transition = "activate" => \A m \in 1..(n - 1) : ActiveOrDied(m)
        BY <1>1, <3>1, <3>3 DEF OrderInv
      <4>5. transition = "deactivate" /\ op # "hard_reset"
              => \A m \in (n + 1)..N : node_state[m] # "active"
        <5> SUFFICES ASSUME transition = "deactivate", op # "hard_reset", NEW m \in (n + 1)..N
                     PROVE  node_state[m] # "active"
          OBVIOUS
        <5>1. Deactivating
          BY <1>1, <3>0, DeactivateLoop
        <5>2. n = N + 1 - pos
          BY <3>3 DEF node_at
        <5>3. m \in (N + 2 - pos)..N
          BY <3>1, <5>2
        <5> QED  BY <1>1, <5>1, <5>3 DEF OrderInv
      <4> QED  BY <4>2, <4>3, <4>4, <4>5
    <3> QED  BY <3>2, <3>3
  <2> QED  BY <2>1, <2>2
<1>2. IndInv /\ OrderInv /\ [Next]_vars => [\A n \in Nodes : Ordered(n)]_vars
  BY <1>1
<1> QED  BY <1>2, Invariance, OrderInvariance, PTL DEF Spec, DependencyOrder

(* The system is reported active only when its activate loop has confirmed *)
(* every server, and a server that is not active then has died since, with *)
(* its bond and the bond timer left to notice.                             *)
THEOREM ReportsOnlyActive == Spec => ActiveWhenReported
<1> DEFINE Reported(n) ==
      \/ node_state[n] = "active"
      \/ Died(n) /\ (BondTimeout => bond_timer' /\ bond_map[n] # "none")
<1>1. ASSUME IndInv, OrderInv, [Next]_vars, ~ system_active, system_active'
      PROVE  \A n \in Nodes : Reported(n)
  <2>1. CASE operation_done
    <3>1. op \in {"startup", "resume"} /\ phase = Len(Phases(op)) + 1
      BY <1>1, <2>1 DEF operation_done
    <3>2. BondTimeout => bond_timer' /\ \A n \in Nodes : bond_map[n] # "none"
      BY <1>1, <2>1, <3>1 DEF operation_done, IndInv, BondsSoFar
    <3> QED  BY <1>1, <3>1, <3>2 DEF OrderInv, ActiveOrDied
  <2>2. CASE ~ operation_done
    <3>1. CASE OperationStep
      BY <1>1, <2>2, <3>1 DEF OperationStep, null_client, change_state_send,
         change_state_answer, get_state_throws, get_state_differs, get_state_agrees, phase_done
    <3>2. CASE ServerStep
      BY <1>1, <3>2 DEF ServerStep, crash, respawn, bond_breaks, bond_changes
    <3>3. CASE \/ \E c \in Commands : managerCallback(c)
               \/ checkBondConnections \/ checkBondRespawnConnection \/ UNCHANGED vars
      BY <1>1, <3>3 DEF managerCallback, checkBondConnections, checkBondRespawnConnection,
         start_operation, vars
    <3> QED  BY <1>1, <3>1, <3>2, <3>3 DEF Next
  <2> QED  BY <2>1, <2>2
<1>2. IndInv /\ OrderInv /\ [Next]_vars
        => [~ system_active /\ system_active' => \A n \in Nodes : Reported(n)]_vars
  BY <1>1
<1> QED  BY <1>2, Invariance, OrderInvariance, PTL DEF Spec, ActiveWhenReported
=============================================================================
