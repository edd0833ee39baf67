------------------------ MODULE OffboardControlProofs ------------------------
(***************************************************************************)
(* Proofs about OffboardControl, for every set of altitudes and all        *)
(* timeouts: the stream of setpoints has no gap, no command precedes the   *)
(* warm-up, and hovering keeps the last setpoint.                          *)
(***************************************************************************)
EXTENDS OffboardControl, TLAPS

USE AltitudesAssumption, PeriodsAssumption

(* The part of the invariant that is about the setpoints, and the part     *)
(* that is about ages, commands and the vehicle.                           *)
SetpointTypes ==
    /\ odom \in Altitudes \cup {None}
    /\ waypoint \in Altitudes \cup {None}
    /\ last_valid \in Nat \cup {None}
    /\ takeoff_target \in Nat \cup {None}
    /\ takeoff_completed \in BOOLEAN
    /\ setpoint \in Nat \cup {None}

LinkTypes ==
    /\ waypoint_age \in 0..WaypointTimeout
    /\ setpoint_counter \in Nat
    /\ command_age \in 0..RetryPeriod \cup {None}
    /\ commands \subseteq Modes
    /\ vehicle \subseteq Modes
    /\ vehicle_status \subseteq Modes
    /\ drops \in 0..MaxDrops

LEMMA TypesSplit == TypeOK <=> SetpointTypes /\ LinkTypes
  BY DEF TypeOK, SetpointTypes, LinkTypes

(* A timestamp stays within its limit as it gets older.                    *)
LEMMA OlderBound ==
  ASSUME NEW limit \in Nat \ {0}, NEW age \in 0..limit
  PROVE  /\ older(age, limit) \in 0..limit
         /\ older(age, limit) # 0
  BY DEF older

LEMMA OlderCommandType ==
  ASSUME command_age \in 0..RetryPeriod \cup {None}
  PROVE  /\ older_command \in 0..RetryPeriod \cup {None}
         /\ older_command = None <=> command_age = None
  BY OlderBound DEF older_command

-----------------------------------------------------------------------------
(* A period of the timer.                                                  *)

(* Each of the three branches publishes a setpoint, and leaves it as the   *)
(* point to hover at.                                                      *)
LEMMA TimerPublishes ==
  ASSUME IndInv, timerCallback
  PROVE  /\ SetpointTypes'
         /\ setpoint' # None
         /\ last_valid' = setpoint'
         /\ UNCHANGED <<odom, waypoint>>
<1>0. SetpointTypes /\ odom \in Nat /\ HoverPointKnown /\ HoverPointPublished
  BY TypesSplit DEF IndInv, timerCallback, SetpointTypes
<1>1. UNCHANGED odom
  BY DEF timerCallback
<1>2. CASE has_fresh_waypoint /\ publishWaypoint
  <2>1. /\ waypoint # None /\ setpoint' = waypoint
        /\ UNCHANGED <<waypoint, last_valid, takeoff_target, takeoff_completed>>
    BY <1>2 DEF has_fresh_waypoint, publishWaypoint
  <2>2. last_valid = waypoint
    BY <1>2 DEF IndInv, FreshIsLast
  <2> QED  BY <1>0, <1>1, <2>1, <2>2 DEF SetpointTypes
<1>3. CASE isTakeoffComplete /\ publishHoverSetpoint
  <2>1. /\ takeoff_target # None /\ setpoint' = last_valid /\ takeoff_completed' = TRUE
        /\ UNCHANGED <<waypoint, last_valid, takeoff_target>>
    BY <1>3 DEF isTakeoffComplete, publishHoverSetpoint
  <2>2. last_valid # None
    BY <1>0, <2>1 DEF HoverPointKnown
  <2> QED  BY <1>0, <1>1, <2>1, <2>2 DEF SetpointTypes
<1>4. CASE publishTakeoffSetpoint
  <2> DEFINE target == IF takeoff_target = None THEN odom + TakeoffAltitude
                       ELSE takeoff_target
  <2>1. target \in Nat
    BY <1>0 DEF SetpointTypes
  <2>2. /\ takeoff_target' = target /\ last_valid' = target /\ setpoint' = target
        /\ UNCHANGED <<waypoint, takeoff_completed>>
    BY <1>4 DEF publishTakeoffSetpoint
  <2> QED  BY <1>0, <1>1, <2>1, <2>2 DEF SetpointTypes
<1> QED  BY <1>2, <1>3, <1>4 DEF timerCallback

(* The counters and the commands of a period.                              *)
LEMMA TimerCounts ==
  ASSUME IndInv, timerCallback
  PROVE  /\ LinkTypes'
         /\ WarmupFirst'
         /\ waypoint_age' # 0
         /\ setpoint_counter' > 0
<1>0. LinkTypes /\ WarmupFirst
  BY TypesSplit DEF IndInv
<1>1. waypoint_age' \in 0..WaypointTimeout /\ waypoint_age' # 0
  BY <1>0, OlderBound DEF timerCallback, LinkTypes
<1>2. UNCHANGED <<vehicle, vehicle_status, drops>>
  BY DEF timerCallback
<1>3. required_setpoints \in Nat /\ required_setpoints > 0
  BY DEF required_setpoints
<1>4. CASE setpoint_counter < required_setpoints
  <2>1. /\ setpoint_counter' = setpoint_counter + 1
        /\ command_age' = older_command /\ UNCHANGED commands
    BY <1>4 DEF timerCallback
  <2>2. command_age = None
    BY <1>0, <1>3, <1>4 DEF WarmupFirst, LinkTypes
  <2>3. command_age' = None
    BY <1>0, <2>1, <2>2, OlderCommandType DEF LinkTypes
  <2> QED
    BY <1>0, <1>1, <1>2, <2>1, <2>3 DEF LinkTypes, WarmupFirst
<1>5. CASE ~ (setpoint_counter < required_setpoints)
  <2>1. sendCommands /\ UNCHANGED setpoint_counter
    BY <1>5 DEF timerCallback
  <2>2. command_age' \in 0..RetryPeriod \cup {None}
    BY <1>0, <2>1, OlderBound, OlderCommandType DEF sendCommands, LinkTypes
  <2>3. commands' \subseteq Modes
    BY <1>0, <2>1 DEF sendCommands, LinkTypes
  <2>4. setpoint_counter' >= required_setpoints' /\ setpoint_counter' > 0
    BY <1>0, <1>3, <1>5, <2>1 DEF LinkTypes, required_setpoints
  <2> QED
    BY <1>0, <1>1, <1>2, <2>1, <2>2, <2>3, <2>4 DEF LinkTypes, WarmupFirst
<1> QED  BY <1>4, <1>5

-----------------------------------------------------------------------------
(* The invariant.                                                          *)

LEMMA InitIndInv == Init => IndInv
<1> SUFFICES ASSUME Init PROVE IndInv
  OBVIOUS
<1>1. SetpointTypes
  BY DEF Init, SetpointTypes
<1>2. LinkTypes
  BY DEF Init, LinkTypes
<1>3. HoverPointKnown /\ HoverPointPublished /\ WarmupFirst
  BY DEF Init, HoverPointKnown, HoverPointPublished, WarmupFirst
<1>4. StreamHasNoGap
  BY DEF Init, StreamHasNoGap
<1>5. FreshIsLast
  BY DEF Init, FreshIsLast, has_fresh_waypoint
<1> QED  BY <1>1, <1>2, <1>3, <1>4, <1>5, TypesSplit DEF IndInv

LEMMA NextIndInv == IndInv /\ [Next]_vars => IndInv'
<1> SUFFICES ASSUME IndInv, [Next]_vars PROVE IndInv'
  OBVIOUS
<1> USE DEF HoverPointKnown, StreamHasNoGap, HoverPointPublished, FreshIsLast,
            has_fresh_waypoint
<1>0. /\ SetpointTypes /\ LinkTypes /\ HoverPointKnown /\ StreamHasNoGap
      /\ WarmupFirst /\ HoverPointPublished /\ FreshIsLast
  BY TypesSplit DEF IndInv
<1>1. CASE timerCallback
  <2>1. /\ SetpointTypes' /\ setpoint' # None /\ last_valid' = setpoint'
    BY <1>1, TimerPublishes
  <2>2. LinkTypes' /\ WarmupFirst' /\ waypoint_age' # 0
    BY <1>1, TimerCounts
  <2>3. has_fresh_waypoint' => has_fresh_waypoint /\ publishWaypoint /\ UNCHANGED waypoint
    <3>1. UNCHANGED waypoint
      BY <1>1, TimerPublishes
    <3>2. waypoint_age' < WaypointTimeout => waypoint_age < WaypointTimeout
      BY <1>0, <1>1 DEF timerCallback, older, LinkTypes
    <3>3. has_fresh_waypoint' => has_fresh_waypoint
      BY <3>1, <3>2
    <3> QED  BY <1>1, <3>1, <3>3 DEF timerCallback
  <2>4. FreshIsLast'
    BY <1>0, <2>1, <2>3 DEF publishWaypoint
  <2>5. TypeOK'
    BY <2>1, <2>2, TypesSplit DEF TypeOK, SetpointTypes, LinkTypes
  <2>6. HoverPointKnown' /\ StreamHasNoGap' /\ HoverPointPublished'
    BY <2>1
  <2> QED  BY <2>2, <2>4, <2>5, <2>6 DEF IndInv
<1>2. CASE \E z \in Altitudes : odomCallback(z)
  <2>1. /\ odom' \in Altitudes
        /\ UNCHANGED <<waypoint_age, setpoints, setpoint_counter, command_age, link>>
    BY <1>2 DEF odomCallback
  <2>2. TypeOK'
    BY <1>0, <2>1 DEF TypeOK, SetpointTypes, LinkTypes, setpoints, link
  <2>3. WarmupFirst'
    BY <1>0, <2>1 DEF WarmupFirst, required_setpoints
  <2>4. HoverPointKnown' /\ StreamHasNoGap' /\ HoverPointPublished' /\ FreshIsLast'
    BY <1>0, <2>1 DEF setpoints
  <2> QED  BY <2>2, <2>3, <2>4 DEF IndInv
<1>3. CASE \E z \in Altitudes : waypointCallback(z)
  <2>1. /\ waypoint' \in Altitudes /\ last_valid' = waypoint' /\ waypoint_age' = 0
        /\ UNCHANGED <<odom, takeoff_target, takeoff_completed, setpoint,
                       setpoint_counter, command_age, link>>
    BY <1>3 DEF waypointCallback
  <2>2. TypeOK'
    BY <1>0, <2>1 DEF TypeOK, SetpointTypes, LinkTypes, link
  <2>3. WarmupFirst'
    BY <1>0, <2>1 DEF WarmupFirst, required_setpoints
  <2>4. waypoint' # None
    BY <2>1
  <2>5. HoverPointKnown' /\ StreamHasNoGap' /\ HoverPointPublished' /\ FreshIsLast'
    BY <1>0, <2>1, <2>4
  <2> QED  BY <2>2, <2>3, <2>5 DEF IndInv
<1>4. CASE vehicleStatusCallback \/ \E m \in Modes : obey(m) \/ lose(m) \/ drop(m)
  <2>1. UNCHANGED <<odom, waypoint_age, setpoints, setpoint_counter, command_age>>
    BY <1>4 DEF vehicleStatusCallback, obey, lose, drop
  <2>2. /\ commands' \subseteq Modes /\ vehicle' \subseteq Modes
        /\ vehicle_status' \subseteq Modes /\ drops' \in 0..MaxDrops
    BY <1>0, <1>4 DEF vehicleStatusCallback, obey, lose, drop, LinkTypes
  <2>3. TypeOK'
    BY <1>0, <2>1, <2>2 DEF TypeOK, SetpointTypes, LinkTypes, setpoints
  <2>4. WarmupFirst'
    BY <1>0, <2>1 DEF WarmupFirst, required_setpoints
  <2>5. HoverPointKnown' /\ StreamHasNoGap' /\ HoverPointPublished' /\ FreshIsLast'
    BY <1>0, <2>1 DEF setpoints
  <2> QED  BY <2>3, <2>4, <2>5 DEF IndInv
<1>5. CASE UNCHANGED vars
  <2>1. TypeOK'
    BY <1>0, <1>5 DEF TypeOK, SetpointTypes, LinkTypes, vars, setpoints, link
  <2>2. WarmupFirst'
    BY <1>0, <1>5 DEF WarmupFirst, required_setpoints, vars
  <2>3. HoverPointKnown' /\ StreamHasNoGap' /\ HoverPointPublished' /\ FreshIsLast'
    BY <1>0, <1>5 DEF vars, setpoints
  <2> QED  BY <2>1, <2>2, <2>3 DEF IndInv
<1> QED  BY <1>1, <1>2, <1>3, <1>4, <1>5 DEF Next

(* The invariant of the bridge, and with it its types.                     *)
THEOREM Invariance == Spec => []IndInv
<1> QED  BY InitIndInv, NextIndInv, PTL DEF Spec

(* PX4 gets a setpoint in every period from the first one on.              *)
THEOREM StreamIsSteady == Spec => []StreamHasNoGap
<1>1. IndInv => StreamHasNoGap
  BY DEF IndInv
<1> QED  BY <1>1, Invariance, PTL

(* No command is sent before the warm-up is over.                          *)
THEOREM WarmupPrecedesCommands == Spec => []WarmupFirst
<1>1. IndInv => WarmupFirst
  BY DEF IndInv
<1> QED  BY <1>1, Invariance, PTL

(* Hovering means staying at the last setpoint.                            *)
THEOREM HoverHolds == Spec => HoverHoldsPosition
<1>1. ASSUME IndInv, timerCallback, ~ has_fresh_waypoint, isTakeoffComplete
      PROVE  setpoint' = setpoint
  <2>1. setpoint' = last_valid
    BY <1>1 DEF timerCallback, publishHoverSetpoint
  <2>2. last_valid # None
    BY <1>1 DEF IndInv, HoverPointKnown, isTakeoffComplete
  <2>3. ~ (last_valid = waypoint /\ waypoint_age = 0)
    BY <1>1, <2>2 DEF has_fresh_waypoint
  <2> QED  BY <1>1, <2>1, <2>2, <2>3 DEF IndInv, HoverPointPublished
<1>2. IndInv => [timerCallback /\ ~ has_fresh_waypoint /\ isTakeoffComplete
                   => setpoint' = setpoint]_vars
  BY <1>1
<1> QED  BY <1>2, Invariance, PTL DEF HoverHoldsPosition
=============================================================================
