--------------------------- MODULE OffboardControl ---------------------------
(***************************************************************************)
(* nav3d_px4_bridge::OffboardControl: the node between the controller and  *)
(* PX4.  A timer publishes one setpoint per period (the controller's       *)
(* waypoint while it is fresh, the take-off point, or the point to hover   *)
(* at) and, once PX4 has seen enough of them, asks for offboard mode and   *)
(* for arming until the vehicle says that it has both.                     *)
(*                                                                         *)
(* Time is counted in timer periods.  Of a pose only its altitude is kept, *)
(* in the odometry frame: the axes, the yaw and the offset to PX4's frame  *)
(* are arithmetic on numbers and steer nothing here.                       *)
(***************************************************************************)
EXTENDS Naturals

CONSTANTS Altitudes,        \* the altitudes odometry and waypoints report
          TakeoffAltitude,  \* takeoff_altitude_
          WaypointTimeout,  \* waypoint_timeout_s_ in timer periods
          WarmupCount,      \* offboard_warmup_s_ * control_rate_hz_, rounded up
          RetryPeriod,      \* offboard_command_retry_s_ in timer periods
          None,             \* a value that has not been set
          MaxDrops          \* bound: how often the vehicle leaves offboard or disarms

ASSUME AltitudesAssumption == Altitudes \subseteq Nat /\ None \notin Nat
ASSUME PeriodsAssumption ==
    /\ TakeoffAltitude \in Nat
    /\ WaypointTimeout \in Nat \ {0}  \* a waypoint is fresh for at least a period
    /\ WarmupCount \in Nat
    /\ RetryPeriod \in Nat \ {0}
    /\ MaxDrops \in Nat

VARIABLES odom,               \* altitude of current_odom_, None before the first
          waypoint,           \* current_waypoint_ned_
          waypoint_age,       \* periods since last_waypoint_time_, at most WaypointTimeout
          last_valid,         \* last_valid_setpoint_enu_
          takeoff_target,     \* takeoff_target_altitude_, set with takeoff_start_enu_
          takeoff_completed,  \* takeoff_completed_
          setpoint,           \* the setpoint of the last period, None if it had none
          setpoint_counter,   \* offboard_setpoint_counter_
          command_age,        \* periods since last_offboard_command_time_, at most
                              \* RetryPeriod; None if offboard_command_sent_ is not set
          commands,           \* vehicle commands under way
          vehicle,            \* what the vehicle has got of {"offboard", "armed"}
          vehicle_status,     \* vehicle_status_: what it last said of it
          drops

setpoints == <<waypoint, last_valid, takeoff_target, takeoff_completed, setpoint>>
link == <<commands, vehicle, vehicle_status, drops>>
vars == <<odom, waypoint_age, setpoints, setpoint_counter, command_age, link>>

Modes == {"offboard", "armed"}

TypeOK ==
    /\ odom \in Altitudes \cup {None}
    /\ waypoint \in Altitudes \cup {None}
    /\ waypoint_age \in 0..WaypointTimeout
    /\ last_valid \in Nat \cup {None}
    /\ takeoff_target \in Nat \cup {None}
    /\ takeoff_completed \in BOOLEAN
    /\ setpoint \in Nat \cup {None}
    /\ setpoint_counter \in Nat
    /\ command_age \in 0..RetryPeriod \cup {None}
    /\ commands \subseteq Modes
    /\ vehicle \subseteq Modes
    /\ vehicle_status \subseteq Modes
    /\ drops \in 0..MaxDrops

-----------------------------------------------------------------------------
(* The subscriptions.                                                      *)

odomCallback(z) ==
    /\ odom' = z
    /\ UNCHANGED <<waypoint_age, setpoints, setpoint_counter, command_age, link>>

(* Fault: a waypoint is not remembered for hovering.                       *)
waypointCallback_forgets(z) ==
    /\ waypoint' = z
    /\ waypoint_age' = 0
    /\ UNCHANGED <<odom, last_valid, takeoff_target, takeoff_completed, setpoint,
                   setpoint_counter, command_age, link>>

(* A waypoint is also the point to hover at from now on.                   *)
waypointCallback(z) ==
    /\ waypoint' = z
    /\ waypoint_age' = 0
    /\ last_valid' = z
    /\ UNCHANGED <<odom, takeoff_target, takeoff_completed, setpoint, setpoint_counter,
                   command_age, link>>

vehicleStatusCallback ==
    /\ vehicle_status' = vehicle
    /\ UNCHANGED <<odom, waypoint_age, setpoints, setpoint_counter, command_age,
                   commands, vehicle, drops>>

-----------------------------------------------------------------------------
(* The timer.                                                              *)

has_fresh_waypoint == waypoint # None /\ waypoint_age < WaypointTimeout

(* isTakeoffComplete(): within the tolerance once is enough.               *)
isTakeoffComplete ==
    takeoff_target # None /\ (takeoff_completed \/ odom = takeoff_target)

publishWaypoint ==
    /\ setpoint' = waypoint
    /\ UNCHANGED <<waypoint, last_valid, takeoff_target, takeoff_completed>>

publishHoverSetpoint ==
    /\ setpoint' = last_valid
    /\ takeoff_completed' = TRUE
    /\ UNCHANGED <<waypoint, last_valid, takeoff_target>>

(* Fault: the take-off point is not remembered for hovering.               *)
publishTakeoffSetpoint_forgets ==
    LET target == IF takeoff_target = None THEN odom + TakeoffAltitude
                                           ELSE takeoff_target
    IN /\ takeoff_target' = target
       /\ setpoint' = target
       /\ UNCHANGED <<waypoint, last_valid, takeoff_completed>>

(* The take-off starts where the vehicle is when it is first asked for.    *)
publishTakeoffSetpoint ==
    LET target == IF takeoff_target = None THEN odom + TakeoffAltitude
                                           ELSE takeoff_target
    IN /\ takeoff_target' = target
       /\ last_valid' = target
       /\ setpoint' = target
       /\ UNCHANGED <<waypoint, takeoff_completed>>

required_setpoints == IF WarmupCount = 0 THEN 1 ELSE WarmupCount

(* One period passes for a timestamp.                                      *)
older(age, limit) == IF age < limit THEN age + 1 ELSE age

older_command == IF command_age = None THEN None ELSE older(command_age, RetryPeriod)

(* Fault: the commands are sent once.                                      *)
sendCommands_once ==
    IF vehicle_status # Modes /\ command_age = None
    THEN commands' = Modes /\ command_age' = older(0, RetryPeriod)
    ELSE UNCHANGED commands /\ command_age' = older_command

(* Once the vehicle has seen enough setpoints: ask again for what it does  *)
(* not report, when it has not been asked for RetryPeriod.  Both commands  *)
(* are sent on a best-effort topic of depth one.                           *)
sendCommands ==
    IF vehicle_status # Modes /\ command_age \in {None, RetryPeriod}
    THEN commands' = Modes /\ command_age' = older(0, RetryPeriod)
    ELSE UNCHANGED commands /\ command_age' = older_command

(* timerCallback: without odometry only the heartbeat is published.        *)
timerCallback ==
    /\ odom # None
    /\ \/ has_fresh_waypoint /\ publishWaypoint
       \/ ~ has_fresh_waypoint /\ isTakeoffComplete /\ publishHoverSetpoint
       \/ ~ has_fresh_waypoint /\ ~ isTakeoffComplete /\ publishTakeoffSetpoint
    /\ IF setpoint_counter < required_setpoints
       THEN /\ setpoint_counter' = setpoint_counter + 1
            /\ command_age' = older_command
            /\ UNCHANGED commands
       ELSE /\ sendCommands
            /\ UNCHANGED setpoint_counter
    /\ waypoint_age' = older(waypoint_age, WaypointTimeout)
    /\ UNCHANGED <<odom, vehicle, vehicle_status, drops>>

-----------------------------------------------------------------------------
(* The vehicle.                                                            *)

obey(m) ==
    /\ m \in commands
    /\ vehicle' = vehicle \cup {m}
    /\ commands' = commands \ {m}
    /\ UNCHANGED <<odom, waypoint_age, setpoints, setpoint_counter, command_age,
                   vehicle_status, drops>>

lose(m) ==
    /\ m \in commands
    /\ commands' = commands \ {m}
    /\ UNCHANGED <<odom, waypoint_age, setpoints, setpoint_counter, command_age,
                   vehicle, vehicle_status, drops>>

(* The pilot or a failsafe takes over.                                     *)
drop(m) ==
    /\ m \in vehicle
    /\ drops < MaxDrops
    /\ drops' = drops + 1
    /\ vehicle' = vehicle \ {m}
    /\ UNCHANGED <<odom, waypoint_age, setpoints, setpoint_counter, command_age,
                   commands, vehicle_status>>

Init ==
    /\ odom = None
    /\ waypoint = None
    /\ waypoint_age = WaypointTimeout
    /\ last_valid = None
    /\ takeoff_target = None
    /\ takeoff_completed = FALSE
    /\ setpoint = None
    /\ setpoint_counter = 0
    /\ command_age = None
    /\ commands = {}
    /\ vehicle = {}
    /\ vehicle_status = {}
    /\ drops = 0

Next ==
    \/ timerCallback
    \/ \E z \in Altitudes : odomCallback(z) \/ waypointCallback(z)
    \/ vehicleStatusCallback
    \/ \E m \in Modes : obey(m) \/ lose(m) \/ drop(m)

Spec == Init /\ [][Next]_vars

(* The timer fires, the vehicle goes on reporting its status, and of the   *)
(* commands that are sent again and again one gets through.                *)
FairSpec ==
    /\ Spec
    /\ WF_vars(timerCallback)
    /\ WF_vars(vehicleStatusCallback)
    /\ \A m \in Modes : SF_vars(obey(m))

-----------------------------------------------------------------------------
(* Properties.                                                             *)

(* The stream of setpoints never has a gap: from the first period that had *)
(* one, every period has one, whichever of the three branches it takes.    *)
(* (PX4 leaves offboard mode when the stream stops.)                       *)
StreamHasNoGap == setpoint_counter > 0 => setpoint # None

(* ... which rests on this: whatever may be published is there.            *)
HoverPointKnown ==
    /\ takeoff_target # None => last_valid # None
    /\ waypoint # None => last_valid # None

(* When the waypoints stop coming after the take-off, the vehicle is told  *)
(* to stay at the last setpoint it was given, and at no older one.         *)
HoverHoldsPosition ==
    [][timerCallback /\ ~ has_fresh_waypoint /\ isTakeoffComplete
         => setpoint' = setpoint]_vars

(* No command is sent before PX4 has seen the setpoints it asks for.       *)
WarmupFirst == command_age # None => setpoint_counter >= required_setpoints

(* The point to hover at is the last setpoint that was published, but for  *)
(* a waypoint that will be published in the next period; a fresh waypoint  *)
(* is that point.                                                          *)
HoverPointPublished ==
    last_valid # None =>
      last_valid = setpoint \/ (last_valid = waypoint /\ waypoint_age = 0)

FreshIsLast == has_fresh_waypoint => last_valid = waypoint

IndInv == /\ TypeOK /\ HoverPointKnown /\ StreamHasNoGap /\ WarmupFirst
          /\ HoverPointPublished /\ FreshIsLast

(* With odometry the vehicle is in offboard mode and armed in the end,     *)
(* although commands and status messages are lost or late, and again after *)
(* it has dropped out.                                                     *)
EngagedInTheEnd == odom # None ~> vehicle = Modes
=============================================================================
