---------------------------- MODULE MCTaskServers ---------------------------
(***************************************************************************)
(* The task servers built on SimpleActionServer, each a system of its own: *)
(* server says which one a behavior is about.                              *)
(***************************************************************************)
EXTENDS ControllerServer, PlannerServer, SmootherServer, TimedBehavior, WaypointFollower

VARIABLE server

plannerOnly == <<goal, left, planned>>
behaviorOnly == <<plugin, enabled, excused>>
all == <<vars, taskVars, server, controlVars, plannerOnly, behaviorOnly, clientVars, handlerVars>>

\* The variables of the other servers keep their initial values.
MCInit ==
  /\ server \in {"controller", "planner", "smoother", "behavior", "follower"}
  /\ ControllerInit /\ PlannerInit /\ SmootherInit /\ BehaviorInit /\ FollowerInit
  /\ server # "behavior" => plugin = "Wait"

Rest ==
  /\ UNCHANGED server
  /\ server # "controller" => UNCHANGED controlVars
  /\ server # "planner" => UNCHANGED plannerOnly
  /\ server # "behavior" => UNCHANGED behaviorOnly
  /\ server # "follower" => NoClient /\ NoHandler

MCNext ==
  /\ Rest
  /\ \/ server = "controller" /\ ControllerNext
     \/ server = "planner" /\ PlannerNext
     \/ server = "smoother" /\ SmootherNext
     \/ server = "behavior" /\ BehaviorNext
     \/ server = "follower" /\ FollowerNext

\* The callback is scheduled.
Callback(w) ==
  /\ Rest
  /\ \/ server = "controller" /\ (Control(w) \/ computeControl_canceled)
     \/ server = "planner" /\ Plan(w)
     \/ server = "smoother" /\ Smooth(w)
     \/ server = "behavior" /\ Behavior(w) /\ UNCHANGED plugin

\* A cycle that is repeated ends the behavior, by success or by time.
CycleEnds(w) ==
  /\ Rest /\ server = "behavior" /\ UNCHANGED plugin
  /\ onCycleUpdate(w)
  /\ pc' # "loop"

\* deactivate() returns once the callback is over.
Deactivated ==
  /\ Rest /\ lifecycle # "idle"
  /\ \/ server = "controller" /\ ControllerServer_on_deactivated
     \/ server = "planner" /\ PlannerServer_on_deactivate
     \/ server = "smoother" /\ SmootherServer_on_deactivate
     \/ server = "behavior" /\ TimedBehavior_deactivated /\ UNCHANGED plugin
  /\ lifecycle' = "idle"

MCSpec ==
  /\ MCInit /\ [][MCNext]_all
  /\ \A w \in Worker : WF_all(Callback(w)) /\ SF_all(CycleEnds(w))
  /\ WF_all(Deactivated)

\* No server leaves the robot moving: the controller server never, a behavior
\* only where it had no pose or no publisher to stop it with.
LeavesRobotStanding ==
  /\ server = "controller" => RobotStops
  /\ server = "behavior" => BehaviorStops

\* Deactivating a server that was given a goal comes to an end.  The waypoint
\* follower is left out: it never asks whether its server is still active, and
\* goes on for as long as it has waypoints or loops.
DeactivationEnds == server = "follower" \/ DeactivationCompletes

=============================================================================
