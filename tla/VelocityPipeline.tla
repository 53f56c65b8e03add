-------------------------- MODULE VelocityPipeline --------------------------
(***************************************************************************)
(* The way a velocity takes from the task servers to the robot:            *)
(*   task servers --> smoother --cmd_vel_smoothed--> monitor --> robot     *)
(* The nodes are activated and deactivated in any order: the lifecycle     *)
(* manager activates the smoother before the monitor, deactivates the      *)
(* monitor first, and either may be changed on its own.                    *)
(***************************************************************************)
EXTENDS VelocitySmoother, CollisionMonitor

CONSTANT
  Command     \* the velocities the task servers ask for

ASSUME CommandAssumption == Command \subseteq Int

\* Whatever the smoother may send, the monitor is ready for.
ASSUME IncomingAssumption == \A x \in Velocity : <<4 * x, 0>> \in Incoming

VARIABLES
  open_loop,  \* open_loop_: the feedback parameter
  silent,     \* the task servers send no more velocities
  dropped     \* the monitor ignored the last velocity the smoother sent

vars == <<smootherVars, monitorVars, open_loop, silent, dropped>>

Init ==
  /\ SmootherInit /\ MonitorInit
  /\ open_loop \in BOOLEAN /\ silent = FALSE /\ dropped = FALSE

\* A velocity of a task server reaches the smoother.
commands ==
  /\ ~silent
  /\ \E v \in Command, stamp \in {"none", "fresh", "late", "invalid"} :
       inputCommandStampedCallback(v, stamp)
  /\ UNCHANGED <<monitorVars, silent, dropped>>

\* Navigation ends, or begins again.
fallsSilent == silent' = ~silent /\ UNCHANGED <<smootherVars, monitorVars, dropped>>

\* The odometry: what the robot was last sent, in the smoother's unit.
odom == IF cmd_vel_out[1] < 0 THEN -((-cmd_vel_out[1]) \div 4) ELSE cmd_vel_out[1] \div 4

smoothes ==
  /\ smootherTimer(IF open_loop THEN last_cmd.v ELSE odom)
  /\ UNCHANGED <<monitorVars, silent, dropped>>

commandAges == timeout /\ UNCHANGED <<monitorVars, silent, dropped>>

\* The monitor's subscription hands on a velocity, whether or not it is active.
cmdVelInCallbackStamped ==
  /\ cmd_vel_smoothed # None
  /\ process(<<4 * cmd_vel_smoothed, 0>>)
  /\ dropped' = ~process_active
  /\ cmd_vel_smoothed' = None
  /\ UNCHANGED <<command, expired, last_cmd, stopped, timer, silent>>

Surroundings ==
  /\ stop_pub_timeout \/ \E s \in Source : dataCallback(s) \/ sourceExpires(s)
  /\ UNCHANGED <<smootherVars, silent, dropped>>

Transitions ==
  \/ /\ VelocitySmoother_on_activate \/ VelocitySmoother_on_deactivate
     /\ UNCHANGED <<monitorVars, silent, dropped>>
  \/ /\ CollisionMonitor_on_activate \/ CollisionMonitor_on_deactivate
     /\ UNCHANGED <<smootherVars, silent, dropped>>

Next ==
  /\ \/ commands \/ fallsSilent
     \/ commandAges \/ smoothes
     \/ cmdVelInCallbackStamped \/ Surroundings
     \/ Transitions
  /\ UNCHANGED open_loop

\* The executors run what is ready, and time passes.
Fairness ==
  /\ WF_vars(commandAges /\ UNCHANGED open_loop)
  /\ WF_vars(smoothes /\ UNCHANGED open_loop)
  /\ WF_vars(cmdVelInCallbackStamped /\ UNCHANGED open_loop)

Spec == Init /\ [][Next]_vars /\ Fairness

-----------------------------------------------------------------------------

\* "Send a zero-velocity command at velocity timeout to stop the robot": once the
\* task servers are silent, a robot behind an active smoother and an active
\* monitor that has ignored none of its velocities comes to a stand, with either
\* feedback, whatever the sensors see, with stamped and unstamped commands.
SilentRobotStops ==
  (silent /\ timer /\ process_active /\ ~dropped)
    ~> (cmd_vel_out = Standing \/ ~silent \/ ~timer \/ ~process_active)

\* Without feedback no two velocities the smoother sends in a row differ by more
\* than the limits allow: at a timeout, at a change of direction and across a
\* deactivation too.
AccelerationIsLimited ==
  [][LET dv == Abs(last_cmd'.v - last_cmd.v)
     IN  open_loop => IF Abs(last_cmd'.v) > Abs(last_cmd.v) /\ last_cmd'.v * last_cmd.v >= 0
                     THEN dv <= MaxAccel ELSE dv <= MaxDecel]_vars

\* A robot is never set in motion blind: a velocity other than zero is sent only
\* while every source that has a time limit has current data, and is never larger
\* than the one that came in.
NeverBlind ==
  [][cmd_vel_out' # cmd_vel_out /\ cmd_vel_out' # Standing =>
       /\ Source \ Untimed \subseteq valid
       /\ Size(cmd_vel_out') <= Size(<<4 * cmd_vel_smoothed, 0>>)]_vars

\* "Send a zero-velocity command at velocity timeout to stop the robot": a smoother
\* that considers the robot stopped, and has nothing under way, has stopped it.
StoppedMeansStanding ==
  stopped /\ cmd_vel_smoothed = None /\ timer /\ process_active => cmd_vel_out = Standing

=============================================================================
