-------------------------- MODULE VelocitySmoother --------------------------
(***************************************************************************)
(* nav2_velocity_smoother, in front of a topic of depth one.  Its timer    *)
(* moves the velocity it sends towards the last command, within the        *)
(* acceleration limits, and towards zero once the command has timed out.   *)
(*                                                                         *)
(* Velocities are those of one axis, in steps of the acceleration limit.   *)
(* With scale_velocities another axis may shorten the step of this one.    *)
(***************************************************************************)
EXTENDS Integers

CONSTANTS
  MaxVelocity,  \* max_velocities_, and min_velocities_ negated
  MaxAccel,     \* max_accels_ / smoothing_frequency_
  MaxDecel,     \* max_decels_ / smoothing_frequency_, negated
  Deadband,     \* deadband_velocities_
  None          \* no message; no command yet

ASSUME LimitsAssumption ==
  {MaxVelocity, MaxAccel, MaxDecel} \subseteq Nat \ {0} /\ Deadband \in Nat

VARIABLES
  command,           \* command_: its velocity and whether it has a stamp
  expired,           \* now() - last_command_time_ > velocity_timeout_
  last_cmd,          \* last_cmd_
  stopped,           \* stopped_
  timer,             \* timer_ runs and the publisher is active
  cmd_vel_smoothed   \* the output topic

smootherVars == <<command, expired, last_cmd, stopped, timer, cmd_vel_smoothed>>

Velocity == (-MaxVelocity)..MaxVelocity
Zero == [v |-> 0, stamp |-> FALSE]     \* TwistStamped()

SmootherInit ==
  /\ command = None /\ expired = TRUE
  /\ last_cmd = Zero /\ stopped = TRUE
  /\ timer = FALSE /\ cmd_vel_smoothed = None

-----------------------------------------------------------------------------

\* A command comes, whether or not the node is active.  One with an old stamp is
\* expired when it comes; one that validateTwist() refuses is ignored.
inputCommandStampedCallback(v, stamp) ==
  /\ stamp # "invalid"
  /\ command' = [v |-> v, stamp |-> stamp # "none"]
  /\ expired' = (stamp = "late")
  /\ UNCHANGED <<last_cmd, stopped, timer, cmd_vel_smoothed>>

\* velocity_timeout_ passes.
timeout ==
  /\ ~expired /\ expired' = TRUE
  /\ UNCHANGED <<command, last_cmd, stopped, timer, cmd_vel_smoothed>>

Abs(x) == IF x < 0 THEN -x ELSE x
Clamp(x, lo, hi) == IF x < lo THEN lo ELSE IF x > hi THEN hi ELSE x

\* Mutant: the limit does not depend on passing through zero.
step_limit_any(curr, cmd) == IF Abs(cmd) >= Abs(curr) THEN MaxAccel + MaxDecel ELSE MaxDecel

\* Accelerating: away from zero, on the same side of it.
step_limit(curr, cmd) == IF Abs(cmd) >= Abs(curr) /\ curr * cmd >= 0 THEN MaxAccel ELSE MaxDecel

\* applyConstraints(): what the axis may become.  The smallest eta any axis
\* asks for scales the difference; it is positive.
applyConstraints(curr, cmd) ==
  LET full == Clamp(cmd - curr, -step_limit(curr, cmd), step_limit(curr, cmd))
  IN  IF full = 0 THEN {curr}
      ELSE {curr + d : d \in IF full > 0 THEN 1..full ELSE full..(-1)}

\* Mutant: a timed-out command is still followed.
timed_out_never(c) == c

\* A command that has timed out is replaced by zero.
timed_out(c) == IF expired THEN Zero ELSE c

\* The rest of smootherTimer(), from the velocity curr the robot is said to
\* have: last_cmd_, or odometry.
smoothen(curr) ==
  /\ command' = [timed_out(command) EXCEPT !.v = Clamp(@, -MaxVelocity, MaxVelocity)]
  /\ stopped' = FALSE
  /\ \E v \in applyConstraints(curr, command'.v) :
       /\ last_cmd' = [v |-> v, stamp |-> command.stamp]
       /\ cmd_vel_smoothed' = IF Abs(v) < Deadband THEN 0 ELSE v

\* Once what was sent last is zero, stamp included, nothing is sent any more.
smootherTimer(curr) ==
  /\ timer
  /\ command # None
  /\ IF expired /\ (last_cmd = Zero \/ stopped)
     THEN stopped' = TRUE /\ UNCHANGED <<command, last_cmd, cmd_vel_smoothed>>
     ELSE smoothen(curr)
  /\ UNCHANGED <<expired, timer>>

VelocitySmoother_on_activate ==
  /\ ~timer /\ timer' = TRUE
  /\ UNCHANGED <<command, expired, last_cmd, stopped, cmd_vel_smoothed>>

\* Nothing is sent, and the command is kept.
VelocitySmoother_on_deactivate ==
  /\ timer /\ timer' = FALSE
  /\ UNCHANGED <<command, expired, last_cmd, stopped, cmd_vel_smoothed>>

=============================================================================
