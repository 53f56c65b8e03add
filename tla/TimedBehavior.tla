---------------------------- MODULE TimedBehavior ---------------------------
(***************************************************************************)
(* nav2_behaviors: TimedBehavior::execute() with the cycle of Spin,        *)
(* DriveOnHeading, BackUp, AssistedTeleop or Wait.  Its publisher is       *)
(* turned off before its action server when the node is deactivated, and   *)
(* it does not look whether the server is active.                          *)
(***************************************************************************)
EXTENDS TaskServer

VARIABLES
  plugin,     \* which behavior it is: "Spin", "DriveOnHeading", "AssistedTeleop" or "Wait"
  enabled,    \* enabled_
  excused     \* history: no pose or no publisher when the robot should stop

behaviorVars == <<vars, taskVars, plugin, enabled, excused>>

BehaviorInit ==
  /\ TaskInit /\ enabled = FALSE /\ excused = FALSE
  /\ plugin \in {"Spin", "DriveOnHeading", "AssistedTeleop", "Wait"}

Same == UNCHANGED <<enabled, excused>>

\* A command that is published makes up for a stop that was not.
Send(v) == Publish(v) /\ excused' = (excused /\ ~publishing) /\ UNCHANGED <<publishing, enabled>>

\* onRun(): Spin needs a pose, DriveOnHeading and BackUp a sensible target as
\* well; the others take every goal.
onRun == Goto("loop") \/ (plugin \in {"Spin", "DriveOnHeading"} /\ Goto("abort"))

\* execute() up to onRun().
execute(w) ==
  /\ at(w, "entered") /\ pc = "out"
  /\ IF ~enabled THEN get_current_goal(w) /\ Goto("return") /\ NoMotion
     ELSE \/ ~is_active(current_handle) /\ Crash(w)
          \/ is_active(current_handle) /\ get_current_goal(w) /\ NoMotion /\ onRun
  /\ Same

\* A cancel request: stopRobot(), onActionCompletion(), terminate_all().
execute_cancel(w) ==
  \/ /\ Running(w, "loop")
     /\ IF is_cancel_requested
        THEN see_cancel(w) /\ Goto("cancel") /\ Send("zero")
        ELSE NoCall /\ Goto("preempt?") /\ NoMotion /\ Same
  \/ /\ at(w, "canceling") /\ pc = "cancel"
     /\ cancel_all(w) /\ Goto("out") /\ NoMotion /\ Same

\* A preemption is refused: the robot is stopped and the goal ended.
execute_preempt(w) ==
  \/ /\ Running(w, "preempt?")
     /\ IF preempt_requested
        THEN see_preempt(w) /\ Goto("refuse") /\ Send("zero")
        ELSE NoCall /\ Goto("cycle") /\ NoMotion /\ Same
  \/ /\ at(w, "preempting") /\ pc = "refuse"
     /\ refuse_preempt(w) /\ Goto("out") /\ NoMotion /\ Same

\* Out of time, a collision ahead, or the end of the motion.
cycle_stops == Send("zero") /\ (Goto("abort") \/ Goto("succeed"))

\* The pose is not available: nothing is sent.
cycle_lost == Goto("abort") /\ NoMotion /\ excused' = TRUE /\ UNCHANGED enabled

Spin_onCycleUpdate(w) ==
  /\ Running(w, "cycle") /\ plugin = "Spin"
  /\ cycle_stops \/ cycle_lost \/ (Send("moving") /\ Goto("loop"))
  /\ NoCall

\* BackUp too.
DriveOnHeading_onCycleUpdate(w) ==
  /\ Running(w, "cycle") /\ plugin = "DriveOnHeading"
  /\ cycle_stops \/ cycle_lost \/ (Send("moving") /\ Goto("loop"))
  /\ NoCall

\* A collision ahead scales what the user asks for, down to zero, and the
\* behavior goes on; it ends when the user says so.
AssistedTeleop_onCycleUpdate(w) ==
  /\ Running(w, "cycle") /\ plugin = "AssistedTeleop"
  /\ \/ cycle_stops \/ cycle_lost
     \/ \E v \in {"moving", "zero"} : Send(v) /\ Goto("loop")
  /\ NoCall

\* Wait::onCycleUpdate() only looks at the clock.
Wait_onCycleUpdate(w) ==
  /\ Running(w, "cycle") /\ plugin = "Wait"
  /\ Goto("loop") \/ Goto("succeed")
  /\ NoCall /\ NoMotion /\ Same

onCycleUpdate(w) ==
  \/ Spin_onCycleUpdate(w) \/ DriveOnHeading_onCycleUpdate(w)
  \/ AssistedTeleop_onCycleUpdate(w) \/ Wait_onCycleUpdate(w)

-----------------------------------------------------------------------------
(* Transitions.                                                            *)

TimedBehavior_activate ==
  /\ Alive /\ activate
  /\ publishing' = TRUE /\ enabled' = TRUE /\ UNCHANGED <<pc, cmd, excused>>

TimedBehavior_deactivate ==
  /\ Alive /\ deactivate
  /\ publishing' = FALSE /\ excused' = (excused \/ is_running) /\ UNCHANGED <<pc, cmd, enabled>>

TimedBehavior_deactivated ==
  /\ Alive /\ deactivated
  /\ enabled' = FALSE /\ UNCHANGED taskVars /\ UNCHANGED excused

Behavior(w) ==
  \/ execute(w) \/ execute_cancel(w) \/ execute_preempt(w) \/ onCycleUpdate(w)
  \/ (Ends(w) \/ Worker_outside(w)) /\ Same

BehaviorNext ==
  /\ \/ Executor /\ Same
     \/ TimedBehavior_activate \/ TimedBehavior_deactivate \/ TimedBehavior_deactivated
     \/ Alive /\ deactivate_overdue /\ UNCHANGED taskVars /\ Same
     \/ \E w \in Worker : Behavior(w)
  /\ UNCHANGED plugin

BehaviorSpec == BehaviorInit /\ [][BehaviorNext]_behaviorVars

-----------------------------------------------------------------------------
(* Properties.                                                             *)

\* A behavior leaves the robot standing, however it ends, with two exceptions:
\* a pose that is not available ends it without a stop, and a deactivation
\* turns its publisher off first.
BehaviorStops == ~is_running /\ Alive => cmd = "zero" \/ excused

=============================================================================
