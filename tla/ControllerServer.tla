-------------------------- MODULE ControllerServer --------------------------
(***************************************************************************)
(* nav2_controller: computeControl(), which follows the path of the        *)
(* current goal with one of several controllers, takes over the path of a  *)
(* preempting goal in between and stops the robot at the end.              *)
(*                                                                         *)
(* What a goal asks for is chosen when it becomes the current goal, the    *)
(* first time the code reads it: a controller, which may be unknown,       *)
(* checkers, which may be unknown, and a path, which may be empty.         *)
(***************************************************************************)
EXTENDS TaskServer

CONSTANTS
  Controllers,   \* the controller plugins
  Unknown        \* a controller that was not loaded

VARIABLES
  current_controller,   \* current_controller_
  plan,                 \* the goal whose path each controller was given last
  end_pose              \* the goal whose path ends at end_pose_

controlVars == <<current_controller, plan, end_pose>>
controllerVars == <<vars, taskVars, controlVars>>

ControllerInit ==
  /\ TaskInit
  /\ current_controller = Unknown
  /\ plan = [c \in Controllers |-> NoGoal]
  /\ end_pose = NoGoal

NoControl == UNCHANGED controlVars

\* Mutant: the path goes to the controller that was used before.
setPlannerPath_before(g, c) ==
  /\ plan' = IF current_controller \in Controllers THEN [plan EXCEPT ![current_controller] = g] ELSE plan
  /\ end_pose' = g

setPlannerPath(g, c) == plan' = [plan EXCEPT ![c] = g] /\ end_pose' = g

\* The lookups of controller and checkers, in order, and setPlannerPath(), for
\* a goal g that has just become the current one.  A controller that is found
\* is used even if the rest fails; refused is where the callback goes on then.
Adopt(g, next, refused) ==
  \E c \in Controllers \cup {Unknown}, checkers, path \in BOOLEAN :
    /\ current_controller' = IF c = Unknown THEN current_controller ELSE c
    /\ IF c # Unknown /\ checkers /\ path
       THEN setPlannerPath(g, c) /\ Goto(next)
       ELSE /\ UNCHANGED <<plan, end_pose>>
            /\ Goto(IF c # Unknown /\ checkers THEN "failed" ELSE refused)
    /\ NoMotion

computeControl(w) ==
  /\ at(w, "entered") /\ pc = "out"
  /\ \/ ~is_active(current_handle) /\ Crash(w) /\ NoControl
     \/ is_active(current_handle) /\ get_current_goal(w) /\ Adopt(current_handle, "loop", "failed")

\* Mutant: the loop does not look whether the server is active.
computeControl_active_ignored(w) ==
  /\ Running(w, "loop")
  /\ Goto("cancel?")
  /\ NoCall /\ NoMotion /\ NoControl

\* The loop's first test: the server was deactivated.
computeControl_active(w) ==
  /\ Running(w, "loop")
  /\ Goto(IF server_active THEN "cancel?" ELSE "return")
  /\ NoCall /\ NoMotion /\ NoControl

computeControl_cancel(w) ==
  \/ /\ Running(w, "cancel?")
     /\ IF is_cancel_requested THEN see_cancel(w) /\ Goto("cancel") ELSE NoCall /\ Goto("costmap")
     /\ NoMotion /\ NoControl
  \/ /\ at(w, "canceling") /\ pc = "cancel"
     /\ cancel_all(w) /\ Goto("canceled") /\ NoMotion /\ NoControl

\* publishZeroVelocity() follows terminate_all().
computeControl_canceled ==
  /\ pc = "canceled"
  /\ Publish("zero") /\ Goto("out") /\ UNCHANGED publishing /\ NoCall /\ NoControl

\* The costmap is current again.
computeControl_costmap(w) ==
  /\ Running(w, "costmap")
  /\ Goto("update") /\ NoCall /\ NoMotion /\ NoControl

updateGlobalPath(w) ==
  \/ /\ Running(w, "update")
     /\ IF preempt_requested THEN see_preempt(w) /\ Goto("accept") ELSE NoCall /\ Goto("compute")
     /\ NoMotion /\ NoControl
  \/ /\ at(w, "preempting") /\ pc = "accept"
     /\ IF is_active(pending_handle)
        THEN accept_pending_goal(w) /\ Adopt(pending_handle, "compute", "refused")
        ELSE Crash(w) /\ NoControl

\* terminate_current() for an unknown plugin; then the cycle goes on.
updateGlobalPath_refused(w) ==
  /\ Running(w, "refused")
  /\ IF is_active(current_handle) THEN terminate_current(w) ELSE NoCall
  /\ Goto("compute") /\ NoMotion /\ NoControl

\* No pose, no progress, or no valid control for longer than tolerated; or a
\* velocity, which is zero while a failure is tolerated.
computeAndPublishVelocity(w) ==
  /\ Running(w, "compute")
  /\ \/ Goto("failed") /\ UNCHANGED cmd
     \/ Goto("reached") /\ \E v \in {"moving", "zero"} : Publish(v)
  /\ NoCall /\ UNCHANGED publishing /\ NoControl

isGoalReached(w) ==
  /\ Running(w, "reached")
  /\ \/ Goto("loop") /\ UNCHANGED cmd
     \/ Goto("succeed") /\ Publish("zero")
  /\ NoCall /\ UNCHANGED publishing /\ NoControl

\* Mutant: a failure does not stop the robot.
computeControl_catch_moving(w) ==
  /\ Running(w, "failed")
  /\ Goto("abort") /\ NoMotion /\ NoCall /\ NoControl

\* Every handler stops the robot and ends the goal.
computeControl_catch(w) ==
  /\ Running(w, "failed")
  /\ Publish("zero") /\ Goto("abort") /\ UNCHANGED publishing /\ NoCall /\ NoControl

-----------------------------------------------------------------------------
(* Transitions of the node.                                                *)

\* A costmap that does not become active fails the transition before the
\* server is touched.
ControllerServer_on_activate ==
  /\ Alive
  /\ activate /\ publishing' = TRUE /\ UNCHANGED <<pc, cmd>> /\ NoControl

\* on_deactivate() waits for the callback, then stops the robot.
ControllerServer_on_deactivated ==
  /\ Alive /\ deactivated
  /\ Publish("zero") /\ publishing' = FALSE /\ UNCHANGED pc /\ NoControl

ControllerServer_on_deactivate ==
  \/ Alive /\ deactivate /\ UNCHANGED taskVars /\ NoControl
  \/ Alive /\ deactivate_overdue /\ UNCHANGED taskVars /\ NoControl
  \/ ControllerServer_on_deactivated

-----------------------------------------------------------------------------

Control(w) ==
  \/ computeControl(w) \/ computeControl_active(w) \/ computeControl_cancel(w)
  \/ computeControl_costmap(w) \/ updateGlobalPath(w) \/ updateGlobalPath_refused(w)
  \/ computeAndPublishVelocity(w) \/ isGoalReached(w) \/ computeControl_catch(w)
  \/ (Ends(w) \/ Worker_outside(w)) /\ NoControl

ControllerNext ==
  \/ Executor /\ NoControl
  \/ ControllerServer_on_activate \/ ControllerServer_on_deactivate
  \/ computeControl_canceled
  \/ \E w \in Worker : Control(w)

ControllerSpec == ControllerInit /\ [][ControllerNext]_controllerVars

-----------------------------------------------------------------------------
(* Properties.                                                             *)

\* A robot that is left alone stands still: once no callback runs and no
\* transition is under way the last command was zero, however the goals ended.
RobotStops == ~is_running /\ lifecycle = "idle" /\ Alive => cmd = "zero"

\* Velocities computed while a goal is live are for the path of that goal: the
\* controller in use was given its path, and end_pose_ is its end, through
\* any number of preemptions and changes of the controller.
FollowsItsGoal ==
  pc \in {"compute", "reached"} /\ is_active(current_handle) =>
    plan[current_controller] = current_handle /\ end_pose = current_handle

\* "Terminating action, invalid controller ... requested.": after it the robot
\* is not driven any more for lack of a goal.
DrivesForAGoal ==
  [][cmd' = "moving" /\ cmd # "moving" => is_active(current_handle) \/ lifecycle # "idle"]_controllerVars

=============================================================================
