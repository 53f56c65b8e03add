----------------------------- MODULE TaskServer -----------------------------
(***************************************************************************)
(* What the task servers of Nav2 share: an execute callback that the       *)
(* worker of a SimpleActionServer runs.  Here the callback is no longer    *)
(* any sequence of calls: pc is where it is in its code, and each of its   *)
(* steps is one call on the action server, or none.  The module of a       *)
(* server adds the steps of its own.                                       *)
(***************************************************************************)
EXTENDS SimpleActionServer

VARIABLES
  pc,          \* where the callback is; "out" when it is not running
  cmd,         \* the last velocity the robot was sent: "zero" or "moving"
  publishing   \* the velocity publisher is activated

taskVars == <<pc, cmd, publishing>>

TaskInit == Init /\ pc = "out" /\ cmd = "zero" /\ publishing = FALSE

\* publishVelocity(), stopRobot(): a publisher that is not activated drops it.
Publish(v) == cmd' = IF publishing THEN v ELSE cmd

Goto(l) == pc' = l
NoCall == UNCHANGED vars
NoMotion == UNCHANGED <<cmd, publishing>>

Running(w, l) == at(w, "running") /\ pc = l

-----------------------------------------------------------------------------
(* The ends of a callback.                                                 *)

\* terminate_current(result) before the callback returns: nothing happens to a
\* goal that deactivate() has ended already.
Abort(w) ==
  /\ Running(w, "abort")
  /\ IF is_active(current_handle) THEN terminate_current(w) ELSE NoCall
  /\ Goto("return") /\ NoMotion

\* Mutant: the handle is let go of without a result.
Succeed_dropping(w) ==
  /\ Running(w, "succeed")
  /\ current_handle' = NoGoal
  /\ UNCHANGED <<status, pending_handle, preempt_requested, flagVars, execution_future, worker, executor, lifecycle>>
  /\ Goto("return") /\ NoMotion

\* succeeded_current(result).
Succeed(w) ==
  /\ Running(w, "succeed")
  /\ IF is_active(current_handle) THEN succeeded_current(w) ELSE NoCall
  /\ Goto("return") /\ NoMotion

Return(w) ==
  /\ Running(w, "return")
  /\ callback_ends(w) /\ worker'[w] = "returned"
  /\ Goto("out") /\ NoMotion

\* A null goal is dereferenced and the process dies: what remains is the last
\* command.
Crash(w) == Goto("crashed") /\ NoCall /\ NoMotion

Ends(w) == Abort(w) \/ Succeed(w) \/ Return(w)

-----------------------------------------------------------------------------
(* The action server around the callback.                                  *)

Alive == pc # "crashed"

Executor == Alive /\ executorStep /\ UNCHANGED taskVars

Worker_outside(w) ==
  /\ pc = "out"
  /\ work_loop(w) \/ work_after(w) \/ work_return(w)
  /\ UNCHANGED taskVars

-----------------------------------------------------------------------------
(* Properties of every task server.                                        *)

\* A task server only makes the calls that SimpleActionServer allows its
\* callback, in an allowed order: what is proved of the action server for any
\* callback holds for it.
ImplementsServer == Spec

\* A transition that deactivates the server comes to its end, although it
\* waits for a callback; one that crashed, or waits for itself, never ends.
DeactivationCompletes == lifecycle # "idle" ~> (lifecycle = "idle" \/ pc \in {"crashed", "blocked"})

=============================================================================
