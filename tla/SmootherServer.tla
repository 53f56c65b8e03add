--------------------------- MODULE SmootherServer ---------------------------
(***************************************************************************)
(* nav2_smoother: smoothPlan(), which never looks for a preemption, a      *)
(* cancel request or a deactivation: they wait until it is done.           *)
(***************************************************************************)
EXTENDS TaskServer

smootherVars == <<vars, taskVars>>

SmootherInit == TaskInit

\* The smoother is looked up: it may be unknown.
findSmootherId(w) ==
  /\ at(w, "entered") /\ pc = "out"
  /\ \/ ~is_active(current_handle) /\ Crash(w)
     \/ is_active(current_handle) /\ get_current_goal(w) /\ NoMotion /\ (Goto("smooth") \/ Goto("abort"))

\* The goal is read again, its path checked, smoothed and checked for
\* collisions; any of it may fail.
smoothPlan(w) ==
  /\ Running(w, "smooth")
  /\ IF is_active(current_handle)
     THEN (Goto("succeed") \/ Goto("abort")) /\ NoCall /\ NoMotion
     ELSE Crash(w)

SmootherServer_on_activate == Alive /\ activate /\ UNCHANGED taskVars

SmootherServer_on_deactivate ==
  /\ Alive /\ (deactivate \/ deactivated \/ deactivate_overdue)
  /\ UNCHANGED taskVars

Smooth(w) == findSmootherId(w) \/ smoothPlan(w) \/ Ends(w) \/ Worker_outside(w)

SmootherNext ==
  \/ Executor
  \/ SmootherServer_on_activate \/ SmootherServer_on_deactivate
  \/ \E w \in Worker : Smooth(w)

SmootherSpec == SmootherInit /\ [][SmootherNext]_smootherVars

=============================================================================
