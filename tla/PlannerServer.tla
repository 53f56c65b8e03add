--------------------------- MODULE PlannerServer ----------------------------
(***************************************************************************)
(* nav2_planner: computePlan() and computePlanThroughPoses(), which differ *)
(* in the number of poses a goal has.  The two action servers share        *)
(* dynamic_params_lock_, held by each callback from its begin to its end,  *)
(* so that one of them stands for both.                                    *)
(***************************************************************************)
EXTENDS TaskServer, Naturals

CONSTANT MaxPoses   \* bound: the poses of a goal

VARIABLES
  goal,      \* the local goal: whose poses are planned for
  left,      \* the poses it still has to plan to
  planned    \* whom the plan in result leads to

plannerVars == <<vars, taskVars, goal, left, planned>>

PlannerInit == TaskInit /\ goal = NoGoal /\ left = 0 /\ planned = NoGoal

NoPlan == UNCHANGED <<goal, left, planned>>

\* The number of poses of a goal is first read after the preemption.
computePlan(w) ==
  /\ at(w, "entered") /\ pc = "out"
  /\ get_current_goal(w)
  /\ goal' = current_handle
  /\ left' = 0 /\ planned' = NoGoal
  /\ Goto("active?") /\ NoMotion

isServerInactive(w) ==
  /\ Running(w, "active?")
  /\ Goto(IF server_active THEN "cancel?" ELSE "return")
  /\ NoCall /\ NoMotion /\ NoPlan

isCancelRequested(w) ==
  /\ Running(w, "cancel?")
  /\ IF is_cancel_requested THEN see_cancel(w) /\ Goto("cancel") ELSE NoCall /\ Goto("costmap")
  /\ NoMotion /\ NoPlan

terminateAll(w) ==
  /\ at(w, "canceling") /\ pc = "cancel"
  /\ cancel_all(w) /\ Goto("out") /\ NoMotion /\ NoPlan

waitForCostmap(w) ==
  /\ Running(w, "costmap")
  /\ Goto("preempt?") /\ NoCall /\ NoMotion /\ NoPlan

\* The accepted goal is assigned to a parameter passed by value.
getPreemptedGoalIfRequested(w) ==
  \/ /\ Running(w, "preempt?")
     /\ IF preempt_requested THEN see_preempt(w) /\ Goto("accept") ELSE NoCall /\ Goto("poses")
     /\ NoMotion /\ NoPlan
  \/ /\ at(w, "preempting") /\ pc = "accept"
     /\ accept_pending_goal(w)
     /\ Goto("poses") /\ NoMotion /\ NoPlan

\* goal->goals, which may be empty, and the start pose, which may be unknown.
getStartPose(w) ==
  /\ Running(w, "poses")
  /\ IF goal = NoGoal THEN Crash(w) /\ NoPlan
     ELSE /\ left' \in 0..MaxPoses
          /\ \/ Goto("abort")
             \/ left' > 0 /\ Goto("plan")
          /\ NoCall /\ NoMotion /\ UNCHANGED <<goal, planned>>

\* One transform and one getPlan(), which looks for a cancel request; every
\* exception but PlannerCancelled ends the current goal.
getPlan(w) ==
  /\ Running(w, "plan")
  /\ \/ Goto("abort") /\ NoCall /\ NoPlan
     \/ is_cancel_requested /\ see_cancel(w) /\ Goto("cancel") /\ NoPlan
     \/ /\ left' = left - 1
        /\ planned' = IF left = 1 THEN goal ELSE planned
        /\ Goto(IF left = 1 THEN "succeed" ELSE "plan")
        /\ NoCall /\ UNCHANGED goal
  /\ NoMotion

-----------------------------------------------------------------------------
(* Transitions: the planner has no velocity publisher.                     *)

PlannerServer_on_activate ==
  /\ Alive /\ activate /\ UNCHANGED taskVars /\ NoPlan

PlannerServer_on_deactivate ==
  /\ Alive /\ (deactivate \/ deactivated \/ deactivate_overdue)
  /\ UNCHANGED taskVars /\ NoPlan

Plan(w) ==
  \/ computePlan(w) \/ isServerInactive(w) \/ isCancelRequested(w) \/ terminateAll(w)
  \/ waitForCostmap(w) \/ getPreemptedGoalIfRequested(w) \/ getStartPose(w) \/ getPlan(w)
  \/ (Ends(w) \/ Worker_outside(w)) /\ NoPlan

PlannerNext ==
  \/ Executor /\ NoPlan
  \/ PlannerServer_on_activate \/ PlannerServer_on_deactivate
  \/ \E w \in Worker : Plan(w)

PlannerSpec == PlannerInit /\ [][PlannerNext]_plannerVars

-----------------------------------------------------------------------------
(* Properties.                                                             *)

\* A plan that is reported leads to the poses of the goal it is reported for,
\* as "@brief Check if an action server has a preemption request and replaces
\* the goal with the new preemption goal" says.
PlanIsForItsGoal ==
  [][\A g \in Goal : status'[g] = "succeeded" /\ status[g] # "succeeded" => planned = g]_plannerVars

=============================================================================
