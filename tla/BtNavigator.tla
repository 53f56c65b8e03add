----------------------------- MODULE BtNavigator -----------------------------
(***************************************************************************)
(* nav2_bt_navigator: navigators (NavigateToPose, NavigateThroughPoses)    *)
(* that share one NavigatorMuxer.  Each has a SimpleActionServer of its    *)
(* own, whose worker thread runs BtActionServer::executeCallback: it asks  *)
(* the muxer, puts the goal on the blackboard, ticks the behavior tree,    *)
(* takes up preempting goals between ticks, and reports the outcome.       *)
(*                                                                         *)
(* The workers of different navigators interleave freely; one executor     *)
(* thread, that of the node, handles the goals and cancels of all of them  *)
(* and the node's lifecycle transitions, one at a time.  The action        *)
(* server is used at the granularity of its critical sections; that a      *)
(* worker has ended its goal but not yet returned, and what the callback   *)
(* meets after the deadline of deactivate(), is the subject of             *)
(* SimpleActionServer.                                                     *)
(* Behavior tree, transforms and the files of the trees are external:      *)
(* their answers are arbitrary.                                            *)
(***************************************************************************)
EXTENDS Naturals

CONSTANTS
  N,         \* how many navigator plugins are loaded
  MaxGoals   \* bound: how many goals are sent, to any of the navigators

ASSUME ConstantsAssumption == N \in Nat \ {0} /\ MaxGoals \in Nat

Navigator == 1..N     \* navigators_, in the order of the vector
NoNavigator == 0      \* the empty name in the muxer
Goal == 1..MaxGoals   \* numbered in the order they are sent
NoGoal == 0           \* the null goal handle

VARIABLES
  status,             \* rclcpp_action: the state of every goal
  current,            \* current_handle_ of each navigator's server
  pending,            \* pending_handle_
  incoming,           \* per navigator, the goal the executor has accepted and
                      \* not yet given to handle_accepted
  active,             \* server_active_; stop_execution_ is its negation
  deactivating,       \* the navigator the executor waits for, or NoNavigator
  node_active,        \* lifecycle state of the bt_navigator node
  worker,             \* where each worker is in executeCallback
  tick,               \* the result of the last tick, then of run()
  tracking,           \* the goal pose on the blackboard is the current goal's
  current_navigator,  \* NavigatorMuxer::current_navigator_
  major_error         \* startNavigating found another navigator at work

goalVars == <<status, current, pending>>
nodeVars == <<active, deactivating, node_active>>
muxVars == <<current_navigator, major_error>>
vars == <<goalVars, incoming, nodeVars, worker, tick, tracking, muxVars>>

Protocol == INSTANCE GoalProtocol

is_active(g) == g # NoGoal /\ status[g] \in Protocol!ActiveStatus

-----------------------------------------------------------------------------
(* The action server.                                                      *)

\* terminate(): a goal the client is canceling ends canceled, any other aborted.
Aborted(st, g) ==
  IF g = NoGoal THEN st
  ELSE [st EXCEPT ![g] = IF @ = "canceling" THEN "canceled" ELSE "aborted"]

terminate_current(v) ==
  /\ status' = Aborted(status, current[v])
  /\ current' = [current EXCEPT ![v] = NoGoal]
  /\ UNCHANGED pending

terminate_pending_goal(v) ==
  /\ status' = Aborted(status, pending[v])
  /\ pending' = [pending EXCEPT ![v] = NoGoal]
  /\ UNCHANGED current

terminate_all(v) ==
  /\ status' = Aborted(Aborted(status, current[v]), pending[v])
  /\ current' = [current EXCEPT ![v] = NoGoal]
  /\ pending' = [pending EXCEPT ![v] = NoGoal]

accept_pending_goal(v) ==
  /\ status' = IF current[v] = NoGoal THEN status
               ELSE [status EXCEPT ![current[v]] = "aborted"]
  /\ current' = [current EXCEPT ![v] = pending[v]]
  /\ pending' = [pending EXCEPT ![v] = NoGoal]

succeeded_current(v) ==
  /\ status' = IF current[v] = NoGoal THEN status
               ELSE [status EXCEPT ![current[v]] = "succeeded"]
  /\ current' = [current EXCEPT ![v] = NoGoal]
  /\ UNCHANGED pending

is_cancel_requested(v) ==
  /\ current[v] # NoGoal
  /\ IF pending[v] # NoGoal
     THEN status[pending[v]] = "canceling"
     ELSE status[current[v]] = "canceling"

-----------------------------------------------------------------------------
Init ==
  /\ status = [g \in Goal |-> "unsent"]
  /\ current = [v \in Navigator |-> NoGoal]
  /\ pending = [v \in Navigator |-> NoGoal]
  /\ incoming = [v \in Navigator |-> NoGoal]
  /\ active = [v \in Navigator |-> FALSE]
  /\ deactivating = NoNavigator
  /\ node_active = FALSE
  /\ worker = [v \in Navigator |-> "none"]
  /\ tick = [v \in Navigator |-> "none"]
  /\ tracking = [v \in Navigator |-> FALSE]
  /\ current_navigator = NoNavigator
  /\ major_error = FALSE

-----------------------------------------------------------------------------
(* The executor of the bt_navigator node: goals, cancels and lifecycle.    *)

\* It finishes one callback before it takes the next, and is blocked for as
\* long as deactivate() waits for a worker.
idle == deactivating = NoNavigator /\ \A v \in Navigator : incoming[v] = NoGoal

\* A goal request for v, rejected while its server is inactive.
handle_goal(v, g) ==
  /\ idle
  /\ status[g] = "unsent" /\ \A h \in 1..(g - 1) : status[h] # "unsent"
  /\ IF active[v]
     THEN /\ status' = [status EXCEPT ![g] = "executing"]
          /\ incoming' = [incoming EXCEPT ![v] = g]
     ELSE /\ status' = [status EXCEPT ![g] = "rejected"]
          /\ UNCHANGED incoming
  /\ UNCHANGED <<current, pending, nodeVars, worker, tick, tracking, muxVars>>

\* Mutant: the goal that waits is replaced without being ended.
handle_accepted_over(v) ==
  /\ incoming[v] # NoGoal
  /\ incoming' = [incoming EXCEPT ![v] = NoGoal]
  /\ IF current[v] # NoGoal \/ worker[v] # "none"
     THEN /\ pending' = [pending EXCEPT ![v] = incoming[v]]
          /\ UNCHANGED <<current, worker>>
     ELSE /\ current' = [current EXCEPT ![v] = incoming[v]]
          /\ pending' = [pending EXCEPT ![v] = NoGoal]
          /\ worker' = [worker EXCEPT ![v] = "work"]
  /\ UNCHANGED <<status, nodeVars, tick, tracking, muxVars>>

\* The accepted goal waits if there is a goal or a worker, else it starts one.
handle_accepted(v) ==
  /\ incoming[v] # NoGoal
  /\ incoming' = [incoming EXCEPT ![v] = NoGoal]
  /\ status' = Aborted(status, pending[v])
  /\ IF current[v] # NoGoal \/ worker[v] # "none"
     THEN /\ pending' = [pending EXCEPT ![v] = incoming[v]]
          /\ UNCHANGED <<current, worker>>
     ELSE /\ current' = [current EXCEPT ![v] = incoming[v]]
          /\ pending' = [pending EXCEPT ![v] = NoGoal]
          /\ worker' = [worker EXCEPT ![v] = "work"]
  /\ UNCHANGED <<nodeVars, tick, tracking, muxVars>>

cancel_goal(g) ==
  /\ idle
  /\ status[g] = "executing"
  /\ status' = [status EXCEPT ![g] = "canceling"]
  /\ UNCHANGED <<current, pending, incoming, nodeVars, worker, tick, tracking,
                 muxVars>>

\* The navigators are activated in order until one cannot load its tree; the
\* servers before it stay active although the node does not become active.
on_activate ==
  /\ idle /\ ~node_active
  /\ \E ok \in 0..N :
       /\ active' = [v \in Navigator |-> active[v] \/ v <= ok]
       /\ node_active' = (ok = N)
  /\ UNCHANGED <<goalVars, incoming, deactivating, worker, tick, tracking, muxVars>>

\* The call of deactivate() for navigator v, or the end of the transition.
deactivate_next(v) ==
  IF v \in Navigator
  THEN /\ active' = [active EXCEPT ![v] = FALSE]
       /\ deactivating' = v
       /\ UNCHANGED node_active
  ELSE /\ deactivating' = NoNavigator
       /\ node_active' = FALSE
       /\ UNCHANGED active

on_deactivate ==
  /\ idle /\ node_active
  /\ deactivate_next(1)
  /\ UNCHANGED <<goalVars, incoming, worker, tick, tracking, muxVars>>

\* deactivate() returns when the worker is done.
deactivated ==
  /\ deactivating # NoNavigator /\ worker[deactivating] = "none"
  /\ deactivate_next(deactivating + 1)
  /\ UNCHANGED <<goalVars, incoming, worker, tick, tracking, muxVars>>

\* Its deadline has passed: the goals end under the callback.
deactivate_overdue ==
  /\ deactivating # NoNavigator /\ worker[deactivating] # "none"
  /\ terminate_all(deactivating)
  /\ tracking' = [tracking EXCEPT ![deactivating] = FALSE]
  /\ UNCHANGED <<incoming, nodeVars, worker, tick, muxVars>>

-----------------------------------------------------------------------------
(* The worker: work() and, in it, executeCallback().                       *)

at(v, pc) == worker[v] = pc
goto(v, pc) == worker' = [worker EXCEPT ![v] = pc]

\* Mutant: a stopped server is waited for instead of left.
work_loop_waiting(v) ==
  /\ at(v, "work")
  /\ active[v] /\ current[v] # NoGoal
  /\ goto(v, "received")
  /\ UNCHANGED <<goalVars, incoming, nodeVars, tick, tracking, muxVars>>

\* The loop condition of work(): a stopped server leaves its goals as they are.
work_loop(v) ==
  /\ at(v, "work")
  /\ goto(v, IF active[v] /\ current[v] # NoGoal THEN "received" ELSE "none")
  /\ UNCHANGED <<goalVars, incoming, nodeVars, tick, tracking, muxVars>>

\* onGoalReceived(): the muxer is asked first ...
isNavigating(v) ==
  /\ at(v, "received")
  /\ IF current_navigator # NoNavigator
     THEN terminate_current(v) /\ goto(v, "returned")
     ELSE goto(v, "receiving") /\ UNCHANGED goalVars
  /\ UNCHANGED <<incoming, nodeVars, tick, tracking, muxVars>>

\* ... then the tree is loaded and the goal pose transformed, which may fail ...
goalReceived(v) ==
  /\ at(v, "receiving")
  /\ \/ /\ tracking' = [tracking EXCEPT ![v] = current[v] # NoGoal]
        /\ goto(v, "starting")
        /\ UNCHANGED goalVars
     \/ /\ terminate_current(v)
        /\ goto(v, "returned")
        /\ UNCHANGED tracking
  /\ UNCHANGED <<incoming, nodeVars, tick, muxVars>>

\* Mutant: the collision with another navigator is not reported.
startNavigating_silently(v) ==
  /\ at(v, "starting")
  /\ current_navigator' = v
  /\ goto(v, "condition")
  /\ UNCHANGED <<goalVars, incoming, nodeVars, tick, tracking, major_error>>

\* ... and only now is the muxer told.
startNavigating(v) ==
  /\ at(v, "starting")
  /\ current_navigator' = v
  /\ major_error' = (major_error \/ current_navigator # NoNavigator)
  /\ goto(v, "condition")
  /\ UNCHANGED <<goalVars, incoming, nodeVars, tick, tracking>>

is_canceling(v) == ~active[v] \/ is_cancel_requested(v)

\* The top of the loop in BehaviorTreeEngine::run().  The tree may throw, which
\* skips onLoop.
run_canceled(v) ==
  /\ at(v, "condition")
  /\ is_canceling(v)
  /\ tick' = [tick EXCEPT ![v] = "canceled"]
  /\ goto(v, "completing")
  /\ UNCHANGED <<goalVars, incoming, nodeVars, tracking, muxVars>>

tickOnce(v) ==
  /\ at(v, "condition")
  /\ ~is_canceling(v)
  /\ \/ \E r \in {"running", "succeeded", "failed"} :
          tick' = [tick EXCEPT ![v] = r] /\ goto(v, "loop")
     \/ tick' = [tick EXCEPT ![v] = "failed"] /\ goto(v, "completing")
  /\ UNCHANGED <<goalVars, incoming, nodeVars, tracking, muxVars>>

\* Where run() goes after onLoop.
Continue(v) == IF tick[v] = "running" THEN "condition" ELSE "completing"

\* onLoop(), which run() calls whatever the tick returned: a pending goal is
\* refused when it asks for another tree, else accepted before its pose is
\* transformed.
onLoop(v) ==
  /\ at(v, "loop")
  /\ \/ /\ pending[v] = NoGoal
        /\ goto(v, Continue(v)) /\ UNCHANGED <<goalVars, tracking>>
     \/ /\ pending[v] # NoGoal
        /\ terminate_pending_goal(v)
        /\ goto(v, Continue(v)) /\ UNCHANGED tracking
     \/ /\ pending[v] # NoGoal
        /\ accept_pending_goal(v)
        /\ goto(v, "preempting") /\ tracking' = [tracking EXCEPT ![v] = FALSE]
  /\ UNCHANGED <<incoming, nodeVars, tick, muxVars>>

\* initializeGoalPose() of the accepted goal; when it fails, onPreempt ends the
\* pending goal, which by now is none or yet another one.
initializeGoalPose(v) ==
  /\ at(v, "preempting")
  /\ \/ /\ tracking' = [tracking EXCEPT ![v] = current[v] # NoGoal]
        /\ UNCHANGED goalVars
     \/ /\ terminate_pending_goal(v)
        /\ UNCHANGED tracking
  /\ goto(v, Continue(v))
  /\ UNCHANGED <<incoming, nodeVars, tick, muxVars>>

\* onCompletion() and stopNavigating(), after haltAllActions().
onCompletion(v) ==
  /\ at(v, "completing")
  /\ current_navigator' = IF current_navigator = v THEN NoNavigator
                                                   ELSE current_navigator
  /\ goto(v, "reporting")
  /\ UNCHANGED <<goalVars, incoming, nodeVars, tick, tracking, major_error>>

report(v) ==
  /\ at(v, "reporting")
  /\ CASE tick[v] = "succeeded" -> succeeded_current(v)
       [] tick[v] = "failed"    -> terminate_current(v)
       [] tick[v] = "canceled"  -> terminate_all(v)
  /\ tick' = [tick EXCEPT ![v] = "none"]
  /\ tracking' = [tracking EXCEPT ![v] = FALSE]
  /\ goto(v, "returned")
  /\ UNCHANGED <<incoming, nodeVars, muxVars>>

\* work() after the callback: the next goal, or the end.
work_after(v) ==
  /\ at(v, "returned")
  /\ IF ~active[v]
     THEN terminate_all(v) /\ goto(v, "none")
     ELSE IF pending[v] # NoGoal
     THEN /\ status' = Aborted(status, current[v])
          /\ current' = [current EXCEPT ![v] = pending[v]]
          /\ pending' = [pending EXCEPT ![v] = NoGoal]
          /\ goto(v, "work")
     ELSE terminate_current(v) /\ goto(v, "none")
  /\ UNCHANGED <<incoming, nodeVars, tick, tracking, muxVars>>

executeCallback(v) ==
  \/ work_loop(v) \/ isNavigating(v) \/ goalReceived(v) \/ startNavigating(v)
  \/ run_canceled(v) \/ tickOnce(v) \/ onLoop(v) \/ initializeGoalPose(v)
  \/ onCompletion(v) \/ report(v) \/ work_after(v)

-----------------------------------------------------------------------------
executor ==
  \/ \E v \in Navigator : handle_accepted(v)
  \/ deactivated

Next ==
  \/ \E g \in Goal : cancel_goal(g) \/ \E v \in Navigator : handle_goal(v, g)
  \/ on_activate \/ on_deactivate \/ deactivate_overdue
  \/ executor
  \/ \E v \in Navigator : executeCallback(v)

\* The executor and the workers are scheduled, and a tree that is ticked for
\* ever ends.
Fairness ==
  /\ WF_vars(executor)
  /\ \A v \in Navigator :
       /\ WF_vars(executeCallback(v))
       /\ SF_vars(tickOnce(v) /\ tick'[v] # "running")

Spec == Init /\ [][Next]_vars
FairSpec == Spec /\ Fairness

-----------------------------------------------------------------------------
(* Properties.                                                             *)

\* In the window between startNavigating() and stopNavigating().
Navigating(v) == worker[v] \in {"condition", "loop", "preempting", "completing"}

TypeOK ==
  /\ status \in [Goal -> Protocol!Status]
  /\ current \in [Navigator -> Goal \cup {NoGoal}]
  /\ pending \in [Navigator -> Goal \cup {NoGoal}]
  /\ incoming \in [Navigator -> Goal \cup {NoGoal}]
  /\ active \in [Navigator -> BOOLEAN]
  /\ deactivating \in 0..N
  /\ node_active \in BOOLEAN
  /\ worker \in [Navigator -> {"none", "work", "received", "receiving",
                               "starting", "condition", "loop", "preempting",
                               "completing", "reporting", "returned"}]
  /\ tick \in [Navigator -> {"none", "running", "succeeded", "failed", "canceled"}]
  /\ tracking \in [Navigator -> BOOLEAN]
  /\ current_navigator \in Navigator \cup {NoNavigator}
  /\ major_error \in BOOLEAN

\* Two navigators that got past the muxer together were reported by it.
OverlapIsReported ==
  \A v, u \in Navigator : v # u /\ Navigating(v) /\ Navigating(u) => major_error

Held(v) == {incoming[v], current[v], pending[v]} \ {NoGoal}

\* Every goal held by a navigator is live, and every live goal is held by
\* exactly one: none is lost in a preemption, refused or accepted.
LiveGoalsAreHeld ==
  /\ \A g \in Goal : is_active(g) <=> \E v \in Navigator : g \in Held(v)
  /\ \A v, u \in Navigator : v # u => Held(v) \cap Held(u) = {}

\* With finitely many goals the navigators come to rest, the muxer and the
\* executor free: no chain of refusals, preemptions, cancels and deactivations
\* keeps a callback, the muxer or a lifecycle transition for ever.
NavigatorsComeToRest ==
  []<>(/\ \A v \in Navigator : worker[v] = "none"
       /\ current_navigator = NoNavigator
       /\ deactivating = NoNavigator)

\* NavigatorMuxer: "allowing only a single plugin to be processed at a time".
SingleNavigator ==
  \A v, u \in Navigator : Navigating(v) /\ Navigating(u) => v = u

\* onPreempt, when the new goal's pose cannot be transformed: "Preemption
\* request was rejected [...] continuing to track the last goal until
\* completion."  So the goal the tree works on is the server's current goal.
TracksLastGoal ==
  \A v \in Navigator :
    worker[v] \in {"condition", "loop"} /\ current[v] # NoGoal =>
      tracking[v]

=============================================================================
