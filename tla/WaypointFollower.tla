-------------------------- MODULE WaypointFollower --------------------------
(***************************************************************************)
(* nav2_waypoint_follower: followWaypointsHandler(), at once the callback  *)
(* of one action server and the client of another, navigate_to_pose.  Its  *)
(* client's callbacks run only where the handler spins its callback group. *)
(* The GPS action has the same handler: a conversion that fails leaves     *)
(* fewer poses.                                                            *)
(*                                                                         *)
(* navigate_to_pose is the protocol every action server keeps, with a few  *)
(* goals in flight: one that has ended may be sent again as a new one.     *)
(***************************************************************************)
EXTENDS TaskServer, Naturals

CONSTANTS
  NavGoal,     \* goals of navigate_to_pose in flight
  NoNav,
  MaxWaypoints   \* bound: the waypoints of a request

VARIABLES
  nav,                 \* navigate_to_pose: the state of every goal
  known,               \* what the client has processed of each goal
  future_goal_handle,  \* the goal future_goal_handle_ belongs to
  goal_status,         \* current_goal_status_
  poses, goal_index, new_goal,   \* locals of the handler
  visited              \* history: the waypoints of this request dealt with

Nav == INSTANCE GoalProtocol WITH Goal <- NavGoal, status <- nav

clientVars == <<nav, known, future_goal_handle, goal_status>>
handlerVars == <<poses, goal_index, new_goal, visited>>
followerVars == <<vars, taskVars, clientVars, handlerVars>>

FollowerInit ==
  /\ TaskInit /\ Nav!Init
  /\ known = [n \in NavGoal |-> "nothing"]
  /\ future_goal_handle = NoNav /\ goal_status = "UNKNOWN"
  /\ poses = 0 /\ goal_index = 0 /\ new_goal = FALSE /\ visited = {}

NoClient == UNCHANGED clientVars
NoHandler == UNCHANGED handlerVars
HandlerReturns == poses' = 0 /\ goal_index' = 0 /\ new_goal' = FALSE /\ visited' = {}

-----------------------------------------------------------------------------
(* navigate_to_pose and its answers.                                       *)

navigate_to_pose ==
  /\ \/ \E n \in NavGoal : known[n] # "nothing" /\ Nav!Answer(n)
     \/ Nav!Finish /\ nav' # nav
  /\ UNCHANGED <<vars, taskVars, known, future_goal_handle, goal_status, handlerVars>>

goalResponseCallback(n) ==
  /\ known[n] = "sent" /\ nav[n] # "unsent"
  /\ known' = [known EXCEPT ![n] = IF nav[n] = "rejected" THEN "rejected" ELSE "accepted"]
  /\ goal_status' = IF nav[n] = "rejected" THEN "FAILED" ELSE goal_status
  /\ UNCHANGED pc

\* Mutant: the result of any goal is taken for the current waypoint's.
isOldResult_never(n) == FALSE

isOldResult(n) == n # future_goal_handle

\* future_goal_handle_.get() blocks the thread that would have to receive the
\* answer it waits for; the handle of a rejected goal is null.
resultCallback(n) ==
  /\ known[n] = "accepted" /\ nav[n] \in FinalStatus
  /\ known' = [known EXCEPT ![n] = "done"]
  /\ \/ known[future_goal_handle] = "sent" /\ Goto("blocked") /\ UNCHANGED goal_status
     \/ known[future_goal_handle] = "rejected" /\ Goto("crashed") /\ UNCHANGED goal_status
     \/ /\ known[future_goal_handle] \in {"accepted", "done"}
        /\ goal_status' = IF isOldResult(n) THEN goal_status
                          ELSE IF nav[n] = "succeeded" THEN "SUCCEEDED" ELSE "FAILED"
        /\ UNCHANGED pc

\* What the executor of the callback group finds ready, one at a time.
spin_some(w) ==
  /\ worker[w] \in {"running", "canceling"} /\ pc \in {"spin", "cancel_wait", "cancel_spin"}
  /\ \E n \in NavGoal : goalResponseCallback(n) \/ resultCallback(n)
  /\ UNCHANGED <<nav, future_goal_handle>> /\ NoCall /\ NoMotion /\ NoHandler

-----------------------------------------------------------------------------
(* followWaypointsHandler().                                               *)

\* goal->number_of_loops is read here once, of the goal that is current first.
followWaypointsHandler(w) ==
  /\ at(w, "entered") /\ pc = "out"
  /\ IF is_active(current_handle)
     THEN get_current_goal(w) /\ Goto("poses") /\ NoMotion
     ELSE Crash(w)
  /\ NoClient /\ NoHandler

\* The current goal is read again.  The first request names the waypoint to
\* start at, which its clients take from those they send; one that preempts
\* starts at the first.
getLatestGoalPoses(w) ==
  /\ Running(w, "poses") \/ Running(w, "new_poses")
  /\ IF is_active(current_handle)
     THEN /\ poses' \in 0..MaxWaypoints
          /\ goal_index' \in IF pc = "poses" /\ poses' > 0 THEN 0..(poses' - 1) ELSE {0}
          /\ visited' = {} /\ new_goal' = TRUE
          /\ Goto(IF pc = "poses" THEN "active?" ELSE IF poses' = 0 THEN "abort" ELSE "waypoint")
          /\ NoCall /\ NoMotion
     ELSE Crash(w) /\ NoHandler
  /\ NoClient

followWaypointsHandler_active(w) ==
  /\ Running(w, "active?")
  /\ Goto(IF ~server_active THEN "return" ELSE IF poses = 0 THEN "abort" ELSE "loop")
  /\ NoCall /\ NoMotion /\ NoClient /\ NoHandler

\* async_cancel_all_goals(), whose answer is awaited without a time limit,
\* one more round of callbacks, and terminate_all().
followWaypointsHandler_cancel(w) ==
  \/ /\ Running(w, "loop") \/ Running(w, "spin")
     /\ IF is_cancel_requested THEN see_cancel(w) /\ Goto("cancel_wait") ELSE NoCall /\ Goto("preempt?")
     /\ NoClient /\ NoHandler
  \/ /\ at(w, "canceling") /\ pc = "cancel_wait"
     /\ nav' = [n \in NavGoal |-> IF nav[n] = "executing" THEN "canceling" ELSE nav[n]]
     /\ Goto("cancel_spin") /\ NoCall /\ NoHandler
     /\ UNCHANGED <<known, future_goal_handle, goal_status>>
  \/ /\ at(w, "canceling") /\ pc = "cancel_spin"
     /\ cancel_all(w) /\ Goto("out") /\ NoClient /\ HandlerReturns

\* number_of_loops of the preempting request is not read.
followWaypointsHandler_preempt(w) ==
  \/ /\ Running(w, "preempt?")
     /\ IF preempt_requested THEN see_preempt(w) /\ Goto("accept") ELSE NoCall /\ Goto("waypoint")
  \/ /\ at(w, "preempting") /\ pc = "accept"
     /\ accept_pending_goal(w) /\ Goto("new_poses")

\* The goals of navigate_to_pose the client is through with.
over(n) == nav[n] \notin Nav!ActiveStatus /\ known[n] \in {"nothing", "rejected", "done"}

\* async_send_goal(): nothing of the new goal has been received yet, and what
\* is over is forgotten.
followWaypointsHandler_send(w) ==
  /\ Running(w, "waypoint") /\ new_goal
  /\ \E n \in NavGoal : over(n)
  /\ future_goal_handle' = CHOOSE n \in NavGoal : over(n)
  /\ nav' = [n \in NavGoal |-> IF over(n) THEN "unsent" ELSE nav[n]]
  /\ known' = [n \in NavGoal |-> IF n = future_goal_handle' THEN "sent"
                                ELSE IF over(n) THEN "nothing" ELSE known[n]]
  /\ goal_status' = "PROCESSING"
  /\ new_goal' = FALSE /\ UNCHANGED <<poses, goal_index, visited>>
  /\ Goto("spin") /\ NoCall /\ NoMotion

\* Mutant: the last waypoint is not waited for.
lastWaypoint_early(i) == i + 2 >= poses

lastWaypoint(i) == i + 1 >= poses

\* A waypoint has been dealt with: the next one; or, depending on the number of
\* loops, one more loop or the end.
nextWaypoint ==
  /\ visited' = visited \cup {goal_index}
  /\ IF ~lastWaypoint(goal_index)
     THEN goal_index' = goal_index + 1 /\ new_goal' = TRUE /\ Goto("spin")
     ELSE \/ Goto("succeed") /\ UNCHANGED <<goal_index, new_goal>>
          \/ goal_index' = 0 /\ new_goal' = TRUE /\ Goto("spin")
  /\ UNCHANGED poses

\* A waypoint that failed, or whose task failed, ends the request when
\* stop_on_failure_ is set, which may change at any time.
followWaypointsHandler_status(w) ==
  /\ Running(w, "waypoint") /\ ~new_goal
  /\ \/ goal_status = "PROCESSING" /\ Goto("spin") /\ NoHandler
     \/ goal_status # "PROCESSING" /\ Goto("abort") /\ NoHandler
     \/ goal_status # "PROCESSING" /\ nextWaypoint
  /\ NoCall /\ NoMotion /\ NoClient

-----------------------------------------------------------------------------

WaypointFollower_on_activate ==
  /\ Alive /\ activate /\ UNCHANGED taskVars /\ NoClient /\ NoHandler

WaypointFollower_on_deactivate ==
  /\ Alive /\ (deactivate \/ deactivated \/ deactivate_overdue)
  /\ UNCHANGED taskVars /\ NoClient /\ NoHandler

Follow(w) ==
  \/ followWaypointsHandler(w) \/ getLatestGoalPoses(w) \/ followWaypointsHandler_active(w)
  \/ followWaypointsHandler_cancel(w) /\ NoMotion
  \/ followWaypointsHandler_preempt(w) /\ NoMotion /\ NoClient /\ NoHandler
  \/ followWaypointsHandler_send(w) \/ followWaypointsHandler_status(w)
  \/ Ends(w) /\ NoClient /\ HandlerReturns
  \/ Worker_outside(w) /\ NoClient /\ NoHandler

FollowerNext ==
  \/ Executor /\ NoClient /\ NoHandler
  \/ WaypointFollower_on_activate \/ WaypointFollower_on_deactivate
  \/ navigate_to_pose
  \/ \E w \in Worker : Follow(w) \/ spin_some(w)

FollowerSpec == FollowerInit /\ [][FollowerNext]_followerVars

-----------------------------------------------------------------------------
(* Properties.                                                             *)

\* A waypoint counts as reached only if the navigation that was started for it
\* has succeeded: results of older goals, which may arrive at any later round,
\* are not taken for it.
ReachedIsItsOwn == pc = "waypoint" /\ ~new_goal /\ goal_status = "SUCCEEDED" => nav[future_goal_handle] = "succeeded"

\* A request is reported as done only when every waypoint from where it
\* started was dealt with, one navigation each, and goal_index never leaves
\* the poses, through failures, loops and preempting requests of any length.
AllWaypointsVisited ==
  /\ pc = "waypoint" => goal_index < poses
  /\ pc = "succeed" /\ poses > 0 => \E i \in 0..(poses - 1) : visited = i..(poses - 1) \/ visited = 0..(poses - 1)

\* "Ignoring likely due to receiving result for an old goal.": a result of an
\* old goal never stops the follower.
OldResultsAreIgnored == pc # "blocked"

=============================================================================
