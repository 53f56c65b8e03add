---------------------------- MODULE BtActionNode ----------------------------
(***************************************************************************)
(* nav2_behavior_tree::BtActionNode: the leaf of a behavior tree that is   *)
(* the client of an action server.  tick() sends a goal, waits a little    *)
(* for its acknowledgment, then for its result, over as many ticks as it   *)
(* takes; a goal updated on the way is sent again; halt() cancels.         *)
(*                                                                         *)
(* What the server sends is processed only when the node spins its         *)
(* executor, in tick() and halt(): the server moves on in between, and any *)
(* part of what it has sent so far may have arrived.  Acknowledgments and  *)
(* results of goals the node has given up arrive like any others.          *)
(*                                                                         *)
(* Time is abstract: whether a timeout has elapsed is a choice.  A parent  *)
(* resets a child that has completed before it ticks it again, so SUCCESS  *)
(* and FAILURE are "idle" here.  rclcpp shutting down is left out.         *)
(***************************************************************************)
EXTENDS Naturals

CONSTANT MaxSent   \* bound: how many goals the node sends

ASSUME MaxSentAssumption == MaxSent \in Nat

ActionGoal == 1..MaxSent   \* numbered in the order they are sent
None == 0                  \* a null future, handle or result

VARIABLES
  goal_status,     \* the server's state of every goal
  client,          \* what the action client has processed about every goal
  cancels,         \* the goals the node has asked the server to cancel
  node,            \* the status of the tree node: "idle" or "running"
  pc,              \* where tick() or halt() is; "out" between the calls
  sent,            \* the number of goals sent, which is the last one sent
  future,          \* future_goal_handle_: the goal it is for
  handle,          \* goal_handle_
  available,       \* goal_result_available_
  result,          \* result_: the goal it is of
  goal_updated,    \* goal_updated_
  dropped          \* history: goals whose future was dropped unanswered

placeVars == <<node, pc>>
resultVars == <<available, result>>
actionVars == <<goal_status, client, cancels, placeVars, sent, future, handle, resultVars,
                goal_updated, dropped>>

Server == INSTANCE GoalProtocol WITH status <- goal_status, Goal <- ActionGoal

NodeInit ==
  /\ goal_status = [g \in ActionGoal |-> "unsent"]
  /\ client = [g \in ActionGoal |-> "unknown"]
  /\ cancels = {}
  /\ node = "idle" /\ pc = "out"
  /\ sent = 0
  /\ future = None
  /\ handle = None
  /\ available = FALSE
  /\ result = None
  /\ goal_updated = FALSE
  /\ dropped = {}

-----------------------------------------------------------------------------
(* The action server: it takes the requests in order.                      *)

server_answer(g) ==
  /\ g <= sent /\ \A h \in 1..(g - 1) : goal_status[h] # "unsent"
  /\ Server!Answer(g)

server_cancel(g) == g \in cancels /\ Server!Cancel(g)

server_finish(g) ==
  /\ goal_status[g] \in Server!ActiveStatus
  /\ \E s \in Server!Outcome(goal_status[g]) : goal_status' = [goal_status EXCEPT ![g] = s]

server ==
  /\ \E g \in ActionGoal : server_answer(g) \/ server_cancel(g) \/ server_finish(g)
  /\ UNCHANGED <<client, cancels, placeVars, sent, future, handle, resultVars,
                 goal_updated, dropped>>

-----------------------------------------------------------------------------
(* Spinning: rclcpp_action's client, and the callbacks of the node.        *)

\* What may be processed next about g: the answer to the request; then the end
\* of the goal, as a status message or as its result.
News(g) ==
  CASE client[g] = "unknown" ->
         IF goal_status[g] = "unsent" THEN {}
         ELSE IF goal_status[g] = "rejected" THEN {"refused"} ELSE {"tracked"}
    [] client[g] = "tracked" /\ goal_status[g] \in Server!FinalStatus -> {"ended", "resulted"}
    [] client[g] = "ended" -> {"resulted"}
    [] OTHER -> {}

\* Mutant: a result is taken for the current goal's without looking at its id.
result_callback_any(g) == future = None

\* The result callback keeps a result only if no acknowledgment is awaited and
\* the goal is the one in goal_handle_.
result_callback(g) == future = None /\ handle = g

\* One call of spin_some() or spin_until_future_complete().
spin ==
  /\ client' \in [ActionGoal -> {"unknown", "tracked", "refused", "ended", "resulted"}]
  /\ \A g \in ActionGoal : client'[g] \in {client[g]} \cup News(g)
  /\ LET kept == {g \in ActionGoal : /\ client[g] # "resulted" /\ client'[g] = "resulted"
                                     /\ result_callback(g)}
     IN IF kept = {} THEN UNCHANGED resultVars
        ELSE available' = TRUE /\ result' \in kept

-----------------------------------------------------------------------------
(* tick().                                                                 *)

goes_on(l) == node' = "running" /\ pc' = l
return(s) == node' = s /\ pc' = "out"

send_new_goal ==
  /\ sent < MaxSent
  /\ sent' = sent + 1
  /\ future' = sent + 1
  /\ available' = FALSE
  /\ UNCHANGED result

\* The first tick of an activation.  on_tick() may decide not to send a goal,
\* which leaves everything as it is.
tick_idle ==
  /\ node = "idle"
  /\ send_new_goal
  /\ goes_on("acknowledge")
  /\ UNCHANGED <<goal_status, client, cancels, handle, goal_updated, dropped>>

\* Every other tick.
tick_running ==
  /\ node = "running" /\ pc = "out"
  /\ goes_on(IF future # None THEN "acknowledge"
             ELSE IF available THEN "report" ELSE "wait")
  /\ UNCHANGED <<goal_status, client, cancels, sent, future, handle, resultVars,
                 goal_updated, dropped>>

\* The goal request has timed out, before or in is_future_goal_handle_complete.
acknowledge_timeout ==
  /\ pc \in {"acknowledge", "reacknowledge"}
  /\ \/ UNCHANGED <<client, resultVars>>
     \/ spin /\ client'[future] = "unknown"
  /\ future' = None
  /\ dropped' = dropped \cup {future}
  /\ return("idle")
  /\ UNCHANGED <<goal_status, cancels, sent, handle, goal_updated>>

\* Mutant: the future is kept after it was answered.
is_future_goal_handle_complete_keeping ==
  /\ pc \in {"acknowledge", "reacknowledge"}
  /\ spin
  /\ \/ /\ client'[future] = "unknown"
        /\ return("running")
        /\ UNCHANGED <<future, handle>>
     \/ /\ client'[future] = "refused"
        /\ handle' = None /\ UNCHANGED future
        /\ return("idle")
     \/ /\ client'[future] \notin {"unknown", "refused"}
        /\ handle' = future /\ UNCHANGED future
        /\ goes_on(IF pc = "reacknowledge" THEN "spin"
                   ELSE IF available THEN "report" ELSE "wait")
  /\ UNCHANGED <<goal_status, cancels, sent, goal_updated, dropped>>

\* Mutant: a null handle, the answer to a rejected goal, is not looked at.
is_future_goal_handle_complete_unchecked ==
  /\ pc \in {"acknowledge", "reacknowledge"}
  /\ spin
  /\ IF client'[future] = "unknown"
     THEN return("running") /\ UNCHANGED <<future, handle>>
     ELSE /\ handle' = IF client'[future] = "refused" THEN None ELSE future
          /\ future' = None
          /\ goes_on(IF pc = "reacknowledge" THEN "spin" ELSE "wait")
  /\ UNCHANGED <<goal_status, cancels, sent, goal_updated, dropped>>

\* is_future_goal_handle_complete(), while there is still time: no answer yet,
\* the goal is rejected, or it is acknowledged.
is_future_goal_handle_complete ==
  /\ pc \in {"acknowledge", "reacknowledge"}
  /\ spin
  /\ \/ /\ client'[future] = "unknown"
        /\ return("running")
        /\ UNCHANGED <<future, handle>>
     \/ /\ client'[future] = "refused"
        /\ handle' = None /\ future' = None
        /\ return("idle")
     \/ /\ client'[future] \notin {"unknown", "refused"}
        /\ handle' = future /\ future' = None
        /\ goes_on(IF pc = "reacknowledge" THEN "spin"
                   ELSE IF available THEN "report" ELSE "wait")
  /\ UNCHANGED <<goal_status, cancels, sent, goal_updated, dropped>>

\* on_wait_for_result() may find the goal updated; it is sent again if the one
\* before it still executes, as far as the client knows.
on_wait_for_result ==
  /\ pc = "wait"
  /\ \E updated \in {goal_updated, TRUE} :
       \/ /\ updated /\ client[handle] = "tracked"
          /\ send_new_goal
          /\ goal_updated' = FALSE
          /\ goes_on("reacknowledge")
       \/ /\ ~(updated /\ client[handle] = "tracked") \/ sent = MaxSent
          /\ goal_updated' = updated
          /\ goes_on("spin")
          /\ UNCHANGED <<sent, future, resultVars>>
  /\ UNCHANGED <<goal_status, client, cancels, handle, dropped>>

\* The spin_some() of tick(), and the look for the result after it.
tick_spin ==
  /\ pc = "spin"
  /\ spin
  /\ IF available' THEN goes_on("report") ELSE return("running")
  /\ UNCHANGED <<goal_status, cancels, sent, future, handle, goal_updated, dropped>>

\* The end of tick(): on_success(), on_aborted() or on_cancelled().
tick_report ==
  /\ pc = "report"
  /\ handle' = None
  /\ return("idle")
  /\ UNCHANGED <<goal_status, client, cancels, sent, future, resultVars, goal_updated,
                 dropped>>

-----------------------------------------------------------------------------
(* halt(), called on a node that is idle without effect.                   *)

\* The future, if any, is left behind.
halted ==
  /\ return("idle")
  /\ dropped' = IF future = None THEN dropped ELSE dropped \cup {future}

\* Mutant: a goal in execution is not canceled if an update of it is under way.
halt_unless_updating ==
  /\ node = "running" /\ pc = "out"
  /\ \/ /\ handle = None
        /\ halted
        /\ UNCHANGED <<client, resultVars, cancels>>
     \/ /\ handle # None
        /\ spin
        /\ IF client'[handle] = "tracked" /\ ~goal_updated
           THEN cancels' = cancels \cup {handle} /\ goes_on("cancel") /\ UNCHANGED dropped
           ELSE halted /\ UNCHANGED cancels
  /\ UNCHANGED <<goal_status, sent, future, handle, goal_updated>>

\* should_cancel_goal(), and the cancel request.
halt ==
  /\ node = "running" /\ pc = "out"
  /\ \/ /\ handle = None
        /\ halted
        /\ UNCHANGED <<client, resultVars, cancels>>
     \/ /\ handle # None
        /\ spin
        /\ IF client'[handle] = "tracked"
           THEN cancels' = cancels \cup {handle} /\ goes_on("cancel") /\ UNCHANGED dropped
           ELSE halted /\ UNCHANGED cancels
  /\ UNCHANGED <<goal_status, sent, future, handle, goal_updated>>

\* It waits for the answer to the cancel request, then for the result; that
\* either of them times out is only logged.
halt_cancel ==
  /\ pc = "cancel"
  /\ spin
  /\ goes_on("cancel_result")
  /\ UNCHANGED <<goal_status, cancels, sent, future, handle, goal_updated, dropped>>

halt_result ==
  /\ pc = "cancel_result"
  /\ spin
  /\ halted
  /\ UNCHANGED <<goal_status, cancels, sent, future, handle, goal_updated>>

-----------------------------------------------------------------------------
ticked ==
  \/ tick_running \/ acknowledge_timeout \/ is_future_goal_handle_complete
  \/ on_wait_for_result \/ tick_spin \/ tick_report

NodeNext == server \/ tick_idle \/ ticked \/ halt \/ halt_cancel \/ halt_result

\* A running node is ticked; the server answers requests and ends goals; the
\* goal request is answered or times out, and a result that was sent arrives.
NodeFairness ==
  /\ WF_actionVars(ticked) /\ WF_actionVars(halt_cancel \/ halt_result)
  /\ WF_actionVars(server)
  /\ SF_actionVars(is_future_goal_handle_complete /\ future' = None)
  /\ SF_actionVars(tick_spin /\ available')

NodeSpec == NodeInit /\ [][NodeNext]_actionVars
NodeFairSpec == NodeSpec /\ NodeFairness

-----------------------------------------------------------------------------
(* Properties.                                                             *)

NodeTypeOK ==
  /\ goal_status \in [ActionGoal -> Server!Status]
  /\ client \in [ActionGoal -> {"unknown", "tracked", "refused", "ended", "resulted"}]
  /\ cancels \subseteq ActionGoal /\ dropped \subseteq ActionGoal
  /\ node \in {"idle", "running"}
  /\ pc \in {"out", "acknowledge", "reacknowledge", "wait", "spin", "report",
             "cancel", "cancel_result"}
  /\ sent \in 0..MaxSent
  /\ future \in 0..sent /\ handle \in 0..sent /\ result \in 0..sent
  /\ available \in BOOLEAN /\ goal_updated \in BOOLEAN

\* Every use of *goal_handle_ finds a goal: in tick() after the acknowledgment,
\* and in the result callback, which any spin without a future may run.
HandleIsSet ==
  /\ pc \in {"wait", "spin", "report", "cancel", "cancel_result"} => handle # None
  /\ node = "running" /\ future = None => handle # None

\* The outcome that tick() reports is that of the last goal it sent: not of one
\* preempted by an update, nor of one halted or timed out in an earlier
\* activation whose result arrives late.
ReportsLastGoal ==
  pc = "report" => result = sent /\ goal_status[sent] \in Server!FinalStatus

\* When the node rests, the last goal it sent runs on uncanceled only if the
\* node gave up before the goal was acknowledged.
NoForgottenGoal ==
  node = "idle" /\ sent # 0 /\ goal_status[sent] \in Server!ActiveStatus
    => sent \in cancels \/ sent \in dropped

\* A running node comes to an end if the server answers: no result is waited
\* for that the callback has thrown away.
NodeCompletes == node = "running" ~> node = "idle"

\* halt(): "we make sure to cancel the ROS2 action if it is still running."
HaltCancels ==
  [][node = "running" /\ pc \in {"out", "cancel_result"} /\ node' = "idle"
       => \A g \in ActionGoal : goal_status[g] \in Server!ActiveStatus => g \in cancels]_actionVars

=============================================================================
