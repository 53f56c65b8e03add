------------------------- MODULE SimpleActionServer -------------------------
(***************************************************************************)
(* nav2_util::SimpleActionServer: the action server every Nav2 task server *)
(* is built on.  It keeps one goal it works on (current_handle_) and one   *)
(* that waits to preempt it (pending_handle_), and runs the task server's  *)
(* callback on a worker thread started by std::async.                      *)
(*                                                                         *)
(* Three kinds of threads share the object, each step here being one       *)
(* critical section of update_mutex_ or one access made outside it:        *)
(*   - the executor thread runs handle_goal, handle_accepted and           *)
(*     handle_cancel;                                                      *)
(*   - a worker thread runs work() and, inside it, execute_callback_;      *)
(*   - the lifecycle thread runs activate() and deactivate().  It is not   *)
(*     the executor thread when spin_thread_ is set, nor in the            *)
(*     pre-shutdown callback of the node.                                  *)
(*                                                                         *)
(* The callback is any of the task servers': the model lets it make every  *)
(* call they make, in any order.  rclcpp::ok() is not modelled: it turns   *)
(* false only after the pre-shutdown callback has deactivated the server.  *)
(***************************************************************************)
EXTENDS FiniteSets

CONSTANTS
  Goal,      \* goal ids clients may send, each at most once
  NoGoal,    \* the null goal handle
  Worker,    \* identities of the threads std::async may start
  NoWorker   \* execution_future_ before the first goal

ASSUME NullsAssumption == NoGoal \notin Goal /\ NoWorker \notin Worker

VARIABLES
  status,             \* rclcpp_action: the state of every goal handle
  current_handle,     \* current_handle_
  pending_handle,     \* pending_handle_
  preempt_requested,  \* preempt_requested_
  server_active,      \* server_active_
  stop_execution,     \* stop_execution_
  execution_future,   \* the worker execution_future_ waits for
  worker,             \* where each worker thread is in work()
  executor,           \* the request the executor thread is in the middle of
  lifecycle           \* where the lifecycle thread is in deactivate()

goalVars == <<status, current_handle, pending_handle, preempt_requested>>
flagVars == <<server_active, stop_execution>>
vars == <<goalVars, flagVars, execution_future, worker, executor, lifecycle>>

Protocol == INSTANCE GoalProtocol

ActiveStatus == Protocol!ActiveStatus
FinalStatus == Protocol!FinalStatus

\* Inside execute_callback_: before the goal is read; running; having seen a
\* preemption request; having seen a cancel request.
InCallback == {"entered", "running", "preempting", "canceling"}

WorkerState ==
  {"none", "loop", "returned", "caught", "leaving"} \cup InCallback

Idle == [op |-> "idle", goal |-> NoGoal]

-----------------------------------------------------------------------------
(* Helpers of the class.                                                   *)

is_active(handle) == handle # NoGoal /\ status[handle] \in ActiveStatus

\* The thread of execution_future_ has not returned from work() yet.
is_running == execution_future # NoWorker /\ worker[execution_future] # "none"

\* Mutant: the outcome does not depend on whether a cancel was accepted.
terminate_as_canceled(st, handle) ==
  IF handle # NoGoal /\ st[handle] \in ActiveStatus
  THEN [st EXCEPT ![handle] = "canceled"]
  ELSE st

\* terminate(): the statuses after it, and the handle after it.
terminate(st, handle) ==
  IF handle # NoGoal /\ st[handle] \in ActiveStatus
  THEN [st EXCEPT ![handle] = IF @ = "canceling" THEN "canceled" ELSE "aborted"]
  ELSE st

terminated(st, handle) ==
  IF handle # NoGoal /\ st[handle] \in ActiveStatus THEN NoGoal ELSE handle

terminate_all ==
  LET st == terminate(status, current_handle)
  IN  /\ status' = terminate(st, pending_handle)
      /\ current_handle' = terminated(status, current_handle)
      /\ pending_handle' = terminated(st, pending_handle)
      /\ preempt_requested' = FALSE

\* accept_pending_goal() on the statuses st and the current handle cur.
accept_pending(st, cur) ==
  /\ status' = IF cur # NoGoal /\ st[cur] \in ActiveStatus /\ cur # pending_handle
               THEN [st EXCEPT ![cur] = "aborted"]
               ELSE st
  /\ current_handle' = pending_handle
  /\ pending_handle' = NoGoal
  /\ preempt_requested' = FALSE

is_cancel_requested ==
  /\ current_handle # NoGoal
  /\ IF pending_handle # NoGoal
     THEN status[pending_handle] = "canceling"
     ELSE status[current_handle] = "canceling"

-----------------------------------------------------------------------------
Init ==
  /\ status = [g \in Goal |-> "unsent"]
  /\ current_handle = NoGoal
  /\ pending_handle = NoGoal
  /\ preempt_requested = FALSE
  /\ server_active = FALSE
  /\ stop_execution = FALSE
  /\ execution_future = NoWorker
  /\ worker = [w \in Worker |-> "none"]
  /\ executor = Idle
  /\ lifecycle = "idle"

-----------------------------------------------------------------------------
(* The executor thread.                                                    *)

\* A goal request arrives: rejected while inactive.  An accepted goal is put
\* in the executing state by rclcpp_action, which then calls handle_accepted
\* without holding update_mutex_.
handle_goal(g) ==
  /\ executor = Idle
  /\ status[g] = "unsent"
  /\ IF server_active
     THEN /\ status' = [status EXCEPT ![g] = "executing"]
          /\ executor' = [op |-> "accepted", goal |-> g]
     ELSE /\ status' = [status EXCEPT ![g] = "rejected"]
          /\ UNCHANGED executor
  /\ UNCHANGED <<current_handle, pending_handle, preempt_requested, flagVars,
                 execution_future, worker, lifecycle>>

\* Mutant: the goal that waited is replaced without being ended.
park_over(g) ==
  /\ pending_handle' = g
  /\ preempt_requested' = TRUE
  /\ UNCHANGED <<status, current_handle, execution_future, worker>>

\* handle_accepted() with an older goal active: the new one waits, replacing
\* the one that waited before.
park(g) ==
  /\ status' = terminate(status, pending_handle)
  /\ pending_handle' = g
  /\ preempt_requested' = TRUE
  /\ UNCHANGED <<current_handle, execution_future, worker>>

\* handle_accepted() otherwise: the goal becomes current and a worker starts.
start(g) ==
  /\ status' = terminate(status, pending_handle)
  /\ pending_handle' = terminated(status, pending_handle)
  /\ preempt_requested' = (preempt_requested /\ ~is_active(pending_handle))
  /\ current_handle' = g
  /\ \E w \in Worker :
       /\ worker[w] = "none"
       /\ execution_future' = w
       /\ worker' = [worker EXCEPT ![w] = "loop"]

\* Mutant: a worker that has ended its goal but not returned is overlooked.
handle_accepted_unless_active ==
  /\ executor.op = "accepted"
  /\ IF is_active(current_handle) THEN park(executor.goal) ELSE start(executor.goal)
  /\ executor' = Idle
  /\ UNCHANGED <<flagVars, lifecycle>>

handle_accepted ==
  /\ executor.op = "accepted"
  /\ IF is_active(current_handle) \/ is_running
     THEN park(executor.goal)
     ELSE start(executor.goal)
  /\ executor' = Idle
  /\ UNCHANGED <<flagVars, lifecycle>>

\* A cancel request arrives for a goal that is still active: handle_cancel
\* accepts it and releases update_mutex_ ...
handle_cancel(g) ==
  /\ executor = Idle
  /\ status[g] = "executing"
  /\ executor' = [op |-> "cancel", goal |-> g]
  /\ UNCHANGED <<goalVars, flagVars, execution_future, worker, lifecycle>>

\* ... and then rclcpp_action moves the goal to canceling, unless a worker or
\* the lifecycle thread has ended it in the meantime.
cancel_goal ==
  /\ executor.op = "cancel"
  /\ status' = IF status[executor.goal] = "executing"
               THEN [status EXCEPT ![executor.goal] = "canceling"]
               ELSE status
  /\ executor' = Idle
  /\ UNCHANGED <<current_handle, pending_handle, preempt_requested, flagVars,
                 execution_future, worker, lifecycle>>

-----------------------------------------------------------------------------
(* The worker thread: work().                                              *)

at(w, pc) == worker[w] = pc
goto(w, pc) == worker' = [worker EXCEPT ![w] = pc]
workerFrame == UNCHANGED <<flagVars, execution_future, executor, lifecycle>>

\* The loop condition, read without update_mutex_.
work_loop(w) ==
  /\ at(w, "loop")
  /\ goto(w, IF ~stop_execution /\ is_active(current_handle)
             THEN "entered" ELSE "leaving")
  /\ workerFrame /\ UNCHANGED goalVars

\* Mutant: a goal the callback left unfinished is not ended.
work_after_trusting(w) ==
  /\ at(w, "returned")
  /\ IF stop_execution
     THEN terminate_all /\ goto(w, "leaving")
     ELSE IF is_active(pending_handle)
          THEN accept_pending(status, current_handle) /\ goto(w, "loop")
          ELSE goto(w, "leaving") /\ UNCHANGED goalVars
  /\ workerFrame

\* After the callback: one critical section.
work_after(w) ==
  LET st  == terminate(status, current_handle)
      cur == terminated(status, current_handle)
  IN  /\ at(w, "returned")
      /\ IF stop_execution
         THEN terminate_all /\ goto(w, "leaving")
         ELSE IF is_active(pending_handle)
              THEN accept_pending(st, cur) /\ goto(w, "loop")
              ELSE /\ status' = st
                   /\ current_handle' = cur
                   /\ goto(w, "leaving")
                   /\ UNCHANGED <<pending_handle, preempt_requested>>
      /\ workerFrame

\* The callback threw.
work_catch(w) ==
  /\ at(w, "caught")
  /\ terminate_all
  /\ goto(w, "leaving")
  /\ workerFrame

\* work() returns: only now does execution_future_ become ready.
work_return(w) ==
  /\ at(w, "leaving")
  /\ goto(w, "none")
  /\ workerFrame /\ UNCHANGED goalVars

-----------------------------------------------------------------------------
(* The worker thread: the calls a task server makes from its callback.     *)

get_current_goal(w) ==
  /\ at(w, "entered")
  /\ goto(w, "running")
  /\ workerFrame /\ UNCHANGED goalVars

see_preempt(w) ==
  /\ at(w, "running")
  /\ preempt_requested
  /\ goto(w, "preempting")
  /\ workerFrame /\ UNCHANGED goalVars

accept_pending_goal(w) ==
  /\ at(w, "preempting")
  /\ IF is_active(pending_handle)
     THEN accept_pending(status, current_handle)
     ELSE UNCHANGED goalVars
  /\ goto(w, "running")
  /\ workerFrame

\* Mutant: the preemption flag is left set.
terminate_pending_goal_keeping_flag(w) ==
  /\ at(w, "preempting")
  /\ IF is_active(pending_handle)
     THEN /\ status' = terminate(status, pending_handle)
          /\ pending_handle' = terminated(status, pending_handle)
          /\ UNCHANGED <<current_handle, preempt_requested>>
     ELSE UNCHANGED goalVars
  /\ goto(w, "running")
  /\ workerFrame

\* The navigators refuse a goal that asks for another behavior tree.
terminate_pending_goal(w) ==
  /\ at(w, "preempting")
  /\ IF is_active(pending_handle)
     THEN /\ status' = terminate(status, pending_handle)
          /\ pending_handle' = terminated(status, pending_handle)
          /\ preempt_requested' = FALSE
          /\ UNCHANGED current_handle
     ELSE UNCHANGED goalVars
  /\ goto(w, "running")
  /\ workerFrame

\* The behaviors cannot be preempted: they end their goal and return.
refuse_preempt(w) ==
  /\ at(w, "preempting")
  /\ status' = terminate(status, current_handle)
  /\ current_handle' = terminated(status, current_handle)
  /\ goto(w, "returned")
  /\ workerFrame /\ UNCHANGED <<pending_handle, preempt_requested>>

\* A cancel is handled in two critical sections; the navigators treat an
\* inactive server like a cancel.
see_cancel(w) ==
  /\ at(w, "running")
  /\ is_cancel_requested \/ ~server_active
  /\ goto(w, "canceling")
  /\ workerFrame /\ UNCHANGED goalVars

cancel_all(w) ==
  /\ at(w, "canceling")
  /\ terminate_all
  /\ goto(w, "returned")
  /\ workerFrame

terminate_current(w) ==
  /\ at(w, "running")
  /\ is_active(current_handle)
  /\ status' = terminate(status, current_handle)
  /\ current_handle' = terminated(status, current_handle)
  /\ workerFrame /\ UNCHANGED <<pending_handle, preempt_requested, worker>>

succeeded_current(w) ==
  /\ at(w, "running")
  /\ is_active(current_handle)
  /\ status' = [status EXCEPT ![current_handle] = "succeeded"]
  /\ current_handle' = NoGoal
  /\ workerFrame /\ UNCHANGED <<pending_handle, preempt_requested, worker>>

callback_ends(w) ==
  /\ at(w, "running")
  /\ goto(w, "returned") \/ goto(w, "caught")
  /\ workerFrame /\ UNCHANGED goalVars

work(w) ==
  \/ work_loop(w) \/ work_after(w) \/ work_catch(w) \/ work_return(w)
  \/ get_current_goal(w) \/ see_preempt(w) \/ accept_pending_goal(w)
  \/ terminate_pending_goal(w) \/ refuse_preempt(w)
  \/ see_cancel(w) \/ cancel_all(w) \/ terminate_current(w)
  \/ succeeded_current(w) \/ callback_ends(w)

-----------------------------------------------------------------------------
(* The lifecycle thread.                                                   *)

activate ==
  /\ lifecycle = "idle"
  /\ ~server_active
  /\ server_active' = TRUE
  /\ stop_execution' = FALSE
  /\ UNCHANGED <<goalVars, execution_future, worker, executor, lifecycle>>

deactivate ==
  /\ lifecycle = "idle"
  /\ server_active
  /\ server_active' = FALSE
  /\ stop_execution' = TRUE
  /\ lifecycle' = "stopping"
  /\ UNCHANGED <<goalVars, execution_future, worker, executor>>

\* deactivate() looks at execution_future_ without update_mutex_ and returns
\* when there is none, or once the worker is done.
deactivated ==
  /\ lifecycle # "idle"
  /\ ~is_running
  /\ lifecycle' = "idle"
  /\ UNCHANGED <<goalVars, flagVars, execution_future, worker, executor>>

\* server_timeout_ has passed: every further round ends the goals while the
\* callback still runs.
deactivate_overdue ==
  /\ lifecycle # "idle"
  /\ is_running
  /\ terminate_all
  /\ lifecycle' = "overdue"
  /\ UNCHANGED <<flagVars, execution_future, worker, executor>>

-----------------------------------------------------------------------------
executorStep ==
  \/ \E g \in Goal : handle_goal(g) \/ handle_cancel(g)
  \/ handle_accepted \/ cancel_goal

lifecycleStep == activate \/ deactivate \/ deactivated \/ deactivate_overdue

Next == executorStep \/ lifecycleStep \/ \E w \in Worker : work(w)

\* Threads are scheduled and a callback that keeps running ends: the task
\* servers return once their goal is reached, failed, canceled or stopped.
Fairness ==
  /\ WF_vars(handle_accepted) /\ WF_vars(cancel_goal) /\ WF_vars(deactivated)
  /\ \A w \in Worker :
       /\ WF_vars(work(w))
       /\ WF_vars(callback_ends(w))

Spec == Init /\ [][Next]_vars
FairSpec == Spec /\ Fairness

-----------------------------------------------------------------------------
(* Properties.                                                             *)

Request == [op : {"idle", "accepted", "cancel"}, goal : Goal \cup {NoGoal}]

TypeOK ==
  /\ status \in [Goal -> Protocol!Status]
  /\ current_handle \in Goal \cup {NoGoal}
  /\ pending_handle \in Goal \cup {NoGoal}
  /\ preempt_requested \in BOOLEAN
  /\ server_active \in BOOLEAN
  /\ stop_execution \in BOOLEAN
  /\ execution_future \in Worker \cup {NoWorker}
  /\ worker \in [Worker -> WorkerState]
  /\ executor \in Request
  /\ lifecycle \in {"idle", "stopping", "overdue"}

\* The goal handed to handle_accepted but not stored yet.
Incoming == executor.op = "accepted"

\* Between critical sections the slots are coherent: a handle that is stored
\* is live, the two slots never hold the same goal, the preemption flag is set
\* exactly when a live goal waits, and a goal on its way to handle_accepted is
\* live and in neither slot.  The task servers rely on it: they test the flag
\* and then use the pending goal.
SlotsCoherent ==
  /\ TypeOK
  /\ executor.op = "idle" <=> executor.goal = NoGoal
  /\ current_handle # NoGoal => is_active(current_handle)
  /\ pending_handle # NoGoal => is_active(pending_handle)
  /\ preempt_requested <=> pending_handle # NoGoal
  /\ current_handle = pending_handle => current_handle = NoGoal
  /\ Incoming => /\ status[executor.goal] = "executing"
                 /\ executor.goal \notin {current_handle, pending_handle}

\* Every goal the server accepted and has not ended is in a slot or about to
\* be stored: none is dropped without a result, whichever of replacement,
\* preemption, cancel, exception and deactivation happen to it.
NoOrphanedGoal ==
  \A g \in Goal :
    status[g] \in ActiveStatus =>
      \/ g = current_handle
      \/ g = pending_handle
      \/ Incoming /\ executor.goal = g

\* A worker thread that has not returned is the one execution_future_ tracks.
\* So at most one thread runs the task server's callback, and deactivate()
\* never returns while one does.
FutureTracksWorker ==
  \A w \in Worker : worker[w] # "none" => execution_future = w

\* A callback that has just been entered finds a current goal, and one that has
\* seen a preemption request finds a pending goal, although another critical
\* section lies between the test and the use; the task servers dereference
\* both without looking.  Only the deadline of deactivate() takes them away.
CallbackHasGoal ==
  lifecycle # "overdue" =>
    \A w \in Worker :
      /\ worker[w] = "entered" => is_active(current_handle)
      /\ worker[w] = "preempting" => is_active(pending_handle)

\* Every status change the server makes is one the goal state machine of
\* rclcpp_action allows.
ImplementsProtocol == Protocol!Spec

\* A goal held while the callback runs, or while work() deals with its end,
\* gets a result, unless the server is told to stop.
Working(w) == worker[w] \in InCallback \cup {"returned", "caught"}

HeldGoalsFinish ==
  \A g \in Goal :
    (g \in {current_handle, pending_handle} /\ \E w \in Worker : Working(w))
      ~> (status[g] \in FinalStatus \/ stop_execution)

\* The comment in handle_accepted: "Shouldn't reach a state with a pending goal
\* but no current one."  At that point no worker runs either; the server need
\* not even have been deactivated.
NoPendingWithoutCurrent ==
  server_active /\ is_active(pending_handle) =>
    is_active(current_handle) \/ is_running

\* test_simple_action_activation_cycling: a goal that runs when the server is
\* deactivated "should be reported as aborted".  So once deactivate() has
\* returned and no thread is left, no goal is still active.
DeactivationEndsGoals ==
  lifecycle = "idle" /\ ~server_active /\ ~is_running =>
    ~is_active(current_handle) /\ ~is_active(pending_handle)

=============================================================================
