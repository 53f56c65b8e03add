-------------------------- MODULE TaskServerProofs --------------------------
(***************************************************************************)
(* Proofs about the action server and the task servers.  The safety        *)
(* properties of SimpleActionServer hold for any number of goals and       *)
(* worker threads, and every step of it is a step of the goal state        *)
(* machine (GoalProtocol).  Each task server uses its action server as     *)
(* SimpleActionServer allows any callback to, so what is proved of the     *)
(* action server holds of each.  The controller server and the behaviors   *)
(* never leave the robot moving, and the waypoint follower counts a        *)
(* waypoint only if its own goal has reached it.                           *)
(***************************************************************************)
EXTENDS MCTaskServers, TLAPS

-----------------------------------------------------------------------------
(* The action server.                                                      *)

USE NullsAssumption

Handle == Goal \cup {NoGoal}
Statuses == [Goal -> Protocol!Status]

-----------------------------------------------------------------------------
(* What terminate() and terminate_all() do.                                *)

\* terminate() changes no other goal's status and leaves the handle's goal
\* inactive; it empties the slot exactly when it ended a live goal.
LEMMA Terminate ==
  ASSUME NEW st \in Statuses, NEW h \in Handle
  PROVE  /\ terminate(st, h) \in Statuses
         /\ \A g \in Goal : g # h => terminate(st, h)[g] = st[g]
         /\ h # NoGoal => terminate(st, h)[h] \notin ActiveStatus
         /\ h # NoGoal /\ st[h] \in ActiveStatus => terminated(st, h) = NoGoal
         /\ h = NoGoal => terminated(st, h) = NoGoal /\ terminate(st, h) = st
  BY DEF terminate, terminated, Handle, Statuses, Protocol!Status, ActiveStatus,
         Protocol!ActiveStatus, Protocol!FinalStatus

\* terminate_all() empties both slots, ends their goals and touches no other.
LEMMA TerminateAll ==
  ASSUME SlotsCoherent, terminate_all
  PROVE  /\ status' \in Statuses
         /\ current_handle' = NoGoal /\ pending_handle' = NoGoal
         /\ ~preempt_requested'
         /\ \A g \in Goal \ {current_handle, pending_handle} : status'[g] = status[g]
         /\ \A g \in Goal \cap {current_handle, pending_handle} :
              status'[g] \notin ActiveStatus
<1> DEFINE st == terminate(status, current_handle)
<1>1. status \in Statuses /\ current_handle \in Handle /\ pending_handle \in Handle
  BY DEF SlotsCoherent, TypeOK, Statuses, Handle
<1>2. /\ st \in Statuses
      /\ \A g \in Goal : g # current_handle => st[g] = status[g]
      /\ current_handle # NoGoal => st[current_handle] \notin ActiveStatus
      /\ terminated(status, current_handle) = NoGoal
  BY <1>1, Terminate DEF SlotsCoherent, is_active
<1>3. pending_handle # NoGoal => st[pending_handle] \in ActiveStatus
  BY <1>1, <1>2 DEF SlotsCoherent, is_active, Handle
<1>4. /\ terminate(st, pending_handle) \in Statuses
      /\ \A g \in Goal : g # pending_handle => terminate(st, pending_handle)[g] = st[g]
      /\ pending_handle # NoGoal =>
           terminate(st, pending_handle)[pending_handle] \notin ActiveStatus
      /\ terminated(st, pending_handle) = NoGoal
  BY <1>1, <1>2, <1>3, Terminate
<1>5. /\ status' = terminate(st, pending_handle)
      /\ current_handle' = terminated(status, current_handle)
      /\ pending_handle' = terminated(st, pending_handle)
      /\ preempt_requested' = FALSE
  BY DEF terminate_all
<1> QED
  BY <1>1, <1>2, <1>4, <1>5 DEF Handle

-----------------------------------------------------------------------------
(* The slots stay coherent.                                                *)

LEMMA SlotsInit == Init => SlotsCoherent
<1> SUFFICES ASSUME Init PROVE SlotsCoherent
  OBVIOUS
<1>1. executor \in Request /\ executor.op = "idle" /\ executor.goal = NoGoal
  BY DEF Init, Request, Idle
<1>2. TypeOK
  BY <1>1 DEF Init, TypeOK, Protocol!Status, WorkerState
<1>3. preempt_requested <=> pending_handle # NoGoal
  BY DEF Init
<1> QED
  BY <1>1, <1>2, <1>3 DEF Init, SlotsCoherent, Incoming

\* A step that calls terminate_all() and otherwise moves only its own thread
\* keeps the slots coherent.
LEMMA SlotsTerminateAll ==
  ASSUME SlotsCoherent, terminate_all,
         UNCHANGED <<flagVars, execution_future, executor>>,
         worker' \in [Worker -> WorkerState],
         lifecycle' \in {"idle", "stopping", "overdue"}
  PROVE  SlotsCoherent'
<1>1. /\ status' \in Statuses
      /\ current_handle' = NoGoal /\ pending_handle' = NoGoal
      /\ ~preempt_requested'
      /\ \A g \in Goal \ {current_handle, pending_handle} : status'[g] = status[g]
  BY TerminateAll
<1>2. preempt_requested' \in BOOLEAN
  BY DEF terminate_all
<1>3. TypeOK'
  BY <1>1, <1>2
     DEF SlotsCoherent, TypeOK, flagVars, Statuses, Request, WorkerState, InCallback,
         Protocol!Status, Protocol!ActiveStatus, Protocol!FinalStatus
<1>4. executor.op = "accepted" => executor.goal \in Goal
  BY DEF SlotsCoherent, TypeOK, Request
<1> QED
  BY <1>1, <1>3, <1>4 DEF SlotsCoherent, Incoming, is_active

\* The executor thread keeps the slots coherent.
LEMMA SlotsExecutor == SlotsCoherent /\ executorStep => SlotsCoherent'
<1> SUFFICES ASSUME SlotsCoherent, executorStep PROVE SlotsCoherent'
  OBVIOUS
<1> USE DEF SlotsCoherent, TypeOK, Request, Idle, Incoming, is_active,
            ActiveStatus, Protocol!Status, Protocol!ActiveStatus,
            Protocol!FinalStatus, goalVars, flagVars
<1>1. ASSUME NEW g \in Goal, handle_goal(g) PROVE SlotsCoherent'
  BY <1>1 DEF handle_goal
<1>2. ASSUME NEW g \in Goal, handle_cancel(g) PROVE SlotsCoherent'
  BY <1>2 DEF handle_cancel
<1>3. CASE handle_accepted
  <2> DEFINE g == executor.goal
  <2>1. /\ g \in Goal /\ executor' = Idle /\ status[g] = "executing"
        /\ g \notin {current_handle, pending_handle}
        /\ UNCHANGED <<flagVars, lifecycle>>
    BY <1>3 DEF handle_accepted
  <2>2. CASE park(g)
    BY <2>1, <2>2 DEF park, terminate
  <2>3. CASE start(g)
    <3>1. worker' \in [Worker -> WorkerState] /\ execution_future' \in Worker
      BY <2>3 DEF start, WorkerState
    <3>2. QED
      BY <2>1, <2>3, <3>1 DEF start, terminate, terminated
  <2>4. QED
    BY <1>3, <2>2, <2>3 DEF handle_accepted
<1>4. CASE cancel_goal
  BY <1>4 DEF cancel_goal
<1>5. QED
  BY <1>1, <1>2, <1>3, <1>4 DEF executorStep

\* The lifecycle thread keeps the slots coherent.
LEMMA SlotsLifecycle == SlotsCoherent /\ lifecycleStep => SlotsCoherent'
<1> SUFFICES ASSUME SlotsCoherent, lifecycleStep PROVE SlotsCoherent'
  OBVIOUS
<1> USE DEF SlotsCoherent, TypeOK, Request, Incoming, is_active, ActiveStatus,
            Protocol!Status, Protocol!ActiveStatus, Protocol!FinalStatus,
            WorkerState, InCallback, goalVars, flagVars
<1>1. CASE activate
  BY <1>1 DEF activate
<1>2. CASE deactivate
  BY <1>2 DEF deactivate
<1>3. CASE deactivated
  BY <1>3 DEF deactivated
<1>4. CASE deactivate_overdue
  <2>1. /\ terminate_all /\ lifecycle' \in {"idle", "stopping", "overdue"}
        /\ UNCHANGED <<flagVars, execution_future, executor>>
        /\ worker' \in [Worker -> WorkerState]
    BY <1>4 DEF deactivate_overdue
  <2>2. QED
    BY <2>1, SlotsTerminateAll
<1>5. QED
  BY <1>1, <1>2, <1>3, <1>4 DEF lifecycleStep

\* A worker thread keeps the slots coherent.
LEMMA SlotsWorker ==
  ASSUME SlotsCoherent, NEW w \in Worker, work(w)
  PROVE  SlotsCoherent'
<1> USE DEF SlotsCoherent, TypeOK, Request, Incoming, is_active, ActiveStatus,
            Protocol!Status, Protocol!ActiveStatus, Protocol!FinalStatus,
            WorkerState, InCallback, goalVars, flagVars, workerFrame, at, goto
<1> DEFINE Typed == worker' \in [Worker -> WorkerState]
<1>1. CASE work_loop(w) \/ work_return(w) \/ get_current_goal(w) \/ see_preempt(w)
           \/ see_cancel(w) \/ callback_ends(w)
  <2>1. UNCHANGED <<goalVars, flagVars, execution_future, executor, lifecycle>>
    BY <1>1 DEF work_loop, work_return, get_current_goal, see_preempt, see_cancel,
                callback_ends
  <2>2. Typed
    BY <1>1 DEF work_loop, work_return, get_current_goal, see_preempt, see_cancel,
                callback_ends
  <2>3. QED
    BY <2>1, <2>2
<1>2. CASE work_catch(w) \/ cancel_all(w)
  <2>1. terminate_all /\ UNCHANGED <<flagVars, execution_future, executor, lifecycle>>
    BY <1>2 DEF work_catch, cancel_all
  <2>2. Typed
    BY <1>2 DEF work_catch, cancel_all
  <2>3. QED
    BY <2>1, <2>2, SlotsTerminateAll
<1>3. CASE work_after(w)
  <2> DEFINE st == terminate(status, current_handle)
  <2>1. UNCHANGED <<flagVars, execution_future, executor, lifecycle>>
    BY <1>3 DEF work_after
  <2>2. Typed
    BY <1>3 DEF work_after
  <2>3. /\ st \in Statuses
        /\ \A g \in Goal : g # current_handle => st[g] = status[g]
        /\ terminated(status, current_handle) = NoGoal
    BY Terminate DEF Statuses, Handle
  <2>4. CASE terminate_all
    BY <2>1, <2>2, <2>4, SlotsTerminateAll
  <2>5. CASE accept_pending(st, NoGoal) /\ pending_handle # NoGoal
    BY <2>1, <2>2, <2>3, <2>5 DEF accept_pending, Statuses
  <2>6. CASE /\ status' = st /\ current_handle' = NoGoal
             /\ UNCHANGED <<pending_handle, preempt_requested>>
    BY <2>1, <2>2, <2>3, <2>6 DEF Statuses
  <2>7. QED
    BY <1>3, <2>3, <2>4, <2>5, <2>6 DEF work_after
<1>4. CASE accept_pending_goal(w)
  <2>1. Typed
    BY <1>4 DEF accept_pending_goal
  <2>2. CASE UNCHANGED goalVars
    BY <1>4, <2>1, <2>2 DEF accept_pending_goal
  <2>3. CASE is_active(pending_handle) /\ accept_pending(status, current_handle)
    BY <1>4, <2>1, <2>3 DEF accept_pending_goal, accept_pending
  <2>4. QED
    BY <1>4, <2>2, <2>3 DEF accept_pending_goal
<1>5. CASE terminate_pending_goal(w)
  <2>1. Typed
    BY <1>5 DEF terminate_pending_goal
  <2>2. CASE UNCHANGED goalVars
    BY <1>5, <2>1, <2>2 DEF terminate_pending_goal
  <2>3. CASE /\ is_active(pending_handle)
             /\ status' = terminate(status, pending_handle)
             /\ pending_handle' = terminated(status, pending_handle)
             /\ preempt_requested' = FALSE
             /\ UNCHANGED current_handle
    <3>1. /\ status' \in Statuses /\ pending_handle' = NoGoal
          /\ \A g \in Goal : g # pending_handle => status'[g] = status[g]
      BY <2>3, Terminate DEF Handle, Statuses
    <3>2. QED
      BY <1>5, <2>1, <2>3, <3>1 DEF terminate_pending_goal, Statuses
  <2>4. QED
    BY <1>5, <2>2, <2>3 DEF terminate_pending_goal
<1>6. CASE refuse_preempt(w) \/ terminate_current(w)
  <2>1. Typed
    BY <1>6 DEF refuse_preempt, terminate_current
  <2>2. QED
    BY <1>6, <2>1, Terminate
       DEF refuse_preempt, terminate_current, Handle, Statuses
<1>7. CASE succeeded_current(w)
  BY <1>7 DEF succeeded_current
<1>8. QED
  BY <1>1, <1>2, <1>3, <1>4, <1>5, <1>6, <1>7 DEF work

LEMMA SlotsStep == SlotsCoherent /\ [Next]_vars => SlotsCoherent'
<1>1. SlotsCoherent /\ UNCHANGED vars => SlotsCoherent'
  BY DEF SlotsCoherent, TypeOK, Request, Incoming, is_active, ActiveStatus,
         Protocol!Status, Protocol!ActiveStatus, Protocol!FinalStatus, WorkerState,
         InCallback, vars, goalVars, flagVars
<1>2. QED
  BY <1>1, SlotsExecutor, SlotsLifecycle, SlotsWorker DEF Next

-----------------------------------------------------------------------------
(* No goal is orphaned.                                                    *)

LEMMA OrphanStep == SlotsCoherent /\ NoOrphanedGoal /\ [Next]_vars => NoOrphanedGoal'
<1> SUFFICES ASSUME SlotsCoherent, NoOrphanedGoal, [Next]_vars PROVE NoOrphanedGoal'
  OBVIOUS
<1>0. status \in Statuses /\ current_handle \in Handle /\ pending_handle \in Handle
  BY DEF SlotsCoherent, TypeOK, Statuses, Handle
<1> USE DEF NoOrphanedGoal, Incoming, Idle
<1>1. ASSUME NEW g \in Goal, handle_goal(g) PROVE NoOrphanedGoal'
  BY <1>0, <1>1
     DEF handle_goal, Statuses, ActiveStatus, Protocol!ActiveStatus
<1>2. ASSUME NEW g \in Goal, handle_cancel(g) PROVE NoOrphanedGoal'
  BY <1>2 DEF handle_cancel, goalVars, ActiveStatus, Protocol!ActiveStatus
<1>3. CASE handle_accepted
  <2>1. /\ \A g \in Goal : g # pending_handle => status'[g] = status[g]
        /\ pending_handle # NoGoal => status'[pending_handle] \notin ActiveStatus
    BY <1>0, <1>3, Terminate DEF handle_accepted, park, start
  <2>2. \/ pending_handle' = executor.goal /\ current_handle' = current_handle
        \/ current_handle' = executor.goal /\ ~is_active(current_handle)
    BY <1>3 DEF handle_accepted, park, start
  <2>3. QED
    BY <1>0, <2>1, <2>2
       DEF SlotsCoherent, is_active, Handle, ActiveStatus, Protocol!ActiveStatus
<1>4. CASE cancel_goal
  BY <1>0, <1>4 DEF cancel_goal, Statuses, ActiveStatus, Protocol!ActiveStatus
<1>5. CASE terminate_all /\ UNCHANGED executor
  BY <1>5, TerminateAll DEF ActiveStatus, Protocol!ActiveStatus
<1>6. CASE UNCHANGED <<goalVars, executor>>
  BY <1>6 DEF goalVars, ActiveStatus, Protocol!ActiveStatus
<1>7. ASSUME NEW w \in Worker, work_after(w) PROVE NoOrphanedGoal'
  <2> DEFINE st == terminate(status, current_handle)
  <2>1. /\ \A g \in Goal : g # current_handle => st[g] = status[g]
        /\ current_handle # NoGoal => st[current_handle] \notin ActiveStatus
        /\ terminated(status, current_handle) = NoGoal
    BY <1>0, Terminate DEF SlotsCoherent, is_active
  <2>2. CASE terminate_all
    BY <1>5, <1>7, <2>2 DEF work_after, workerFrame
  <2>3. CASE status' = st /\ \/ current_handle' = pending_handle
                             \/ UNCHANGED pending_handle
    <3>1. UNCHANGED executor
      BY <1>7 DEF work_after, workerFrame
    <3>2. QED
      BY <1>0, <2>1, <2>3, <3>1 DEF Handle, ActiveStatus, Protocol!ActiveStatus
  <2>4. QED
    BY <1>7, <2>1, <2>2, <2>3 DEF work_after, accept_pending
<1>8. ASSUME NEW w \in Worker, accept_pending_goal(w) PROVE NoOrphanedGoal'
  BY <1>0, <1>8
     DEF accept_pending_goal, accept_pending, workerFrame, goalVars, Statuses, Handle,
         ActiveStatus, Protocol!ActiveStatus
<1>9. ASSUME NEW w \in Worker, terminate_pending_goal(w) PROVE NoOrphanedGoal'
  <2>1. CASE UNCHANGED goalVars
    BY <1>6, <1>9, <2>1 DEF terminate_pending_goal, workerFrame
  <2>2. CASE /\ status' = terminate(status, pending_handle)
             /\ UNCHANGED <<current_handle, executor>>
    <3>1. /\ \A g \in Goal : g # pending_handle => status'[g] = status[g]
          /\ pending_handle # NoGoal => status'[pending_handle] \notin ActiveStatus
      BY <1>0, <2>2, Terminate
    <3>2. QED
      BY <1>0, <2>2, <3>1 DEF Handle, ActiveStatus, Protocol!ActiveStatus
  <2>3. QED
    BY <1>9, <2>1, <2>2 DEF terminate_pending_goal, workerFrame
<1>10. ASSUME NEW w \in Worker, refuse_preempt(w) \/ terminate_current(w)
       PROVE  NoOrphanedGoal'
  <2>1. /\ status' = terminate(status, current_handle)
        /\ UNCHANGED <<pending_handle, executor>>
    BY <1>10 DEF refuse_preempt, terminate_current, workerFrame
  <2>2. /\ \A g \in Goal : g # current_handle => status'[g] = status[g]
        /\ current_handle # NoGoal => status'[current_handle] \notin ActiveStatus
    BY <1>0, <2>1, Terminate
  <2>3. QED
    BY <1>0, <2>1, <2>2 DEF Handle, ActiveStatus, Protocol!ActiveStatus
<1>11. ASSUME NEW w \in Worker, succeeded_current(w) PROVE NoOrphanedGoal'
  BY <1>0, <1>11
     DEF succeeded_current, workerFrame, is_active, Statuses, Handle, ActiveStatus,
         Protocol!ActiveStatus
<1>12. CASE lifecycleStep
  BY <1>5, <1>6, <1>12
     DEF lifecycleStep, activate, deactivate, deactivated, deactivate_overdue
<1>13. ASSUME NEW w \in Worker, work(w) PROVE NoOrphanedGoal'
  BY <1>5, <1>6, <1>7, <1>8, <1>9, <1>10, <1>11, <1>13
     DEF work, work_loop, work_catch, work_return, get_current_goal, see_preempt,
         see_cancel, cancel_all, callback_ends, workerFrame
<1>14. CASE executorStep
  BY <1>1, <1>2, <1>3, <1>4, <1>14 DEF executorStep
<1>15. CASE UNCHANGED vars
  BY <1>6, <1>15 DEF vars
<1> QED
  BY <1>12, <1>13, <1>14, <1>15 DEF Next

-----------------------------------------------------------------------------
(* At most one thread is in work(), and it finds the goals it needs.       *)

LEMMA FutureStep ==
  SlotsCoherent /\ FutureTracksWorker /\ [Next]_vars => FutureTracksWorker'
<1> SUFFICES ASSUME SlotsCoherent, FutureTracksWorker, [Next]_vars
             PROVE  FutureTracksWorker'
  OBVIOUS
<1>0. /\ worker \in [Worker -> WorkerState]
      /\ execution_future \in Worker \cup {NoWorker}
  BY DEF SlotsCoherent, TypeOK
<1> USE DEF FutureTracksWorker
<1>1. CASE UNCHANGED <<execution_future, worker>>
  BY <1>1
<1>2. CASE handle_accepted
  <2>1. CASE park(executor.goal)
    BY <1>1, <2>1 DEF park
  <2>2. CASE start(executor.goal) /\ ~is_running
    BY <1>0, <2>2 DEF start, is_running
  <2>3. QED
    BY <1>2, <2>1, <2>2 DEF handle_accepted
<1>3. ASSUME NEW w \in Worker, work(w) PROVE FutureTracksWorker'
  <2>1. /\ worker[w] # "none" /\ UNCHANGED execution_future
        /\ UNCHANGED worker \/ \E place \in WorkerState : goto(w, place)
    BY <1>3
       DEF work, work_loop, work_after, work_catch, work_return, get_current_goal,
           see_preempt, accept_pending_goal, terminate_pending_goal, refuse_preempt,
           see_cancel, cancel_all, terminate_current, succeeded_current,
           callback_ends, workerFrame, at, WorkerState, InCallback
  <2>2. QED
    BY <1>0, <2>1 DEF goto
<1>4. CASE lifecycleStep
  BY <1>1, <1>4
     DEF lifecycleStep, activate, deactivate, deactivated, deactivate_overdue
<1>5. CASE executorStep
  BY <1>1, <1>2, <1>5 DEF executorStep, handle_goal, handle_cancel, cancel_goal
<1>6. CASE UNCHANGED vars
  BY <1>1, <1>6 DEF vars
<1> QED
  BY <1>3, <1>4, <1>5, <1>6 DEF Next

LEMMA CallbackStep ==
  SlotsCoherent /\ FutureTracksWorker /\ CallbackHasGoal /\ [Next]_vars
    => CallbackHasGoal'
<1> SUFFICES ASSUME SlotsCoherent, FutureTracksWorker, CallbackHasGoal, [Next]_vars
             PROVE  CallbackHasGoal'
  OBVIOUS
<1>0. /\ status \in Statuses /\ current_handle \in Handle /\ pending_handle \in Handle
      /\ worker \in [Worker -> WorkerState] /\ execution_future \in Worker \cup {NoWorker}
  BY DEF SlotsCoherent, TypeOK, Statuses, Handle
<1> USE DEF CallbackHasGoal, is_active, ActiveStatus, Protocol!ActiveStatus
<1>1. CASE UNCHANGED <<goalVars, worker>> /\ lifecycle' \in {"stopping", lifecycle}
                                          /\ lifecycle # "overdue"
  BY <1>1 DEF goalVars
<1>2. CASE UNCHANGED <<goalVars, worker, lifecycle>>
  BY <1>2 DEF goalVars
<1>3. ASSUME NEW g \in Goal, handle_goal(g) PROVE CallbackHasGoal'
  BY <1>0, <1>3 DEF handle_goal, Statuses, Handle
<1>4. CASE handle_accepted
  <2>1. executor.goal \in Goal /\ status[executor.goal] = "executing"
        /\ executor.goal # pending_handle
    BY <1>4 DEF handle_accepted, SlotsCoherent, TypeOK, Request, Incoming
  <2>2. \A g \in Goal : g # pending_handle => status'[g] = status[g]
    BY <1>0, <1>4, Terminate DEF handle_accepted, park, start
  <2>3. CASE park(executor.goal)
    BY <1>0, <1>4, <2>1, <2>2, <2>3
       DEF handle_accepted, park, SlotsCoherent, Handle
  <2>4. CASE start(executor.goal) /\ ~is_running
    <3>1. \A w \in Worker : worker[w] = "none"
      BY <1>0, <2>4 DEF is_running, FutureTracksWorker
    <3>2. \A w \in Worker : worker'[w] \in {"none", "loop"}
      BY <1>0, <2>4, <3>1 DEF start
    <3>3. QED
      BY <3>2
  <2>5. QED
    BY <1>4, <2>3, <2>4 DEF handle_accepted
<1>5. CASE cancel_goal
  BY <1>0, <1>5 DEF cancel_goal, Statuses, Handle
<1>6. CASE deactivated
  <2>1. \A w \in Worker : worker'[w] = "none"
    BY <1>0, <1>6 DEF deactivated, is_running, FutureTracksWorker
  <2>2. QED
    BY <2>1
<1>7. CASE deactivate_overdue
  BY <1>7 DEF deactivate_overdue
<1>8. CASE lifecycleStep
  BY <1>1, <1>2, <1>6, <1>7, <1>8 DEF lifecycleStep, activate, deactivate
<1>9. ASSUME NEW w \in Worker, work(w) PROVE CallbackHasGoal'
  <2>1. /\ worker[w] # "none" /\ UNCHANGED lifecycle
        /\ \A v \in Worker \ {w} : worker[v] = "none" /\ worker'[v] = "none"
    <3>1. /\ worker[w] # "none" /\ UNCHANGED lifecycle
          /\ UNCHANGED worker \/ \E place \in WorkerState : goto(w, place)
      BY <1>9
         DEF work, work_loop, work_after, work_catch, work_return, get_current_goal,
             see_preempt, accept_pending_goal, terminate_pending_goal, refuse_preempt,
             see_cancel, cancel_all, terminate_current, succeeded_current,
             callback_ends, workerFrame, at, WorkerState, InCallback
    <3>2. \A v \in Worker \ {w} : worker[v] = "none"
      BY <3>1 DEF FutureTracksWorker
    <3>3. QED
      BY <1>0, <3>1, <3>2 DEF goto
  <2>2. CASE work_loop(w)
    BY <1>0, <2>1, <2>2 DEF work_loop, at, goto, goalVars
  <2>3. CASE see_preempt(w)
    BY <1>0, <2>1, <2>3 DEF see_preempt, at, goto, goalVars, SlotsCoherent
  <2>4. CASE worker'[w] \notin {"entered", "preempting"}
    BY <2>1, <2>4
  <2>5. QED
    BY <1>0, <1>9, <2>2, <2>3, <2>4
       DEF work, work_after, work_catch, work_return, get_current_goal,
           accept_pending_goal, terminate_pending_goal, refuse_preempt, see_cancel,
           cancel_all, terminate_current, succeeded_current, callback_ends, at, goto
<1>10. CASE executorStep
  BY <1>2, <1>3, <1>4, <1>5, <1>10 DEF executorStep, handle_cancel
<1>11. CASE UNCHANGED vars
  BY <1>2, <1>11 DEF vars
<1> QED
  BY <1>8, <1>9, <1>10, <1>11 DEF Next

-----------------------------------------------------------------------------
(* Every step is a step of the goal state machine.                         *)

\* A goal whose status changed from st to stp was live and got an outcome that
\* rclcpp_action allows.
Ended(st, stp) ==
  /\ stp \in Statuses
  /\ \A g \in Goal :
       stp[g] # st[g] =>
         st[g] \in Protocol!ActiveStatus /\ stp[g] \in Protocol!Outcome(st[g])

LEMMA TerminateEnds ==
  ASSUME NEW st \in Statuses, NEW h \in Handle
  PROVE  Ended(st, terminate(st, h))
  BY Terminate
     DEF Ended, terminate, Handle, Statuses, ActiveStatus, Protocol!ActiveStatus,
         Protocol!FinalStatus, Protocol!Outcome

\* Two calls on different goals end each of them once.
LEMMA TerminateBothEnds ==
  ASSUME NEW st \in Statuses, NEW h \in Handle, NEW k \in Handle,
         h = k => h = NoGoal
  PROVE  Ended(st, terminate(terminate(st, h), k))
<1> DEFINE s1 == terminate(st, h)
           s2 == terminate(s1, k)
<1>1. s1 \in Statuses /\ Ended(st, s1) /\ Ended(s1, s2) /\ s2 \in Statuses
  BY Terminate, TerminateEnds
<1>2. /\ \A g \in Goal : g # h => s1[g] = st[g]
      /\ \A g \in Goal : g # k => s2[g] = s1[g]
  BY <1>1, Terminate
<1> HIDE DEF s1, s2
<1>3. \A g \in Goal : s2[g] # st[g] => st[g] = s1[g] \/ s2[g] = s1[g]
  BY <1>2 DEF Handle
<1>4. Ended(st, s2)
  BY <1>1, <1>3 DEF Ended
<1> QED
  BY <1>4 DEF s1, s2

LEMMA ProtocolStep == SlotsCoherent /\ [Next]_vars => [Protocol!Next]_status
<1> SUFFICES ASSUME SlotsCoherent, [Next]_vars PROVE [Protocol!Next]_status
  OBVIOUS
<1>0. /\ status \in Statuses /\ current_handle \in Handle /\ pending_handle \in Handle
      /\ current_handle = pending_handle => current_handle = NoGoal
  BY DEF SlotsCoherent, TypeOK, Statuses, Handle
<1> USE DEF Protocol!Next
<1>1. CASE UNCHANGED status
  BY <1>1
<1>2. CASE Ended(status, status')
  BY <1>2 DEF Ended, Statuses, Protocol!Finish
<1>3. ASSUME NEW h \in Handle, status' = terminate(status, h)
      PROVE  Ended(status, status')
  BY <1>0, <1>3, TerminateEnds
<1>4. CASE terminate_all
  BY <1>0, <1>2, <1>4, TerminateBothEnds DEF terminate_all
<1>5. ASSUME NEW g \in Goal, handle_goal(g) PROVE Protocol!Next
  BY <1>5 DEF handle_goal, Protocol!Answer
<1>6. CASE handle_accepted
  BY <1>0, <1>2, <1>3, <1>6 DEF handle_accepted, park, start
<1>7. CASE cancel_goal
  <2>1. executor.goal \in Goal
    BY <1>7 DEF cancel_goal, SlotsCoherent, TypeOK, Request
  <2>2. QED
    BY <1>7, <2>1 DEF cancel_goal, Protocol!Cancel
<1>8. CASE executorStep
  BY <1>1, <1>5, <1>6, <1>7, <1>8 DEF executorStep, handle_cancel, goalVars
<1>9. CASE lifecycleStep
  BY <1>1, <1>4, <1>9
     DEF lifecycleStep, activate, deactivate, deactivated, deactivate_overdue, goalVars
<1>10. ASSUME NEW w \in Worker, work_after(w) PROVE [Protocol!Next]_status
  <2>1. terminated(status, current_handle) = NoGoal
    BY <1>0, Terminate DEF SlotsCoherent, is_active
  <2>2. terminate_all \/ status' = terminate(status, current_handle)
    BY <1>10, <2>1 DEF work_after, accept_pending
  <2>3. QED
    BY <1>0, <1>2, <1>3, <1>4, <2>2
<1>11. ASSUME NEW w \in Worker, accept_pending_goal(w) PROVE [Protocol!Next]_status
  <2>1. CASE UNCHANGED status
    BY <1>1, <2>1
  <2>2. CASE /\ is_active(current_handle)
             /\ status' = [status EXCEPT ![current_handle] = "aborted"]
    <3>1. Ended(status, status')
      BY <1>0, <2>2
         DEF Ended, is_active, Handle, Statuses, ActiveStatus, Protocol!Status,
             Protocol!ActiveStatus, Protocol!FinalStatus, Protocol!Outcome
    <3>2. QED
      BY <1>2, <3>1
  <2>3. QED
    BY <1>11, <2>1, <2>2 DEF accept_pending_goal, accept_pending, is_active, goalVars
<1>12. ASSUME NEW w \in Worker, succeeded_current(w) PROVE [Protocol!Next]_status
  <2>1. Ended(status, status')
    BY <1>0, <1>12
       DEF succeeded_current, Ended, is_active, Handle, Statuses, ActiveStatus,
           Protocol!Status, Protocol!ActiveStatus, Protocol!FinalStatus,
           Protocol!Outcome
  <2>2. QED
    BY <1>2, <2>1
<1>13. ASSUME NEW w \in Worker, work(w) PROVE [Protocol!Next]_status
  <2>1. CASE work_loop(w) \/ work_return(w) \/ get_current_goal(w) \/ see_preempt(w)
             \/ see_cancel(w) \/ callback_ends(w)
    BY <1>1, <2>1 DEF work_loop, work_return, get_current_goal, see_preempt,
                      see_cancel, callback_ends, goalVars
  <2>2. CASE work_catch(w) \/ cancel_all(w)
    BY <1>4, <2>2 DEF work_catch, cancel_all
  <2>3. CASE terminate_pending_goal(w) \/ refuse_preempt(w) \/ terminate_current(w)
    BY <1>0, <1>1, <1>2, <1>3, <2>3
       DEF terminate_pending_goal, refuse_preempt, terminate_current, goalVars
  <2>4. QED
    BY <1>10, <1>11, <1>12, <1>13, <2>1, <2>2, <2>3 DEF work
<1>14. CASE UNCHANGED vars
  BY <1>1, <1>14 DEF vars, goalVars
<1> QED
  BY <1>8, <1>9, <1>13, <1>14 DEF Next

-----------------------------------------------------------------------------
(* The theorems.                                                           *)

\* The variables have their types and the goal slots are coherent after every
\* critical section of the server: a stored handle is live, and the preemption
\* flag says exactly whether a goal waits.
THEOREM SlotsTheorem == Spec => []SlotsCoherent
  BY SlotsInit, SlotsStep, PTL DEF Spec

\* No accepted goal is ever dropped without a result, for any number of goals.
THEOREM OrphanTheorem == Spec => []NoOrphanedGoal
<1>1. Init => NoOrphanedGoal
  BY DEF Init, NoOrphanedGoal, ActiveStatus, Protocol!ActiveStatus
<1>2. QED
  BY <1>1, SlotsTheorem, OrphanStep, PTL DEF Spec

\* At most one worker thread exists, and it is the one execution_future_ tracks.
THEOREM FutureTheorem == Spec => []FutureTracksWorker
<1>1. Init => FutureTracksWorker
  BY DEF Init, FutureTracksWorker
<1>2. QED
  BY <1>1, SlotsTheorem, FutureStep, PTL DEF Spec

\* The callback finds the current and the pending goal it dereferences, unless
\* the deadline of deactivate() has passed.
THEOREM CallbackTheorem == Spec => []CallbackHasGoal
<1>1. Init => CallbackHasGoal
  BY DEF Init, CallbackHasGoal
<1>2. QED
  BY <1>1, SlotsTheorem, FutureTheorem, CallbackStep, PTL DEF Spec

\* The server implements the goal state machine promised to its clients: no
\* goal is ended twice, and none is canceled without an accepted cancel.
THEOREM ProtocolTheorem == Spec => ImplementsProtocol
<1>1. Init => Protocol!Init
  BY DEF Init, Protocol!Init
<1>2. QED
  BY <1>1, SlotsTheorem, ProtocolStep, PTL DEF Spec, ImplementsProtocol, Protocol!Spec

-----------------------------------------------------------------------------
(* Steps that the servers share.                                           *)

\* The end of a callback is a sequence of calls a worker may make.
LEMMA EndsStep ==
  ASSUME NEW w \in Worker, Ends(w)
  PROVE  [work(w)]_vars
<1>1. CASE Abort(w)   BY <1>1 DEF Abort, NoCall, work
<1>2. CASE Succeed(w) BY <1>2 DEF Succeed, NoCall, work
<1>3. CASE Return(w)  BY <1>3 DEF Return, work
<1> QED BY <1>1, <1>2, <1>3 DEF Ends

\* Outside the callback a worker does what work() does.
LEMMA OutsideStep ==
  ASSUME NEW w \in Worker, Worker_outside(w)
  PROVE  work(w)
  BY DEF Worker_outside, work

-----------------------------------------------------------------------------
(* Every step of a task server is a step of SimpleActionServer or none.    *)

LEMMA ControlStep ==
  ASSUME NEW w \in Worker, Control(w)
  PROVE  [work(w)]_vars
<1>1. CASE computeControl(w)
  BY <1>1 DEF computeControl, Crash, NoCall, work
<1>2. CASE computeControl_active(w) \/ computeControl_costmap(w)
  BY <1>2 DEF computeControl_active, computeControl_costmap, NoCall
<1>3. CASE computeControl_cancel(w)
  BY <1>3 DEF computeControl_cancel, NoCall, work
<1>4. CASE updateGlobalPath(w)
  BY <1>4 DEF updateGlobalPath, Crash, NoCall, work
<1>5. CASE updateGlobalPath_refused(w)
  BY <1>5 DEF updateGlobalPath_refused, NoCall, work
<1>6. CASE computeAndPublishVelocity(w) \/ isGoalReached(w) \/ computeControl_catch(w)
  BY <1>6 DEF computeAndPublishVelocity, isGoalReached, computeControl_catch, NoCall
<1>7. CASE Ends(w) \/ Worker_outside(w)
  BY <1>7, EndsStep, OutsideStep
<1> QED BY <1>1, <1>2, <1>3, <1>4, <1>5, <1>6, <1>7 DEF Control

LEMMA ControllerStep == ControllerNext => [Next]_vars
<1> SUFFICES ASSUME ControllerNext PROVE [Next]_vars
  OBVIOUS
<1>1. CASE Executor
  BY <1>1 DEF Executor, Next
<1>2. CASE ControllerServer_on_activate \/ ControllerServer_on_deactivate
  BY <1>2 DEF ControllerServer_on_activate, ControllerServer_on_deactivate,
              ControllerServer_on_deactivated, lifecycleStep, Next
<1>3. CASE computeControl_canceled
  BY <1>3 DEF computeControl_canceled, NoCall
<1>4. ASSUME NEW w \in Worker, Control(w) PROVE [Next]_vars
  BY <1>4, ControlStep DEF Next
<1> QED BY <1>1, <1>2, <1>3, <1>4 DEF ControllerNext

LEMMA PlanStep ==
  ASSUME NEW w \in Worker, Plan(w)
  PROVE  [work(w)]_vars
<1>1. CASE computePlan(w) \/ isServerInactive(w) \/ waitForCostmap(w)
  BY <1>1 DEF computePlan, isServerInactive, waitForCostmap, NoCall, work
<1>2. CASE isCancelRequested(w) \/ terminateAll(w)
  BY <1>2 DEF isCancelRequested, terminateAll, NoCall, work
<1>3. CASE getPreemptedGoalIfRequested(w)
  BY <1>3 DEF getPreemptedGoalIfRequested, NoCall, work
<1>4. CASE getStartPose(w) \/ getPlan(w)
  BY <1>4 DEF getStartPose, getPlan, Crash, NoCall, work
<1>5. CASE Ends(w) \/ Worker_outside(w)
  BY <1>5, EndsStep, OutsideStep
<1> QED BY <1>1, <1>2, <1>3, <1>4, <1>5 DEF Plan

LEMMA PlannerStep == PlannerNext => [Next]_vars
<1> SUFFICES ASSUME PlannerNext PROVE [Next]_vars
  OBVIOUS
<1>1. CASE Executor
  BY <1>1 DEF Executor, Next
<1>2. CASE PlannerServer_on_activate \/ PlannerServer_on_deactivate
  BY <1>2 DEF PlannerServer_on_activate, PlannerServer_on_deactivate, lifecycleStep, Next
<1>3. ASSUME NEW w \in Worker, Plan(w) PROVE [Next]_vars
  BY <1>3, PlanStep DEF Next
<1> QED BY <1>1, <1>2, <1>3 DEF PlannerNext

LEMMA SmootherStep == SmootherNext => [Next]_vars
<1> SUFFICES ASSUME SmootherNext PROVE [Next]_vars
  OBVIOUS
<1>1. CASE Executor
  BY <1>1 DEF Executor, Next
<1>2. CASE SmootherServer_on_activate \/ SmootherServer_on_deactivate
  BY <1>2 DEF SmootherServer_on_activate, SmootherServer_on_deactivate, lifecycleStep, Next
<1>3. ASSUME NEW w \in Worker, Smooth(w) PROVE [work(w)]_vars
  <2>1. CASE findSmootherId(w) \/ smoothPlan(w)
    BY <2>1 DEF findSmootherId, smoothPlan, Crash, NoCall, work
  <2> QED BY <2>1, <1>3, EndsStep, OutsideStep DEF Smooth
<1> QED BY <1>1, <1>2, <1>3 DEF SmootherNext, Next

LEMMA BehaviorStep == BehaviorNext => [Next]_vars
<1> SUFFICES ASSUME BehaviorNext PROVE [Next]_vars
  OBVIOUS
<1>1. CASE Executor
  BY <1>1 DEF Executor, Next
<1>2. CASE TimedBehavior_activate \/ TimedBehavior_deactivate \/ TimedBehavior_deactivated \/ deactivate_overdue
  BY <1>2 DEF TimedBehavior_activate, TimedBehavior_deactivate, TimedBehavior_deactivated,
              lifecycleStep, Next
<1>3. ASSUME NEW w \in Worker, Behavior(w) PROVE [work(w)]_vars
  <2>1. CASE execute(w)
    BY <2>1 DEF execute, Crash, NoCall, work
  <2>2. CASE execute_cancel(w) \/ execute_preempt(w)
    BY <2>2 DEF execute_cancel, execute_preempt, NoCall, work
  <2>3. CASE onCycleUpdate(w)
    BY <2>3 DEF onCycleUpdate, Spin_onCycleUpdate, DriveOnHeading_onCycleUpdate,
                AssistedTeleop_onCycleUpdate, Wait_onCycleUpdate, NoCall
  <2> QED BY <2>1, <2>2, <2>3, <1>3, EndsStep, OutsideStep DEF Behavior
<1> QED BY <1>1, <1>2, <1>3 DEF BehaviorNext, Next

LEMMA FollowerStep == FollowerNext => [Next]_vars
<1> SUFFICES ASSUME FollowerNext PROVE [Next]_vars
  OBVIOUS
<1>1. CASE Executor
  BY <1>1 DEF Executor, Next
<1>2. CASE WaypointFollower_on_activate \/ WaypointFollower_on_deactivate
  BY <1>2 DEF WaypointFollower_on_activate, WaypointFollower_on_deactivate, lifecycleStep, Next
<1>3. CASE navigate_to_pose
  BY <1>3 DEF navigate_to_pose
<1>4. ASSUME NEW w \in Worker, Follow(w) PROVE [work(w)]_vars
  <2>1. CASE followWaypointsHandler(w) \/ getLatestGoalPoses(w) \/ followWaypointsHandler_active(w)
    BY <2>1 DEF followWaypointsHandler, getLatestGoalPoses, followWaypointsHandler_active,
                Crash, NoCall, work
  <2>2. CASE followWaypointsHandler_cancel(w)
    BY <2>2 DEF followWaypointsHandler_cancel, NoCall, work
  <2>3. CASE followWaypointsHandler_preempt(w)
    BY <2>3 DEF followWaypointsHandler_preempt, NoCall, work
  <2>4. CASE followWaypointsHandler_send(w) \/ followWaypointsHandler_status(w)
    BY <2>4 DEF followWaypointsHandler_send, followWaypointsHandler_status, NoCall
  <2> QED BY <2>1, <2>2, <2>3, <2>4, <1>4, EndsStep, OutsideStep DEF Follow
<1>5. ASSUME NEW w \in Worker, spin_some(w) PROVE UNCHANGED vars
  BY <1>5 DEF spin_some, NoCall
<1> QED BY <1>1, <1>2, <1>3, <1>4, <1>5 DEF FollowerNext, Next

-----------------------------------------------------------------------------
(* Theorems.                                                               *)

\* The controller server implements SimpleActionServer, for any set of goals,
\* threads and controllers.
THEOREM ControllerImplements == ControllerSpec => ImplementsServer
<1>1. ControllerInit => Init
  BY DEF ControllerInit, TaskInit
<1>2. UNCHANGED controllerVars => UNCHANGED vars
  BY DEF controllerVars
<1> QED BY <1>1, <1>2, ControllerStep, PTL DEF ControllerSpec, ImplementsServer, Spec

\* So does the planner server, whatever the number of poses of its goals.
THEOREM PlannerImplements == PlannerSpec => ImplementsServer
<1>1. PlannerInit => Init
  BY DEF PlannerInit, TaskInit
<1>2. UNCHANGED plannerVars => UNCHANGED vars
  BY DEF plannerVars
<1> QED BY <1>1, <1>2, PlannerStep, PTL DEF PlannerSpec, ImplementsServer, Spec

\* So does the smoother server.
THEOREM SmootherImplements == SmootherSpec => ImplementsServer
<1>1. SmootherInit => Init
  BY DEF SmootherInit, TaskInit
<1>2. UNCHANGED smootherVars => UNCHANGED vars
  BY DEF smootherVars
<1> QED BY <1>1, <1>2, SmootherStep, PTL DEF SmootherSpec, ImplementsServer, Spec

\* So does every behavior of the behavior server.
THEOREM BehaviorImplements == BehaviorSpec => ImplementsServer
<1>1. BehaviorInit => Init
  BY DEF BehaviorInit, TaskInit
<1>2. UNCHANGED behaviorVars => UNCHANGED vars
  BY DEF behaviorVars
<1> QED BY <1>1, <1>2, BehaviorStep, PTL DEF BehaviorSpec, ImplementsServer, Spec

\* So does the waypoint follower, with any number of waypoints and of goals of
\* navigate_to_pose in flight.
THEOREM FollowerImplements == FollowerSpec => ImplementsServer
<1>1. FollowerInit => Init
  BY DEF FollowerInit, TaskInit
<1>2. UNCHANGED followerVars => UNCHANGED vars
  BY DEF followerVars
<1> QED BY <1>1, <1>2, FollowerStep, PTL DEF FollowerSpec, ImplementsServer, Spec

-----------------------------------------------------------------------------
(* The inductive invariant of the controller server.  pc says where the    *)
(* callback is, worker which thread runs it: the two agree.  A robot that  *)
(* moves is then in the middle of a callback, or a deactivation is under   *)
(* way that will stop it; and the controller in use has the current path.  *)

InLoop == {"loop", "cancel?", "costmap", "update", "compute", "reached"}

\* Where the robot may be moving in an active server.
InMotion == InLoop \cup {"refused", "failed", "cancel", "accept", "canceled", "crashed"}

PcWorker ==
  /\ pc \in InMotion \cup {"abort", "succeed", "return", "out"}
  /\ pc \in InLoop \cup {"refused", "failed", "abort", "succeed", "return"} =>
       \E w \in Worker : worker[w] = "running"
  /\ pc = "cancel" => \E w \in Worker : worker[w] = "canceling"
  /\ pc = "accept" => \E w \in Worker : worker[w] = "preempting"
  /\ pc = "canceled" => \E w \in Worker : worker[w] = "returned"

\* No callback runs in a server that is inactive and not being deactivated.
Inactive ==
  /\ ~server_active /\ ~stop_execution => ~Incoming /\ \A w \in Worker : worker[w] = "none"
  /\ ~server_active /\ lifecycle = "idle" => \A w \in Worker : worker[w] \notin InCallback

Commanded ==
  /\ cmd \in {"zero", "moving"} /\ publishing \in BOOLEAN
  /\ cmd = "moving" =>
       publishing /\ (pc \in InMotion \/ (pc \in {"out", "return"} /\ lifecycle # "idle"))

HasPath ==
  /\ plan \in [Controllers -> Goal \cup {NoGoal}]
  /\ pc \in InLoop /\ current_handle # NoGoal =>
       /\ current_controller \in Controllers
       /\ plan[current_controller] = current_handle
       /\ end_pose = current_handle

\* What is already known of the action server, in the states before a step.
Server == SlotsCoherent /\ FutureTracksWorker

LEMMA InactiveStep == Server /\ Inactive /\ [Next]_vars => Inactive'
<1> SUFFICES ASSUME Server, Inactive, [Next]_vars PROVE Inactive'
  OBVIOUS
<1>0. /\ worker \in [Worker -> WorkerState]
      /\ \A w \in Worker : worker[w] # "none" => execution_future = w
      /\ execution_future \in Worker \cup {NoWorker}
      /\ server_active \in BOOLEAN /\ stop_execution \in BOOLEAN
  BY DEF Server, SlotsCoherent, TypeOK, FutureTracksWorker
<1> USE <1>0 DEF Inactive, Incoming, flagVars, goalVars
<1>1. ASSUME NEW g \in Goal, handle_goal(g) \/ handle_cancel(g) PROVE Inactive'
  BY <1>1 DEF handle_goal, handle_cancel, Idle
<1>2. CASE handle_accepted
  BY <1>2 DEF handle_accepted, park, start, Idle, InCallback
<1>3. CASE cancel_goal
  BY <1>3 DEF cancel_goal, Idle
<1>4. CASE activate \/ deactivate \/ deactivate_overdue
  BY <1>4 DEF activate, deactivate, deactivate_overdue
<1>5. CASE deactivated
  <2>1. ~is_running => \A w \in Worker : worker[w] = "none"
    BY NullsAssumption DEF is_running
  <2> QED BY <1>5, <2>1 DEF deactivated, InCallback
<1>6. ASSUME NEW w \in Worker, work(w) PROVE Inactive'
  <2>1. worker[w] # "none" /\ UNCHANGED <<server_active, stop_execution, executor, lifecycle>>
    BY <1>6 DEF work, work_loop, work_after, work_catch, work_return, get_current_goal,
                see_preempt, accept_pending_goal, terminate_pending_goal, refuse_preempt, see_cancel,
                cancel_all, terminate_current, succeeded_current, callback_ends, at, workerFrame
  <2>2. worker' = worker \/ \E s \in WorkerState : worker' = [worker EXCEPT ![w] = s]
                               /\ (s \in InCallback => worker[w] \in InCallback \/ ~stop_execution)
    BY <1>6 DEF work, work_loop, work_after, work_catch, work_return, get_current_goal,
                see_preempt, accept_pending_goal, terminate_pending_goal, refuse_preempt, see_cancel,
                cancel_all, terminate_current, succeeded_current, callback_ends, at, goto,
                workerFrame, WorkerState, InCallback
  <2> QED BY <2>1, <2>2
<1>7. CASE UNCHANGED vars
  BY <1>7 DEF vars
<1> QED BY <1>1, <1>2, <1>3, <1>4, <1>5, <1>6, <1>7 DEF Next, executorStep, lifecycleStep

ControllerInv == PcWorker /\ Commanded /\ HasPath

\* Steps that leave the callback where it is.
LEMMA ControllerAround ==
  ASSUME Server, Inactive, ControllerInv,
         (Executor /\ NoControl) \/ ControllerServer_on_activate \/ ControllerServer_on_deactivate
  PROVE  ControllerInv'
<1>0. /\ worker \in [Worker -> WorkerState]
      /\ \A w \in Worker : worker[w] # "none" => execution_future = w
      /\ execution_future \in Worker \cup {NoWorker}
  BY DEF Server, SlotsCoherent, TypeOK, FutureTracksWorker
<1>1. ~is_running => \A w \in Worker : worker[w] = "none"
  BY <1>0, NullsAssumption DEF is_running
<1>2. CASE Executor /\ NoControl
  <2>1. UNCHANGED <<pc, cmd, publishing, lifecycle, plan, current_controller, end_pose>>
    BY <1>2 DEF Executor, taskVars, NoControl, controlVars, executorStep, handle_goal, handle_cancel,
                handle_accepted, cancel_goal
  <2>2. CASE worker' = worker /\ current_handle' = current_handle
    BY <2>1, <2>2 DEF ControllerInv, PcWorker, Commanded, HasPath
  <2>3. CASE ~(worker' = worker /\ current_handle' = current_handle)
    <3>1. ~is_running
      BY <1>2, <2>3 DEF Executor, executorStep, handle_goal, handle_cancel, handle_accepted,
                        cancel_goal, park, start, goalVars
    <3>2. pc \in {"out", "crashed"}
      BY <3>1, <1>1 DEF ControllerInv, PcWorker, InMotion, InLoop
    <3> QED BY <3>2, <2>1 DEF ControllerInv, PcWorker, Commanded, HasPath, InMotion, InLoop
  <2> QED BY <2>2, <2>3
<1>3. CASE ControllerServer_on_activate
  BY <1>3 DEF ControllerServer_on_activate, activate, NoControl, controlVars, goalVars,
              ControllerInv, PcWorker, Commanded, HasPath
<1>4. CASE ControllerServer_on_deactivate
  <2>1. CASE deactivate /\ UNCHANGED taskVars /\ NoControl
    BY <2>1 DEF deactivate, taskVars, NoControl, controlVars, goalVars,
                ControllerInv, PcWorker, Commanded, HasPath
  <2>2. CASE deactivate_overdue /\ UNCHANGED taskVars /\ NoControl
    <3>1. current_handle' = NoGoal
      BY <2>2, TerminateAll DEF deactivate_overdue, Server
    <3> QED BY <2>2, <3>1 DEF deactivate_overdue, taskVars, NoControl, controlVars,
                ControllerInv, PcWorker, Commanded, HasPath
  <2>3. CASE ControllerServer_on_deactivated
    <3>1. pc = "out"
      BY <2>3, <1>1 DEF ControllerServer_on_deactivated, deactivated, Alive, ControllerInv, PcWorker,
                        InMotion, InLoop
    <3> QED BY <2>3, <3>1 DEF ControllerServer_on_deactivated, deactivated, Publish, NoControl,
              controlVars, goalVars, ControllerInv, PcWorker, Commanded, HasPath, InMotion, InLoop
  <2> QED BY <1>4, <2>1, <2>2, <2>3 DEF ControllerServer_on_deactivate
<1> QED BY <1>2, <1>3, <1>4

\* What the lookups for a goal that becomes current leave behind.
LEMMA AdoptPath ==
  ASSUME NEW g \in Goal, NEW next, NEW refused, Adopt(g, next, refused),
         plan \in [Controllers -> Goal \cup {NoGoal}]
  PROVE  /\ plan' \in [Controllers -> Goal \cup {NoGoal}]
         /\ pc' \in {next, refused, "failed"}
         /\ pc' = next => \/ next \in {refused, "failed"}
                          \/ /\ current_controller' \in Controllers
                             /\ plan'[current_controller'] = g /\ end_pose' = g
         /\ UNCHANGED <<cmd, publishing>>
  BY DEF Adopt, setPlannerPath, Goto, NoMotion

\* Steps of the callback.
LEMMA ControllerWorker ==
  ASSUME Server, Inactive, ControllerInv, NEW w \in Worker, Control(w)
  PROVE  ControllerInv'
<1>0. /\ worker \in [Worker -> WorkerState]
      /\ current_handle \in Goal \cup {NoGoal} /\ pending_handle \in Goal \cup {NoGoal}
      /\ \A v \in Worker : worker[v] # "none" => execution_future = v
  BY DEF Server, SlotsCoherent, TypeOK, FutureTracksWorker
<1>00. \A v \in Worker : worker[w] # "none" /\ worker[v] # "none" => v = w
  BY <1>0
<1> USE <1>0 DEF ControllerInv, PcWorker, Commanded, HasPath, InMotion, InLoop, Goto, at, goto
<1>1. CASE computeControl(w)
  <2>1. CASE Crash(w) /\ NoControl
    BY <2>1 DEF Crash, NoCall, NoMotion, NoControl, controlVars, vars, goalVars
  <2>2. CASE is_active(current_handle) /\ get_current_goal(w) /\ Adopt(current_handle, "loop", "failed")
    <3>1. current_handle \in Goal /\ UNCHANGED <<current_handle, lifecycle>> /\ worker'[w] = "running"
      BY <2>2 DEF is_active, get_current_goal, goalVars, workerFrame
    <3>2. pc = "out"
      BY <1>1 DEF computeControl
    <3> QED BY <3>1, <3>2, <2>2, AdoptPath
  <2> QED BY <1>1, <2>1, <2>2 DEF computeControl
<1>2. CASE computeControl_active(w)
  BY <1>2 DEF computeControl_active, Running, NoCall, NoMotion, NoControl, controlVars, vars, goalVars,
              flagVars, Inactive, InCallback
<1>3. CASE computeControl_cancel(w)
  <2>1. CASE Running(w, "cancel?")
    BY <1>3, <2>1, <1>00 DEF computeControl_cancel, Running, see_cancel, NoCall, NoMotion, NoControl,
         controlVars, vars, goalVars, workerFrame
  <2>2. CASE at(w, "canceling") /\ pc = "cancel"
    <3>1. cancel_all(w) /\ pc' = "canceled" /\ NoMotion /\ NoControl
      BY <1>3, <2>2 DEF computeControl_cancel, Running
    <3> QED BY <2>2, <3>1 DEF cancel_all, NoMotion, NoControl, controlVars, workerFrame
  <2> QED BY <1>3, <2>1, <2>2 DEF computeControl_cancel
<1>4. CASE computeControl_costmap(w)
  BY <1>4 DEF computeControl_costmap, Running, NoCall, NoMotion, NoControl, controlVars, vars, goalVars
<1>5. CASE updateGlobalPath(w)
  <2>1. CASE Running(w, "update")
    BY <1>5, <2>1 DEF updateGlobalPath, Running, see_preempt, NoCall, NoMotion, NoControl,
         controlVars, vars, goalVars, workerFrame
  <2>2. CASE at(w, "preempting") /\ pc = "accept"
    <3>1. CASE Crash(w) /\ NoControl
      BY <3>1 DEF Crash, NoCall, NoMotion, NoControl, controlVars, vars, goalVars
    <3>2. CASE is_active(pending_handle) /\ accept_pending_goal(w) /\ Adopt(pending_handle, "compute", "refused")
      <4>1. pending_handle \in Goal /\ current_handle' = pending_handle /\ UNCHANGED lifecycle
            /\ worker'[w] = "running"
        BY <3>2 DEF is_active, accept_pending_goal, accept_pending, workerFrame
      <4> QED BY <4>1, <3>2, <2>2, AdoptPath
    <3> QED BY <1>5, <2>2, <3>1, <3>2 DEF updateGlobalPath, Running
  <2> QED BY <1>5, <2>1, <2>2 DEF updateGlobalPath
<1>6. CASE updateGlobalPath_refused(w)
  <2>1. current_handle' = NoGoal
    BY <1>6 DEF updateGlobalPath_refused, terminate_current, terminated, is_active, NoCall, vars, goalVars,
                Server, SlotsCoherent
  <2>2. UNCHANGED <<worker, lifecycle>>
    BY <1>6 DEF updateGlobalPath_refused, terminate_current, workerFrame, NoCall, vars
  <2> QED BY <1>6, <2>1, <2>2 DEF updateGlobalPath_refused, Running, NoMotion, NoControl, controlVars
<1>7. CASE computeAndPublishVelocity(w) \/ isGoalReached(w) \/ computeControl_catch(w)
  BY <1>7 DEF computeAndPublishVelocity, isGoalReached, computeControl_catch, Running, Publish, NoCall,
              NoControl, controlVars, vars, goalVars
<1>8. CASE Ends(w) /\ NoControl
  <2>1. CASE Abort(w) \/ Succeed(w)
    <3>1. UNCHANGED <<worker, lifecycle>>
      BY <2>1 DEF Abort, Succeed, terminate_current, succeeded_current, workerFrame, NoCall, vars
    <3> QED BY <2>1, <3>1, <1>8 DEF Abort, Succeed, Running, NoMotion, NoControl, controlVars
  <2>2. CASE Return(w)
    BY <2>2, <1>8 DEF Return, Running, callback_ends, workerFrame, NoMotion, NoControl, controlVars
  <2> QED BY <1>8, <2>1, <2>2 DEF Ends
<1>9. CASE Worker_outside(w) /\ NoControl
  BY <1>9 DEF Worker_outside, taskVars, NoControl, controlVars, work_loop, work_after, work_return, workerFrame
<1> QED BY <1>1, <1>2, <1>3, <1>4, <1>5, <1>6, <1>7, <1>8, <1>9 DEF Control

LEMMA ControllerCanceled ==
  ASSUME Server, Inactive, ControllerInv, computeControl_canceled
  PROVE  ControllerInv'
  BY DEF computeControl_canceled, Goto, Publish, NoCall, vars, goalVars, NoControl, controlVars,
         ControllerInv, PcWorker, Commanded, HasPath, InMotion, InLoop

LEMMA ControllerInvInit == ControllerInit => Inactive /\ ControllerInv
<1> SUFFICES ASSUME ControllerInit PROVE Inactive /\ ControllerInv
  OBVIOUS
<1>1. executor.op = "idle" /\ \A w \in Worker : worker[w] = "none"
  BY DEF ControllerInit, TaskInit, Init, Idle
<1>2. Inactive
  BY <1>1 DEF Inactive, Incoming, InCallback
<1>3. ControllerInv
  BY DEF ControllerInit, TaskInit, Init, ControllerInv, PcWorker, Commanded, HasPath, InMotion, InLoop
<1> QED BY <1>2, <1>3

\* A step of the controller server keeps the invariant.
LEMMA ControllerInvStep ==
  Server /\ Inactive /\ ControllerInv /\ [ControllerNext]_controllerVars => ControllerInv'
<1> SUFFICES ASSUME Server, Inactive, ControllerInv, [ControllerNext]_controllerVars
             PROVE  ControllerInv'
  OBVIOUS
<1>1. CASE ControllerNext
  BY <1>1, ControllerAround, ControllerCanceled, ControllerWorker DEF ControllerNext
<1>2. CASE UNCHANGED controllerVars
  BY <1>2 DEF controllerVars, vars, goalVars, taskVars, controlVars, ControllerInv, PcWorker,
              Commanded, HasPath
<1> QED BY <1>1, <1>2

\* The invariant holds in every reachable state.
LEMMA ControllerInvariant == ControllerSpec => [](Server /\ Inactive /\ ControllerInv)
<1>1. Server /\ Inactive /\ [ControllerNext]_controllerVars => Inactive'
  BY InactiveStep, ControllerStep DEF controllerVars
<1>2. ControllerSpec => []Server
  BY ControllerImplements, SlotsTheorem, FutureTheorem, PTL DEF ImplementsServer, Server
<1> QED BY <1>1, <1>2, ControllerInvInit, ControllerInvStep, PTL DEF ControllerSpec

\* A robot that no callback moves stands.
LEMMA ControllerInvStops == Server /\ Inactive /\ ControllerInv => RobotStops
  BY NullsAssumption DEF Server, SlotsCoherent, TypeOK, FutureTracksWorker, RobotStops, is_running,
         Alive, ControllerInv, PcWorker, Commanded, InMotion, InLoop

\* For any number of goals, threads and controllers: whenever no callback runs
\* and no transition is under way the last command sent was zero.
THEOREM RobotStopsTheorem == ControllerSpec => []RobotStops
  BY ControllerInvStops, ControllerInvariant, PTL

\* Likewise a velocity computed while a goal is live is for the path of that
\* goal, through any sequence of preemptions and changes of the controller.
THEOREM FollowsTheorem == ControllerSpec => []FollowsItsGoal
<1>1. Server /\ Inactive /\ ControllerInv => FollowsItsGoal
  BY DEF FollowsItsGoal, is_active, ControllerInv, HasPath, InLoop
<1> QED BY <1>1, ControllerInvariant, PTL

-----------------------------------------------------------------------------
(* The inductive invariant of a behavior.  The publisher may be off while  *)
(* the robot moves, but then a deactivation has excused it; otherwise a    *)
(* robot that moves is in the cycle of a behavior that runs.               *)

BehaviorCycle == {"loop", "preempt?", "cycle"}

BehaviorPlaces ==
  /\ pc \in BehaviorCycle \cup {"out", "cancel", "refuse", "abort", "succeed", "return", "crashed"}
  /\ pc \in BehaviorCycle \cup {"abort", "succeed", "return"} =>
       \E w \in Worker : worker[w] = "running"
  /\ pc = "cancel" => \E w \in Worker : worker[w] = "canceling"
  /\ pc = "refuse" => \E w \in Worker : worker[w] = "preempting"

BehaviorCommands ==
  /\ cmd \in {"zero", "moving"}
  /\ cmd = "moving" => plugin # "Wait"
  /\ cmd = "moving" /\ ~excused => publishing /\ pc \in BehaviorCycle \cup {"crashed"}

BehaviorInv == BehaviorPlaces /\ BehaviorCommands

\* A callback that has not returned keeps is_running true.
LEMMA NotRunning ==
  ASSUME Server
  PROVE  ~is_running => \A w \in Worker : worker[w] = "none"
  BY NullsAssumption DEF Server, SlotsCoherent, TypeOK, FutureTracksWorker, is_running

\* The executor leaves the worker alone, or starts one while none runs.
LEMMA ExecutorWorker ==
  ASSUME Server, Executor
  PROVE  /\ UNCHANGED taskVars
         /\ worker' = worker \/ \A w \in Worker : worker[w] = "none"
<1>1. worker' = worker \/ ~is_running
  BY DEF Executor, executorStep, handle_goal, handle_cancel, handle_accepted, cancel_goal, park, start
<1> QED BY <1>1, NotRunning DEF Executor

\* Steps that leave the behavior's callback where it is.
LEMMA BehaviorAround ==
  ASSUME Server, BehaviorInv,
         \/ Executor /\ Same
         \/ TimedBehavior_activate \/ TimedBehavior_deactivate \/ TimedBehavior_deactivated
         \/ Alive /\ deactivate_overdue /\ UNCHANGED taskVars /\ Same,
         UNCHANGED plugin
  PROVE  BehaviorInv'
<1> USE DEF BehaviorInv, BehaviorPlaces, BehaviorCommands, BehaviorCycle
<1>1. CASE Executor /\ Same
  BY <1>1, ExecutorWorker DEF taskVars, Same
<1>2. CASE TimedBehavior_activate
  BY <1>2 DEF TimedBehavior_activate, activate
<1>3. CASE TimedBehavior_deactivate
  <2>1. pc \in BehaviorCycle => is_running
    BY NotRunning
  <2> QED BY <1>3, <2>1 DEF TimedBehavior_deactivate, deactivate, Alive
<1>4. CASE TimedBehavior_deactivated
  BY <1>4 DEF TimedBehavior_deactivated, deactivated, taskVars
<1>5. CASE deactivate_overdue /\ UNCHANGED taskVars /\ Same
  BY <1>5 DEF deactivate_overdue, taskVars, Same
<1> QED BY <1>1, <1>2, <1>3, <1>4, <1>5

\* What a command does to the robot and to the history.
LEMMA SendEffect ==
  ASSUME NEW v \in {"zero", "moving"}, Send(v), BehaviorCommands
  PROVE  /\ cmd' \in {"zero", "moving"} /\ UNCHANGED publishing
         /\ cmd' = "moving" => plugin # "Wait" \/ v = "moving"
         /\ cmd' = "moving" /\ ~excused' => publishing /\ v = "moving"
  BY DEF Send, Publish, BehaviorCommands

\* Steps of the behavior's callback.
LEMMA BehaviorWorker ==
  ASSUME Server, BehaviorInv, UNCHANGED plugin, NEW w \in Worker, Behavior(w)
  PROVE  BehaviorInv'
<1>0. worker \in [Worker -> WorkerState]
  BY DEF Server, SlotsCoherent, TypeOK
<1> USE <1>0 DEF BehaviorInv, BehaviorPlaces, BehaviorCycle, Goto, at, goto
<1>1. CASE execute(w)
  BY <1>1 DEF execute, Crash, onRun, Same, NoCall, NoMotion, vars, get_current_goal, BehaviorCommands
<1>2. CASE execute_cancel(w)
  <2>1. CASE see_cancel(w) /\ Goto("cancel") /\ Send("zero")
    BY <2>1, SendEffect DEF see_cancel, BehaviorCommands
  <2>2. CASE Running(w, "loop") /\ NoCall /\ Goto("preempt?") /\ NoMotion /\ Same
    BY <2>2 DEF NoCall, vars, NoMotion, Same, BehaviorCommands, Running
  <2>3. CASE pc = "cancel" /\ cancel_all(w) /\ Goto("out") /\ NoMotion /\ Same
    BY <2>3 DEF NoMotion, Same, BehaviorCommands
  <2> QED BY <1>2, <2>1, <2>2, <2>3 DEF execute_cancel
<1>3. CASE execute_preempt(w)
  <2>1. CASE see_preempt(w) /\ Goto("refuse") /\ Send("zero")
    BY <2>1, SendEffect DEF see_preempt, BehaviorCommands
  <2>2. CASE Running(w, "preempt?") /\ NoCall /\ Goto("cycle") /\ NoMotion /\ Same
    BY <2>2 DEF NoCall, vars, NoMotion, Same, BehaviorCommands, Running
  <2>3. CASE pc = "refuse" /\ refuse_preempt(w) /\ Goto("out") /\ NoMotion /\ Same
    BY <2>3 DEF NoMotion, Same, BehaviorCommands
  <2> QED BY <1>3, <2>1, <2>2, <2>3 DEF execute_preempt
<1>4. CASE onCycleUpdate(w)
  <2>1. NoCall /\ Running(w, "cycle")
    BY <1>4 DEF onCycleUpdate, Spin_onCycleUpdate, DriveOnHeading_onCycleUpdate,
                AssistedTeleop_onCycleUpdate, Wait_onCycleUpdate
  <2>2. pc' \in {"loop", "abort", "succeed"}
    BY <1>4 DEF onCycleUpdate, Spin_onCycleUpdate, DriveOnHeading_onCycleUpdate,
                AssistedTeleop_onCycleUpdate, Wait_onCycleUpdate, cycle_stops, cycle_lost
  <2>3. BehaviorPlaces'
    BY <2>1, <2>2 DEF NoCall, vars, Running
  <2>4. \/ cycle_stops \/ cycle_lost
        \/ plugin # "Wait" /\ \E v \in {"zero", "moving"} : Send(v) /\ Goto("loop")
        \/ plugin = "Wait" /\ NoMotion /\ Same /\ (Goto("loop") \/ Goto("succeed"))
    BY <1>4 DEF onCycleUpdate, Spin_onCycleUpdate, DriveOnHeading_onCycleUpdate,
                AssistedTeleop_onCycleUpdate, Wait_onCycleUpdate
  <2>5. CASE cycle_stops
    BY <2>3, <2>5, SendEffect DEF cycle_stops, BehaviorCommands
  <2>6. CASE cycle_lost
    BY <2>3, <2>6 DEF cycle_lost, NoMotion, BehaviorCommands
  <2>7. ASSUME plugin # "Wait", NEW v \in {"zero", "moving"}, Send(v), Goto("loop") PROVE BehaviorInv'
    BY <2>3, <2>7, SendEffect DEF BehaviorCommands
  <2>8. CASE plugin = "Wait" /\ NoMotion /\ Same /\ (Goto("loop") \/ Goto("succeed"))
    BY <2>3, <2>8 DEF NoMotion, Same, BehaviorCommands
  <2> QED BY <2>4, <2>5, <2>6, <2>7, <2>8
<1>5. CASE Ends(w) /\ Same
  <2>1. CASE Abort(w) \/ Succeed(w)
    BY <2>1, <1>5 DEF Abort, Succeed, terminate_current, succeeded_current, NoCall, vars, Running,
                      NoMotion, Same, BehaviorCommands
  <2>2. CASE Return(w)
    BY <2>2, <1>5 DEF Return, Running, NoMotion, Same, BehaviorCommands
  <2> QED BY <1>5, <2>1, <2>2 DEF Ends
<1>6. CASE Worker_outside(w) /\ Same
  BY <1>6 DEF Worker_outside, taskVars, Same, BehaviorCommands
<1> QED BY <1>1, <1>2, <1>3, <1>4, <1>5, <1>6 DEF Behavior

\* A step of a behavior keeps its invariant.
LEMMA BehaviorInvStep == Server /\ BehaviorInv /\ [BehaviorNext]_behaviorVars => BehaviorInv'
<1> SUFFICES ASSUME Server, BehaviorInv, [BehaviorNext]_behaviorVars PROVE BehaviorInv'
  OBVIOUS
<1>1. CASE BehaviorNext
  BY <1>1, BehaviorAround, BehaviorWorker DEF BehaviorNext
<1>2. CASE UNCHANGED behaviorVars
  BY <1>2 DEF behaviorVars, vars, taskVars, BehaviorInv, BehaviorPlaces, BehaviorCommands
<1> QED BY <1>1, <1>2

LEMMA BehaviorInvInit == BehaviorInit => BehaviorInv
  BY DEF BehaviorInit, TaskInit, Init, BehaviorInv, BehaviorPlaces, BehaviorCommands, BehaviorCycle

LEMMA BehaviorInvStops == Server /\ BehaviorInv => BehaviorStops
  BY NotRunning DEF BehaviorInv, BehaviorPlaces, BehaviorCommands, BehaviorCycle, BehaviorStops, Alive

\* For any number of goals and threads, and every kind of behavior: whenever none runs, the
\* last command sent was zero, or the pose or the publisher was missing when it should have been.
THEOREM BehaviorStopsTheorem == BehaviorSpec => []BehaviorStops
<1>1. BehaviorSpec => []Server
  BY BehaviorImplements, SlotsTheorem, FutureTheorem, PTL DEF ImplementsServer, Server
<1> QED BY <1>1, BehaviorInvInit, BehaviorInvStep, BehaviorInvStops, PTL DEF BehaviorSpec

-----------------------------------------------------------------------------
(* The waypoint follower.  A status that says SUCCEEDED stays true of the  *)
(* goal it was taken from until the next one is sent; and between two      *)
(* waypoints the ones dealt with are those from the first one up to        *)
(* goal_index, or, once the loop has started again, all but those in       *)
(* between.                                                                *)

OwnResult ==
  /\ nav \in [NavGoal -> Nav!Status]
  /\ goal_status = "SUCCEEDED" => future_goal_handle \in NavGoal /\ nav[future_goal_handle] = "succeeded"

\* Where the handler goes through the waypoints.
AmongWaypoints == {"loop", "spin", "preempt?", "waypoint"}

\* V holds the waypoints before g, of N: from the first one on, or, in a later loop, with
\* those that the first loop went through.
Behind(V, g, N) ==
  \E i \in 0..(N - 1) : \/ i <= g /\ V = i..(g - 1)
                        \/ V = (0..(g - 1)) \cup (i..(N - 1))

AllOf(V, N) == \E i \in 0..(N - 1) : V = i..(N - 1) \/ V = 0..(N - 1)

Progress ==
  /\ poses \in Nat
  /\ pc = "active?" /\ poses # 0 => goal_index \in 0..(poses - 1) /\ Behind(visited, goal_index, poses)
  /\ pc \in AmongWaypoints => goal_index \in 0..(poses - 1) /\ Behind(visited, goal_index, poses)
  /\ pc = "succeed" => AllOf(visited, poses)

\* Every step leaves the client's variables alone, or is one of four.
LEMMA ClientStep ==
  ASSUME [FollowerNext]_followerVars
  PROVE  \/ NoClient
         \/ navigate_to_pose
         \/ \E w \in Worker : followWaypointsHandler_send(w) \/ spin_some(w)
         \/ /\ nav' = [n \in NavGoal |-> IF nav[n] = "executing" THEN "canceling" ELSE nav[n]]
            /\ UNCHANGED <<known, future_goal_handle, goal_status>>
<1>1. CASE UNCHANGED followerVars
  BY <1>1 DEF followerVars, NoClient
<1>2. ASSUME NEW w \in Worker, Follow(w)
      PROVE  \/ NoClient \/ followWaypointsHandler_send(w)
             \/ /\ nav' = [n \in NavGoal |-> IF nav[n] = "executing" THEN "canceling" ELSE nav[n]]
                /\ UNCHANGED <<known, future_goal_handle, goal_status>>
  BY <1>2 DEF Follow, followWaypointsHandler, getLatestGoalPoses, followWaypointsHandler_active,
              followWaypointsHandler_cancel, followWaypointsHandler_status
<1> QED BY <1>1, <1>2 DEF FollowerNext, WaypointFollower_on_activate, WaypointFollower_on_deactivate

LEMMA OwnResultStep == OwnResult /\ [FollowerNext]_followerVars => OwnResult'
<1> SUFFICES ASSUME OwnResult, [FollowerNext]_followerVars PROVE OwnResult'
  OBVIOUS
<1> USE DEF OwnResult, Nav!Status, Nav!ActiveStatus, Nav!FinalStatus
<1>1. CASE NoClient
  BY <1>1 DEF NoClient, clientVars
<1>2. CASE navigate_to_pose
  <2>1. UNCHANGED <<future_goal_handle, goal_status>>
    BY <1>2 DEF navigate_to_pose
  <2>2. ASSUME NEW n \in NavGoal, Nav!Answer(n) PROVE OwnResult'
    BY <2>1, <2>2 DEF Nav!Answer
  <2>3. CASE Nav!Finish
    BY <2>1, <2>3 DEF Nav!Finish
  <2> QED BY <1>2, <2>2, <2>3 DEF navigate_to_pose
<1>3. ASSUME NEW w \in Worker, followWaypointsHandler_send(w) PROVE OwnResult'
  BY <1>3 DEF followWaypointsHandler_send
<1>4. ASSUME NEW w \in Worker, spin_some(w) PROVE OwnResult'
  <2>1. UNCHANGED <<nav, future_goal_handle>>
    BY <1>4 DEF spin_some
  <2>2. ASSUME NEW n \in NavGoal, goalResponseCallback(n) PROVE OwnResult'
    BY <2>1, <2>2 DEF goalResponseCallback
  <2>3. ASSUME NEW n \in NavGoal, resultCallback(n) PROVE OwnResult'
    BY <2>1, <2>3 DEF resultCallback, isOldResult
  <2> QED BY <1>4, <2>2, <2>3 DEF spin_some
<1>5. CASE /\ nav' = [n \in NavGoal |-> IF nav[n] = "executing" THEN "canceling" ELSE nav[n]]
           /\ UNCHANGED <<known, future_goal_handle, goal_status>>
  BY <1>5
<1> QED BY <1>1, <1>2, <1>3, <1>4, <1>5, ClientStep

\* A waypoint has been dealt with: where that leaves the visited ones.
LEMMA NextWaypoint ==
  ASSUME NEW N \in Nat, NEW g \in 0..(N - 1), NEW V, Behind(V, g, N)
  PROVE  /\ g + 1 < N => g + 1 \in 0..(N - 1) /\ Behind(V \cup {g}, g + 1, N)
         /\ g + 1 >= N => AllOf(V \cup {g}, N) /\ 0 \in 0..(N - 1) /\ Behind(V \cup {g}, 0, N)
<1>1. PICK i \in 0..(N - 1) : \/ i <= g /\ V = i..(g - 1)
                              \/ V = (0..(g - 1)) \cup (i..(N - 1))
  BY DEF Behind
<1>2. (g + 1) - 1 = g /\ 0..(0 - 1) = {} /\ 0 \in 0..(N - 1)
  OBVIOUS
<1>3. CASE i <= g /\ V = i..(g - 1)
  <2>1. V \cup {g} = i..g
    BY <1>3
  <2>2. g + 1 >= N => g = N - 1
    OBVIOUS
  <2> QED BY <1>2, <1>3, <2>1, <2>2 DEF Behind, AllOf
<1>4. CASE V = (0..(g - 1)) \cup (i..(N - 1))
  <2>1. V \cup {g} = (0..g) \cup (i..(N - 1))
    BY <1>4
  <2>2. g + 1 >= N => V \cup {g} = 0..(N - 1)
    BY <2>1
  <2> QED BY <1>2, <1>4, <2>1, <2>2 DEF Behind, AllOf
<1> QED BY <1>1, <1>3, <1>4

\* At the start no waypoint has been dealt with.
LEMMA FirstWaypoint ==
  ASSUME NEW N \in Nat, NEW g \in 0..(N - 1)
  PROVE  Behind({}, g, N)
<1>1. g <= g /\ {} = g..(g - 1)
  OBVIOUS
<1> QED BY <1>1 DEF Behind

\* Steps of the handler itself.
LEMMA ProgressFollow ==
  ASSUME Progress, NEW w \in Worker, Follow(w)
  PROVE  Progress'
<1> USE DEF Progress, AmongWaypoints, Goto
<1>1. CASE followWaypointsHandler(w)
  BY <1>1 DEF followWaypointsHandler, NoHandler, handlerVars, Crash
<1>2. CASE getLatestGoalPoses(w)
  <2>1. CASE Crash(w) /\ NoHandler
    BY <2>1 DEF NoHandler, handlerVars, Crash
  <2>2. CASE ~(Crash(w) /\ NoHandler)
    <3>1. /\ poses' \in 0..MaxWaypoints
          /\ goal_index' \in IF pc = "poses" /\ poses' > 0 THEN 0..(poses' - 1) ELSE {0}
          /\ visited' = {}
          /\ pc' = IF pc = "poses" THEN "active?" ELSE IF poses' = 0 THEN "abort" ELSE "waypoint"
      BY <1>2, <2>2 DEF getLatestGoalPoses
    <3>2. poses' \in Nat /\ \A k \in Nat : k # 0 => k > 0 /\ 0 \in 0..(k - 1)
      BY <3>1
    <3>3. poses' # 0 => goal_index' \in 0..(poses' - 1)
      BY <3>1, <3>2
    <3>4. poses' # 0 => Behind(visited', goal_index', poses')
      BY <3>1, <3>2, <3>3, FirstWaypoint
    <3>5. pc' \in {"active?", "abort", "waypoint"} /\ (pc' = "waypoint" => poses' # 0)
      BY <3>1
    <3> QED BY <3>2, <3>3, <3>4, <3>5
  <2> QED BY <2>1, <2>2
<1>3. CASE followWaypointsHandler_active(w)
  <2>1. pc = "active?" /\ pc' \in {"return", "abort", "loop"} /\ (pc' = "loop" => poses # 0)
        /\ UNCHANGED handlerVars
    BY <1>3 DEF followWaypointsHandler_active, Running, NoHandler
  <2> QED BY <2>1 DEF handlerVars
<1>4. CASE followWaypointsHandler_cancel(w)
  <2>1. CASE NoHandler
    BY <1>4, <2>1 DEF followWaypointsHandler_cancel, NoHandler, handlerVars, Running
  <2>2. CASE HandlerReturns /\ pc' = "out"
    BY <2>2 DEF HandlerReturns
  <2> QED BY <1>4, <2>1, <2>2 DEF followWaypointsHandler_cancel
<1>5. CASE followWaypointsHandler_preempt(w) /\ NoHandler
  BY <1>5 DEF followWaypointsHandler_preempt, NoHandler, handlerVars, Running
<1>6. CASE followWaypointsHandler_send(w)
  BY <1>6 DEF followWaypointsHandler_send, Running
<1>7. CASE followWaypointsHandler_status(w)
  <2>1. CASE NoHandler /\ pc' \in {"spin", "abort"}
    BY <1>7, <2>1 DEF followWaypointsHandler_status, NoHandler, handlerVars, Running
  <2>2. CASE nextWaypoint
    <3>1. pc = "waypoint"
      BY <1>7 DEF followWaypointsHandler_status, Running
    <3>2. poses \in Nat /\ goal_index \in 0..(poses - 1) /\ Behind(visited, goal_index, poses)
      BY <3>1
    <3>3. /\ goal_index + 1 < poses =>
               goal_index + 1 \in 0..(poses - 1) /\ Behind(visited \cup {goal_index}, goal_index + 1, poses)
          /\ goal_index + 1 >= poses =>
               /\ AllOf(visited \cup {goal_index}, poses)
               /\ 0 \in 0..(poses - 1) /\ Behind(visited \cup {goal_index}, 0, poses)
      BY <3>2, NextWaypoint
    <3>4. visited' = visited \cup {goal_index} /\ poses' = poses
      BY <2>2 DEF nextWaypoint
    <3>5. \/ goal_index + 1 < poses /\ goal_index' = goal_index + 1 /\ pc' = "spin"
          \/ goal_index + 1 >= poses /\ (pc' = "succeed" \/ (pc' = "spin" /\ goal_index' = 0))
      BY <2>2, <3>2 DEF nextWaypoint, lastWaypoint
    <3> QED BY <3>2, <3>3, <3>4, <3>5
  <2> QED BY <1>7, <2>1, <2>2 DEF followWaypointsHandler_status
<1>8. CASE Ends(w) /\ HandlerReturns
  BY <1>8 DEF Ends, Abort, Succeed, Return, HandlerReturns
<1>9. CASE Worker_outside(w) /\ NoHandler
  BY <1>9 DEF Worker_outside, taskVars, NoHandler, handlerVars
<1> QED BY <1>1, <1>2, <1>3, <1>4, <1>5, <1>6, <1>7, <1>8, <1>9 DEF Follow

LEMMA ProgressStep == Progress /\ [FollowerNext]_followerVars => Progress'
<1> SUFFICES ASSUME Progress, [FollowerNext]_followerVars PROVE Progress'
  OBVIOUS
<1>1. ASSUME UNCHANGED <<pc, handlerVars>> PROVE Progress'
  BY <1>1 DEF Progress, handlerVars
<1>2. ASSUME NEW w \in Worker, spin_some(w) PROVE Progress'
  BY <1>2 DEF spin_some, goalResponseCallback, resultCallback, NoHandler, handlerVars, Progress,
              AmongWaypoints, Goto
<1>3. CASE UNCHANGED followerVars
  BY <1>1, <1>3 DEF followerVars, taskVars
<1>4. CASE (Executor /\ NoHandler) \/ WaypointFollower_on_activate \/ WaypointFollower_on_deactivate
  BY <1>1, <1>4 DEF Executor, WaypointFollower_on_activate, WaypointFollower_on_deactivate, taskVars, NoHandler
<1>5. CASE navigate_to_pose
  BY <1>1, <1>5 DEF navigate_to_pose, taskVars
<1> QED BY <1>2, <1>3, <1>4, <1>5, ProgressFollow DEF FollowerNext

\* Whatever the number of goals in flight and in whatever order their results arrive: a
\* waypoint counts as reached only by the navigation that was started for it.
THEOREM ReachedTheorem == FollowerSpec => []ReachedIsItsOwn
<1>1. FollowerInit => OwnResult
  BY DEF FollowerInit, Nav!Init, OwnResult, Nav!Status
<1>2. OwnResult => ReachedIsItsOwn
  BY DEF OwnResult, ReachedIsItsOwn
<1> QED BY <1>1, <1>2, OwnResultStep, PTL DEF FollowerSpec

\* For requests of any length, through loops, failures and preempting requests: goal_index
\* stays among the poses, and a request that is reported as done left out no waypoint.
THEOREM VisitedTheorem == FollowerSpec => []AllWaypointsVisited
<1>1. FollowerInit => Progress
  BY DEF FollowerInit, TaskInit, Progress, AmongWaypoints
<1>2. Progress => AllWaypointsVisited
  BY DEF Progress, AllOf, AllWaypointsVisited, AmongWaypoints
<1> QED BY <1>1, <1>2, ProgressStep, PTL DEF FollowerSpec

-----------------------------------------------------------------------------
(* The task servers together, one of them at a time.                       *)

\* Each server, whichever it is, takes steps of SimpleActionServer.
LEMMA AnyServerStep == [MCNext]_all => [Next]_vars
  BY ControllerStep, PlannerStep, SmootherStep, BehaviorStep, FollowerStep DEF MCNext, all

\* Whichever server it is, what is proved of SimpleActionServer holds of it.
THEOREM ServersImplement == MCSpec => ImplementsServer
<1>1. MCInit => Init
  BY DEF MCInit, ControllerInit, TaskInit
<1> QED BY <1>1, AnyServerStep, PTL DEF MCSpec, ImplementsServer, Spec

ServersInv ==
  /\ server = "controller" => ControllerInv
  /\ server = "behavior" => BehaviorInv

\* No task server leaves the robot moving, with any number of goals, threads and controllers:
\* whenever no callback runs the last command was zero, unless a behavior was without its pose
\* or its publisher.
THEOREM StandingTheorem == MCSpec => []LeavesRobotStanding
<1>1. MCInit => Inactive /\ ServersInv
  BY ControllerInvInit, BehaviorInvInit DEF MCInit, ServersInv
<1>2. MCSpec => []Server
  BY ServersImplement, SlotsTheorem, FutureTheorem, PTL DEF ImplementsServer, Server
<1>3. Server /\ Inactive /\ [MCNext]_all => Inactive'
  BY AnyServerStep, InactiveStep
<1>4. Server /\ Inactive /\ ServersInv /\ [MCNext]_all => ServersInv'
  <2> SUFFICES ASSUME Server, Inactive, ServersInv, [MCNext]_all PROVE ServersInv'
    OBVIOUS
  <2>1. UNCHANGED server
    BY DEF MCNext, Rest, all
  <2>2. CASE server = "controller"
    <3>1. [ControllerNext]_controllerVars
      BY <2>2 DEF MCNext, all, controllerVars
    <3> QED BY <2>1, <2>2, <3>1, ControllerInvStep DEF ServersInv
  <2>3. CASE server = "behavior"
    <3>1. [BehaviorNext]_behaviorVars
      BY <2>3 DEF MCNext, all, behaviorVars, behaviorOnly
    <3> QED BY <2>1, <2>3, <3>1, BehaviorInvStep DEF ServersInv
  <2> QED BY <2>1, <2>2, <2>3 DEF ServersInv
<1>5. Server /\ Inactive /\ ServersInv => LeavesRobotStanding
  BY ControllerInvStops, BehaviorInvStops DEF ServersInv, LeavesRobotStanding
<1> QED BY <1>1, <1>2, <1>3, <1>4, <1>5, PTL DEF MCSpec

=============================================================================
