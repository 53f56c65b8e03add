------------------------------ MODULE BtProofs ------------------------------
(***************************************************************************)
(* Theorems about the navigators (BtNavigator), for any number of          *)
(* navigators and goals, and about the action nodes of their behavior      *)
(* trees (BtActionNode), for any number of goals.                          *)
(***************************************************************************)
EXTENDS BtNavigator, BtActionNode, TLAPS

-----------------------------------------------------------------------------
(* The navigators.                                                         *)

Slot == Goal \cup {NoGoal}

Place == {"none", "work", "received", "receiving", "starting", "condition", "loop", "preempting",
          "completing", "reporting", "returned"}

Types ==
  /\ status \in [Goal -> Protocol!Status]
  /\ current \in [Navigator -> Slot]
  /\ pending \in [Navigator -> Slot]
  /\ incoming \in [Navigator -> Slot]
  /\ deactivating \in Navigator \cup {NoNavigator}

\* No goal is in two slots of a navigator.
Distinct(v) ==
  /\ current[v] # NoGoal => current[v] # pending[v] /\ current[v] # incoming[v]
  /\ pending[v] # NoGoal => pending[v] # incoming[v]

\* run() leaves its loop with a result.
TickInv ==
  /\ worker \in [Navigator -> Place]
  /\ tick \in [Navigator -> {"none", "running", "succeeded", "failed", "canceled"}]
  /\ \A v \in Navigator :
       /\ worker[v] \in {"loop", "preempting"} => tick[v] \in {"running", "succeeded", "failed"}
       /\ worker[v] \in {"completing", "reporting"} => tick[v] \in {"succeeded", "failed", "canceled"}

\* Unless it has reported an overlap, the muxer knows who navigates.
MuxerInv == ~major_error => \A v \in Navigator : Navigating(v) => current_navigator = v

Inv == Types /\ TickInv /\ LiveGoalsAreHeld /\ (\A v \in Navigator : Distinct(v)) /\ MuxerInv

LEMMA Nulls == NoGoal \notin Goal /\ NoNavigator \notin Navigator /\ N \in Nat \ {0}
BY ConstantsAssumption DEF Goal, NoGoal, Navigator, NoNavigator

LEMMA InitInv == Init => Inv
<1> SUFFICES ASSUME Init PROVE Inv
  OBVIOUS
<1>1. Types
  <2>1. status \in [Goal -> Protocol!Status]
    BY DEF Init, Protocol!Status
  <2>2. NoGoal \in Slot
    BY DEF Slot
  <2>3. /\ current \in [Navigator -> Slot] /\ pending \in [Navigator -> Slot]
        /\ incoming \in [Navigator -> Slot]
    BY <2>2 DEF Init
  <2>4. deactivating \in Navigator \cup {NoNavigator}
    BY DEF Init
  <2> QED BY <2>1, <2>3, <2>4 DEF Types
<1>2. TickInv /\ MuxerInv
  BY DEF Init, TickInv, MuxerInv, Navigating, Place
<1>3. LiveGoalsAreHeld
  <2>1. \A v \in Navigator : Held(v) = {}
    BY DEF Init, Held
  <2>2. \A g \in Goal : ~is_active(g)
    BY DEF Init, is_active, Protocol!ActiveStatus
  <2> QED BY <2>1, <2>2 DEF LiveGoalsAreHeld
<1>4. \A v \in Navigator : Distinct(v)
  BY DEF Init, Distinct
<1> QED BY <1>1, <1>2, <1>3, <1>4 DEF Inv

-----------------------------------------------------------------------------
(* The goals that are held.                                                *)

\* A step of one navigator that ends the goals it lets go of, E, and no other.
LEMMA EndsInv ==
  ASSUME Types, LiveGoalsAreHeld, NEW v \in Navigator, NEW E \in SUBSET Held(v),
         \A u \in Navigator : u # v => Held(u)' = Held(u),
         Held(v)' = Held(v) \ E,
         \A g \in Goal : g \in E => status'[g] \notin Protocol!ActiveStatus,
         \A g \in Goal : g \notin E => status'[g] = status[g]
  PROVE  LiveGoalsAreHeld'
<1>1. ASSUME NEW g \in Goal PROVE is_active(g)' <=> \E u \in Navigator : g \in Held(u)'
  <2>1. CASE g \in E
    <3>1. ~is_active(g)'
      BY <2>1 DEF is_active
    <3>2. \A u \in Navigator : u # v => g \notin Held(u)
      BY <2>1 DEF LiveGoalsAreHeld
    <3> QED BY <2>1, <3>1, <3>2
  <2>2. CASE g \notin E
    <3>1. is_active(g)' <=> is_active(g)
      BY <2>2 DEF is_active
    <3>2. \A u \in Navigator : g \in Held(u)' <=> g \in Held(u)
      BY <2>2
    <3> QED BY <3>1, <3>2 DEF LiveGoalsAreHeld
  <2> QED BY <2>1, <2>2
<1>2. \A u, w \in Navigator : u # w => Held(u)' \cap Held(w)' = {}
  <2>1. \A u \in Navigator : Held(u)' \subseteq Held(u)
    OBVIOUS
  <2> QED BY <2>1 DEF LiveGoalsAreHeld
<1> QED BY <1>1, <1>2 DEF LiveGoalsAreHeld

LEMMA AbortedFacts ==
  ASSUME NEW st \in [Goal -> Protocol!Status], NEW g \in Slot
  PROVE  /\ Aborted(st, g) \in [Goal -> Protocol!Status]
         /\ \A h \in Goal : h # g => Aborted(st, g)[h] = st[h]
         /\ g # NoGoal => Aborted(st, g)[g] \notin Protocol!ActiveStatus
BY Nulls DEF Aborted, Slot, Protocol!Status, Protocol!ActiveStatus, Protocol!FinalStatus

\* What the calls on the action server have in common.
GoalsInv == Types /\ LiveGoalsAreHeld /\ \A v \in Navigator : Distinct(v)

LEMMA TerminateCurrent ==
  ASSUME GoalsInv, NEW v \in Navigator, UNCHANGED <<incoming, deactivating>>,
         terminate_current(v) \/ succeeded_current(v)
  PROVE  GoalsInv'
<1>0. /\ current[v] \in Slot /\ pending[v] \in Slot /\ incoming[v] \in Slot
      /\ current' = [current EXCEPT ![v] = NoGoal] /\ pending' = pending
  BY DEF GoalsInv, Types, terminate_current, succeeded_current
<1>1. /\ status' \in [Goal -> Protocol!Status]
      /\ \A h \in Goal : h # current[v] => status'[h] = status[h]
      /\ current[v] # NoGoal => status'[current[v]] \notin Protocol!ActiveStatus
  <2>1. CASE terminate_current(v)
    BY <1>0, <2>1, AbortedFacts DEF GoalsInv, Types, terminate_current
  <2>2. CASE succeeded_current(v)
    BY <1>0, <2>2, Nulls DEF GoalsInv, Types, succeeded_current, Slot, Protocol!Status,
      Protocol!ActiveStatus, Protocol!FinalStatus
  <2> QED BY <2>1, <2>2
<1>2. Types'
  BY <1>0, <1>1 DEF GoalsInv, Types, Slot
<1>3. \A u \in Navigator : Distinct(u)'
  BY <1>0 DEF GoalsInv, Types, Distinct
<1>4. \A u \in Navigator : u # v => Held(u)' = Held(u)
  BY <1>0 DEF GoalsInv, Types, Held
<1>5. Held(v)' = Held(v) \ ({current[v]} \ {NoGoal})
  BY <1>0 DEF GoalsInv, Types, Held, Distinct
<1>6. ({current[v]} \ {NoGoal}) \in SUBSET Held(v)
  BY DEF Held
<1>7. LiveGoalsAreHeld'
  BY <1>1, <1>4, <1>5, <1>6, Nulls, EndsInv DEF GoalsInv
<1> QED BY <1>2, <1>3, <1>7 DEF GoalsInv

LEMMA TerminatePending ==
  ASSUME GoalsInv, NEW v \in Navigator, UNCHANGED <<incoming, deactivating>>, terminate_pending_goal(v)
  PROVE  GoalsInv'
<1>0. /\ current[v] \in Slot /\ pending[v] \in Slot /\ incoming[v] \in Slot
      /\ pending' = [pending EXCEPT ![v] = NoGoal] /\ current' = current
  BY DEF GoalsInv, Types, terminate_pending_goal
<1>1. /\ status' \in [Goal -> Protocol!Status]
      /\ \A h \in Goal : h # pending[v] => status'[h] = status[h]
      /\ pending[v] # NoGoal => status'[pending[v]] \notin Protocol!ActiveStatus
  BY <1>0, AbortedFacts DEF GoalsInv, Types, terminate_pending_goal
<1>2. Types'
  BY <1>0, <1>1 DEF GoalsInv, Types, Slot
<1>3. \A u \in Navigator : Distinct(u)'
  BY <1>0 DEF GoalsInv, Types, Distinct
<1>4. \A u \in Navigator : u # v => Held(u)' = Held(u)
  BY <1>0 DEF GoalsInv, Types, Held
<1>5. Held(v)' = Held(v) \ ({pending[v]} \ {NoGoal})
  BY <1>0 DEF GoalsInv, Types, Held, Distinct
<1>6. ({pending[v]} \ {NoGoal}) \in SUBSET Held(v)
  BY DEF Held
<1>7. LiveGoalsAreHeld'
  BY <1>1, <1>4, <1>5, <1>6, Nulls, EndsInv DEF GoalsInv
<1> QED BY <1>2, <1>3, <1>7 DEF GoalsInv

LEMMA TerminateAll ==
  ASSUME GoalsInv, NEW v \in Navigator, UNCHANGED <<incoming, deactivating>>, terminate_all(v)
  PROVE  GoalsInv'
<1>0. /\ current[v] \in Slot /\ pending[v] \in Slot /\ incoming[v] \in Slot
      /\ pending' = [pending EXCEPT ![v] = NoGoal] /\ current' = [current EXCEPT ![v] = NoGoal]
  BY DEF GoalsInv, Types, terminate_all
<1> DEFINE st == Aborted(status, current[v])
<1>1. /\ st \in [Goal -> Protocol!Status]
      /\ \A h \in Goal : h # current[v] => st[h] = status[h]
      /\ current[v] # NoGoal => st[current[v]] \notin Protocol!ActiveStatus
  BY <1>0, AbortedFacts DEF GoalsInv, Types
<1>2. status' = Aborted(st, pending[v])
  BY DEF terminate_all
<1> HIDE DEF st
<1>3. /\ status' \in [Goal -> Protocol!Status]
      /\ \A h \in Goal : h # pending[v] => status'[h] = st[h]
      /\ pending[v] # NoGoal => status'[pending[v]] \notin Protocol!ActiveStatus
  BY <1>0, <1>1, <1>2, AbortedFacts
<1>4. Types'
  BY <1>0, <1>3 DEF GoalsInv, Types, Slot
<1>5. \A u \in Navigator : Distinct(u)'
  BY <1>0 DEF GoalsInv, Types, Distinct
<1>6. \A u \in Navigator : u # v => Held(u)' = Held(u)
  BY <1>0 DEF GoalsInv, Types, Held
<1>7. Held(v)' = Held(v) \ ({current[v], pending[v]} \ {NoGoal})
  BY <1>0 DEF GoalsInv, Types, Held, Distinct
<1>8. ({current[v], pending[v]} \ {NoGoal}) \in SUBSET Held(v)
  BY DEF Held
<1>9. /\ \A g \in Goal : g \in {current[v], pending[v]} \ {NoGoal} => status'[g] \notin Protocol!ActiveStatus
      /\ \A g \in Goal : g \notin {current[v], pending[v]} \ {NoGoal} => status'[g] = status[g]
  BY <1>1, <1>3, Nulls
<1>10. LiveGoalsAreHeld'
  BY <1>6, <1>7, <1>8, <1>9, EndsInv DEF GoalsInv
<1> QED BY <1>4, <1>5, <1>10 DEF GoalsInv

\* accept_pending_goal(), and the same in work(): the pending goal becomes the current one.
LEMMA AcceptPending ==
  ASSUME GoalsInv, NEW v \in Navigator, UNCHANGED <<incoming, deactivating>>,
         current' = [current EXCEPT ![v] = pending[v]], pending' = [pending EXCEPT ![v] = NoGoal],
         status' \in [Goal -> Protocol!Status],
         \A h \in Goal : h # current[v] => status'[h] = status[h],
         current[v] # NoGoal => status'[current[v]] \notin Protocol!ActiveStatus
  PROVE  GoalsInv'
<1>0. current[v] \in Slot /\ pending[v] \in Slot /\ incoming[v] \in Slot
  BY DEF GoalsInv, Types
<1>1. Types'
  BY <1>0 DEF GoalsInv, Types, Slot
<1>2. \A u \in Navigator : Distinct(u)'
  BY <1>0 DEF GoalsInv, Types, Distinct
<1>3. \A u \in Navigator : u # v => Held(u)' = Held(u)
  BY <1>0 DEF GoalsInv, Types, Held
<1>4. Held(v)' = Held(v) \ ({current[v]} \ {NoGoal})
  BY <1>0 DEF GoalsInv, Types, Held, Distinct
<1>5. ({current[v]} \ {NoGoal}) \in SUBSET Held(v)
  BY DEF Held
<1>6. LiveGoalsAreHeld'
  BY <1>3, <1>4, <1>5, Nulls, EndsInv DEF GoalsInv
<1> QED BY <1>1, <1>2, <1>6 DEF GoalsInv

\* A goal that was accepted moves from incoming into a slot, in place of the one that waits.
LEMMA HandleAccepted ==
  ASSUME GoalsInv, NEW v \in Navigator, handle_accepted(v)
  PROVE  GoalsInv'
<1>0. /\ current[v] \in Slot /\ pending[v] \in Slot /\ incoming[v] \in Slot
      /\ incoming[v] # NoGoal
      /\ incoming' = [incoming EXCEPT ![v] = NoGoal] /\ status' = Aborted(status, pending[v])
      /\ UNCHANGED deactivating
  BY DEF GoalsInv, Types, handle_accepted, nodeVars
<1>1. /\ status' \in [Goal -> Protocol!Status]
      /\ \A h \in Goal : h # pending[v] => status'[h] = status[h]
      /\ pending[v] # NoGoal => status'[pending[v]] \notin Protocol!ActiveStatus
  BY <1>0, AbortedFacts DEF GoalsInv, Types
<1>2. \/ pending' = [pending EXCEPT ![v] = incoming[v]] /\ current' = current
      \/ /\ current[v] = NoGoal
         /\ current' = [current EXCEPT ![v] = incoming[v]] /\ pending' = [pending EXCEPT ![v] = NoGoal]
  BY DEF handle_accepted
<1>3. Types'
  BY <1>0, <1>1, <1>2 DEF GoalsInv, Types, Slot
<1>4. \A u \in Navigator : Distinct(u)'
  BY <1>0, <1>2 DEF GoalsInv, Types, Distinct
<1>5. \A u \in Navigator : u # v => Held(u)' = Held(u)
  BY <1>0, <1>2 DEF GoalsInv, Types, Held
<1>6. Held(v)' = Held(v) \ ({pending[v]} \ {NoGoal})
  BY <1>0, <1>2 DEF GoalsInv, Types, Held, Distinct
<1>7. ({pending[v]} \ {NoGoal}) \in SUBSET Held(v)
  BY DEF Held
<1>8. LiveGoalsAreHeld'
  BY <1>1, <1>5, <1>6, <1>7, Nulls, EndsInv DEF GoalsInv
<1> QED BY <1>3, <1>4, <1>8 DEF GoalsInv

LEMMA HandleGoal ==
  ASSUME GoalsInv, NEW v \in Navigator, NEW g \in Goal, handle_goal(v, g)
  PROVE  GoalsInv'
<1>0. /\ incoming[v] = NoGoal /\ status[g] = "unsent" /\ ~is_active(g)
      /\ UNCHANGED <<current, pending, deactivating>>
  BY DEF handle_goal, idle, nodeVars, is_active, Protocol!ActiveStatus
<1>1. \A u \in Navigator : g \notin Held(u)
  BY <1>0 DEF GoalsInv, LiveGoalsAreHeld
<1>2. CASE status' = [status EXCEPT ![g] = "rejected"] /\ UNCHANGED incoming
  <2>1. Types' /\ \A u \in Navigator : Distinct(u)'
    BY <1>0, <1>2 DEF GoalsInv, Types, Distinct, Protocol!Status
  <2>2. \A u \in Navigator : Held(u)' = Held(u)
    BY <1>0, <1>2 DEF Held
  <2>3. \A h \in Goal : is_active(h)' <=> is_active(h)
    BY <1>0, <1>2 DEF GoalsInv, Types, is_active, Protocol!ActiveStatus
  <2> QED BY <2>1, <2>2, <2>3 DEF GoalsInv, LiveGoalsAreHeld
<1>3. CASE status' = [status EXCEPT ![g] = "executing"] /\ incoming' = [incoming EXCEPT ![v] = g]
  <2>1. Types'
    BY <1>0, <1>3 DEF GoalsInv, Types, Slot, Protocol!Status, Protocol!ActiveStatus
  <2>2. \A u \in Navigator : Distinct(u)'
    BY <1>0, <1>1, <1>3, Nulls DEF GoalsInv, Types, Distinct, Held
  <2>3. Held(v)' = Held(v) \cup {g} /\ \A u \in Navigator : u # v => Held(u)' = Held(u)
    BY <1>0, <1>3, Nulls DEF GoalsInv, Types, Held
  <2>4. \A h \in Goal : is_active(h)' <=> is_active(h) \/ h = g
    BY <1>0, <1>3, Nulls DEF GoalsInv, Types, is_active, Protocol!ActiveStatus
  <2>5. \A h \in Goal : is_active(h)' <=> \E u \in Navigator : h \in Held(u)'
    BY <2>3, <2>4 DEF GoalsInv, LiveGoalsAreHeld
  <2>6. \A u, w \in Navigator : u # w => Held(u)' \cap Held(w)' = {}
    BY <1>1, <2>3 DEF GoalsInv, LiveGoalsAreHeld
  <2> QED BY <2>1, <2>2, <2>5, <2>6 DEF GoalsInv, LiveGoalsAreHeld
<1> QED BY <1>2, <1>3 DEF handle_goal

LEMMA CancelGoal ==
  ASSUME GoalsInv, NEW g \in Goal, cancel_goal(g)
  PROVE  GoalsInv'
<1>1. /\ status[g] = "executing" /\ status' = [status EXCEPT ![g] = "canceling"]
      /\ UNCHANGED <<current, pending, incoming, deactivating>>
  BY DEF cancel_goal, nodeVars
<1>2. Types' /\ \A u \in Navigator : Distinct(u)'
  BY <1>1 DEF GoalsInv, Types, Distinct, Protocol!Status, Protocol!ActiveStatus
<1>3. \A h \in Goal : is_active(h)' <=> is_active(h)
  BY <1>1 DEF GoalsInv, Types, is_active, Protocol!ActiveStatus
<1>4. \A u \in Navigator : Held(u)' = Held(u)
  BY <1>1 DEF Held
<1> QED BY <1>2, <1>3, <1>4 DEF GoalsInv, LiveGoalsAreHeld

LEMMA KeepGoals ==
  ASSUME GoalsInv, UNCHANGED <<status, current, pending, incoming>>,
         deactivating' \in Navigator \cup {NoNavigator}
  PROVE  GoalsInv'
BY DEF GoalsInv, Types, Distinct, LiveGoalsAreHeld, Held, is_active

\* The steps of a worker.
LEMMA WorkerGoals ==
  ASSUME Inv, NEW v \in Navigator, executeCallback(v)
  PROVE  GoalsInv'
<1>0. GoalsInv /\ UNCHANGED <<incoming, deactivating>>
  BY DEF Inv, GoalsInv, executeCallback, work_loop, isNavigating, goalReceived, startNavigating,
    run_canceled, tickOnce, onLoop, initializeGoalPose, onCompletion, report, work_after, nodeVars
<1>1. deactivating' \in Navigator \cup {NoNavigator}
  BY <1>0 DEF GoalsInv, Types
<1>2. CASE work_loop(v) \/ startNavigating(v) \/ run_canceled(v) \/ tickOnce(v) \/ onCompletion(v)
  <2>1. UNCHANGED <<status, current, pending>>
    BY <1>2 DEF work_loop, startNavigating, run_canceled, tickOnce, onCompletion, goalVars
  <2> QED BY <1>0, <1>1, <2>1, KeepGoals
<1>3. CASE isNavigating(v) \/ goalReceived(v)
  <2>1. terminate_current(v) \/ UNCHANGED <<status, current, pending>>
    BY <1>3 DEF isNavigating, goalReceived, goalVars
  <2> QED BY <1>0, <1>1, <2>1, KeepGoals, TerminateCurrent
<1>4. CASE onLoop(v) \/ initializeGoalPose(v)
  <2>1. terminate_pending_goal(v) \/ accept_pending_goal(v) \/ UNCHANGED <<status, current, pending>>
    BY <1>4 DEF onLoop, initializeGoalPose, goalVars
  <2>2. CASE accept_pending_goal(v)
    <3>1. current[v] \in Slot
      BY <1>0 DEF GoalsInv, Types
    <3>2. /\ status' \in [Goal -> Protocol!Status]
          /\ \A h \in Goal : h # current[v] => status'[h] = status[h]
          /\ current[v] # NoGoal => status'[current[v]] \notin Protocol!ActiveStatus
      BY <1>0, <2>2, <3>1, Nulls DEF GoalsInv, Types, accept_pending_goal, Slot, Protocol!Status,
        Protocol!ActiveStatus, Protocol!FinalStatus
    <3> QED BY <1>0, <2>2, <3>2, AcceptPending DEF accept_pending_goal
  <2> QED BY <1>0, <1>1, <2>1, <2>2, KeepGoals, TerminatePending
<1>5. CASE report(v)
  <2>1. tick[v] \in {"succeeded", "failed", "canceled"}
    BY <1>5 DEF Inv, TickInv, report, at
  <2>2. terminate_current(v) \/ succeeded_current(v) \/ terminate_all(v)
    BY <1>5, <2>1 DEF report
  <2> QED BY <1>0, <2>2, TerminateCurrent, TerminateAll
<1>6. CASE work_after(v)
  <2>1. CASE terminate_all(v) \/ terminate_current(v)
    BY <1>0, <2>1, TerminateCurrent, TerminateAll
  <2>2. CASE /\ status' = Aborted(status, current[v])
             /\ current' = [current EXCEPT ![v] = pending[v]]
             /\ pending' = [pending EXCEPT ![v] = NoGoal]
    <3>1. current[v] \in Slot
      BY <1>0 DEF GoalsInv, Types
    <3>2. /\ status' \in [Goal -> Protocol!Status]
          /\ \A h \in Goal : h # current[v] => status'[h] = status[h]
          /\ current[v] # NoGoal => status'[current[v]] \notin Protocol!ActiveStatus
      BY <1>0, <2>2, <3>1, AbortedFacts DEF GoalsInv, Types
    <3> QED BY <1>0, <2>2, <3>2, AcceptPending
  <2> QED BY <1>6, <2>1, <2>2 DEF work_after
<1> QED BY <1>2, <1>3, <1>4, <1>5, <1>6 DEF executeCallback

\* The steps of the executor.
LEMMA ExecutorGoals ==
  ASSUME GoalsInv, on_activate \/ on_deactivate \/ deactivated \/ deactivate_overdue
  PROVE  GoalsInv'
<1>1. CASE on_activate \/ on_deactivate \/ deactivated
  <2>1. UNCHANGED <<status, current, pending, incoming>>
    BY <1>1 DEF on_activate, on_deactivate, deactivated, goalVars
  <2>2. deactivating' \in Navigator \cup {NoNavigator}
    BY <1>1 DEF GoalsInv, Types, on_activate, on_deactivate, deactivated, deactivate_next
  <2> QED BY <2>1, <2>2, KeepGoals
<1>2. CASE deactivate_overdue
  <2>1. deactivating \in Navigator /\ UNCHANGED <<incoming, deactivating>> /\ terminate_all(deactivating)
    BY <1>2 DEF GoalsInv, Types, deactivate_overdue, nodeVars
  <2> QED BY <2>1, TerminateAll
<1> QED BY <1>1, <1>2

-----------------------------------------------------------------------------
(* The workers and the muxer.                                              *)

LEMMA WorkerTick ==
  ASSUME TickInv, NEW v \in Navigator, executeCallback(v)
  PROVE  TickInv'
<1>1. CASE work_loop(v) \/ isNavigating(v) \/ goalReceived(v) \/ startNavigating(v)
  BY <1>1 DEF TickInv, Place, at, goto, work_loop, isNavigating, goalReceived, startNavigating
<1>2. CASE run_canceled(v)
  BY <1>2 DEF TickInv, Place, at, goto, run_canceled
<1>3. CASE tickOnce(v)
  BY <1>3 DEF TickInv, Place, at, goto, tickOnce
<1>4. CASE onLoop(v) \/ initializeGoalPose(v)
  BY <1>4 DEF TickInv, Place, at, goto, onLoop, initializeGoalPose, Continue
<1>5. CASE onCompletion(v)
  BY <1>5 DEF TickInv, Place, at, goto, onCompletion
<1>6. CASE report(v)
  BY <1>6 DEF TickInv, Place, at, goto, report
<1>7. CASE work_after(v)
  BY <1>7 DEF TickInv, Place, at, goto, work_after
<1> QED BY <1>1, <1>2, <1>3, <1>4, <1>5, <1>6, <1>7 DEF executeCallback

LEMMA WorkerMuxer ==
  ASSUME TickInv, MuxerInv, NEW v \in Navigator, executeCallback(v)
  PROVE  MuxerInv'
<1>1. CASE startNavigating(v)
  BY <1>1, Nulls DEF TickInv, MuxerInv, Navigating, at, goto, startNavigating
<1>2. CASE onCompletion(v)
  BY <1>2, Nulls DEF TickInv, MuxerInv, Navigating, at, goto, onCompletion
<1>3. CASE UNCHANGED muxVars /\ \A u \in Navigator : Navigating(u)' => Navigating(u)
  BY <1>3 DEF MuxerInv, muxVars
<1>4. CASE work_loop(v) \/ isNavigating(v) \/ goalReceived(v)
  BY <1>3, <1>4 DEF TickInv, Navigating, at, goto, work_loop, isNavigating, goalReceived
<1>5. CASE run_canceled(v) \/ tickOnce(v)
  BY <1>3, <1>5 DEF TickInv, Navigating, at, goto, run_canceled, tickOnce
<1>6. CASE onLoop(v) \/ initializeGoalPose(v)
  BY <1>3, <1>6 DEF TickInv, Navigating, at, goto, onLoop, initializeGoalPose, Continue
<1>7. CASE report(v) \/ work_after(v)
  BY <1>3, <1>7 DEF TickInv, Navigating, at, goto, report, work_after
<1> QED BY <1>1, <1>2, <1>4, <1>5, <1>6, <1>7 DEF executeCallback

\* A worker that is started is at the top of work().
LEMMA ExecutorMuxer ==
  ASSUME TickInv, MuxerInv, UNCHANGED <<tick, current_navigator, major_error>>,
         worker' = worker \/ \E v \in Navigator : worker' = [worker EXCEPT ![v] = "work"]
  PROVE  TickInv' /\ MuxerInv'
BY DEF TickInv, MuxerInv, Navigating, Place

-----------------------------------------------------------------------------
LEMMA InvParts == Inv <=> GoalsInv /\ TickInv /\ MuxerInv
BY DEF Inv, GoalsInv

\* Workers, executor and lifecycle transitions preserve the inductive invariant: slots hold
\* distinct live goals, and the muxer knows who navigates unless it has reported an overlap.
THEOREM Invariant == Spec => []Inv
<1>1. ASSUME Inv, Next PROVE Inv'
  <2>0. GoalsInv /\ TickInv /\ MuxerInv
    BY <1>1, InvParts
  <2>1. CASE \E v \in Navigator : executeCallback(v)
    <3>1. PICK v \in Navigator : executeCallback(v)
      BY <2>1
    <3>2. GoalsInv' /\ TickInv' /\ MuxerInv'
      BY <1>1, <2>0, <3>1, WorkerGoals, WorkerTick, WorkerMuxer
    <3> QED BY <3>2 DEF Inv, GoalsInv
  <2>2. CASE \E v \in Navigator : handle_accepted(v)
    <3>1. PICK v \in Navigator : handle_accepted(v)
      BY <2>2
    <3>2. TickInv' /\ MuxerInv'
      BY <2>0, <3>1, ExecutorMuxer DEF handle_accepted, muxVars
    <3> QED BY <2>0, <3>1, <3>2, HandleAccepted DEF Inv, GoalsInv
  <2>3. CASE \E g \in Goal : cancel_goal(g) \/ \E v \in Navigator : handle_goal(v, g)
    <3>1. PICK g \in Goal : cancel_goal(g) \/ \E v \in Navigator : handle_goal(v, g)
      BY <2>3
    <3>2. TickInv' /\ MuxerInv'
      BY <2>0, <3>1, ExecutorMuxer DEF cancel_goal, handle_goal, muxVars
    <3>3. GoalsInv'
      BY <2>0, <3>1, CancelGoal, HandleGoal
    <3> QED BY <3>2, <3>3 DEF Inv, GoalsInv
  <2>4. CASE on_activate \/ on_deactivate \/ deactivated \/ deactivate_overdue
    <3>1. TickInv' /\ MuxerInv'
      BY <2>0, <2>4, ExecutorMuxer DEF on_activate, on_deactivate, deactivated, deactivate_overdue, muxVars
    <3> QED BY <2>0, <2>4, <3>1, ExecutorGoals DEF Inv, GoalsInv
  <2> QED BY <1>1, <2>1, <2>2, <2>3, <2>4 DEF Next, executor
<1>2. ASSUME Inv, UNCHANGED vars PROVE Inv'
  <2>1. GoalsInv'
    BY <1>2, KeepGoals DEF Inv, GoalsInv, Types, vars, goalVars, nodeVars
  <2>2. TickInv' /\ MuxerInv'
    BY <1>2, ExecutorMuxer DEF Inv, vars, muxVars
  <2> QED BY <2>1, <2>2 DEF Inv, GoalsInv
<1> QED BY InitInv, <1>1, <1>2, PTL DEF Spec

\* For any number of navigators and goals, every live goal is held by one navigator and every
\* goal held is live: none is lost or ended twice in a preemption, a refusal, a cancel or a
\* deactivation.
THEOREM HeldTheorem == Spec => []LiveGoalsAreHeld
<1>1. Inv => LiveGoalsAreHeld
  BY DEF Inv
<1> QED BY Invariant, <1>1, PTL

\* For any number of navigators, two that navigate at once have been reported by
\* startNavigating().
THEOREM OverlapTheorem == Spec => []OverlapIsReported
<1>1. Inv => OverlapIsReported
  BY DEF Inv, MuxerInv, OverlapIsReported
<1> QED BY Invariant, <1>1, PTL

-----------------------------------------------------------------------------
(* The goal protocol.                                                      *)

LEMMA HeldIsActive ==
  ASSUME GoalsInv, NEW v \in Navigator, NEW g \in {current[v], pending[v]}, g # NoGoal
  PROVE  g \in Goal /\ status[g] \in Protocol!ActiveStatus
<1>1. g \in Goal
  BY DEF GoalsInv, Types, Slot
<1>2. g \in Held(v)
  BY DEF Held
<1> QED BY <1>1, <1>2 DEF GoalsInv, LiveGoalsAreHeld, is_active

LEMMA AbortedIsFinish ==
  ASSUME NEW st \in [Goal -> Protocol!Status], NEW g \in Slot, g # NoGoal => st[g] \in Protocol!ActiveStatus,
         NEW h \in Goal, Aborted(st, g)[h] # st[h]
  PROVE  st[h] \in Protocol!ActiveStatus /\ Aborted(st, g)[h] \in Protocol!Outcome(st[h])
BY Nulls DEF Aborted, Slot, Protocol!Outcome, Protocol!ActiveStatus, Protocol!FinalStatus

\* One goal of v ends, in any of the ways there are.
LEMMA OneEnds ==
  ASSUME GoalsInv, NEW v \in Navigator, NEW g \in {current[v], pending[v]},
         \/ status' = Aborted(status, g)
         \/ \E s \in {"aborted", "succeeded"} :
              status' = IF g = NoGoal THEN status ELSE [status EXCEPT ![g] = s]
  PROVE  Protocol!Finish
<1>0. g \in Slot /\ status \in [Goal -> Protocol!Status]
  BY DEF GoalsInv, Types
<1>1. g # NoGoal => g \in Goal /\ status[g] \in Protocol!ActiveStatus
  BY HeldIsActive
<1>2. CASE status' = Aborted(status, g)
  BY <1>0, <1>1, <1>2, AbortedFacts, AbortedIsFinish DEF Protocol!Finish
<1>3. CASE \E s \in {"aborted", "succeeded"} :
             status' = IF g = NoGoal THEN status ELSE [status EXCEPT ![g] = s]
  BY <1>0, <1>1, <1>3 DEF Protocol!Finish, Protocol!Outcome, Protocol!Status, Protocol!FinalStatus
<1> QED BY <1>2, <1>3

LEMMA AllEnd ==
  ASSUME GoalsInv, NEW v \in Navigator, terminate_all(v)
  PROVE  Protocol!Finish
<1> DEFINE st == Aborted(status, current[v])
<1>0. /\ current[v] \in Slot /\ pending[v] \in Slot /\ status \in [Goal -> Protocol!Status]
      /\ current[v] # NoGoal => current[v] # pending[v]
  BY DEF GoalsInv, Types, Distinct
<1>1. /\ current[v] # NoGoal => status[current[v]] \in Protocol!ActiveStatus
      /\ pending[v] # NoGoal => pending[v] \in Goal /\ status[pending[v]] \in Protocol!ActiveStatus
  BY HeldIsActive
<1>2. /\ st \in [Goal -> Protocol!Status]
      /\ \A h \in Goal : h # current[v] => st[h] = status[h]
      /\ \A h \in Goal : st[h] # status[h] => /\ status[h] \in Protocol!ActiveStatus
                                              /\ st[h] \in Protocol!Outcome(status[h])
  BY <1>0, <1>1, AbortedFacts, AbortedIsFinish
<1>3. status' = Aborted(st, pending[v])
  BY DEF terminate_all
<1> HIDE DEF st
<1>4. pending[v] # NoGoal => st[pending[v]] \in Protocol!ActiveStatus
  BY <1>0, <1>1, <1>2
<1>5. /\ status' \in [Goal -> Protocol!Status]
      /\ \A h \in Goal : h # pending[v] => status'[h] = st[h]
      /\ \A h \in Goal : status'[h] # st[h] => /\ st[h] \in Protocol!ActiveStatus
                                               /\ status'[h] \in Protocol!Outcome(st[h])
  BY <1>0, <1>2, <1>3, <1>4, AbortedFacts, AbortedIsFinish
<1>6. ASSUME NEW h \in Goal, status'[h] # status[h]
      PROVE  status[h] \in Protocol!ActiveStatus /\ status'[h] \in Protocol!Outcome(status[h])
  <2>1. CASE h = pending[v]
    <3>1. st[h] = status[h]
      BY <1>0, <1>2, <2>1, Nulls
    <3> QED BY <1>5, <1>6, <3>1
  <2>2. CASE h # pending[v]
    BY <1>2, <1>5, <1>6, <2>2
  <2> QED BY <2>1, <2>2
<1> QED BY <1>5, <1>6 DEF Protocol!Finish

\* The navigators keep the promise of GoalProtocol to their clients, preemptions, refusals,
\* cancels and deactivations included: every step of theirs is one of the protocol.
THEOREM ProtocolTheorem == Spec => Protocol!Spec
<1>1. Init => Protocol!Init
  BY DEF Init, Protocol!Init
<1>2. ASSUME Inv, Next PROVE Protocol!Next \/ UNCHANGED status
  <2>0. GoalsInv
    BY <1>2 DEF Inv, GoalsInv
  <2>1. ASSUME NEW v \in Navigator, executeCallback(v) PROVE Protocol!Next \/ UNCHANGED status
    <3>1. CASE UNCHANGED status
      BY <3>1
    <3>2. CASE terminate_all(v)
      BY <2>0, <3>2, AllEnd DEF Protocol!Next
    <3>3. CASE terminate_current(v) \/ succeeded_current(v) \/ accept_pending_goal(v)
               \/ status' = Aborted(status, current[v])
      <4>1. \/ status' = Aborted(status, current[v])
            \/ \E s \in {"aborted", "succeeded"} :
                 status' = IF current[v] = NoGoal THEN status ELSE [status EXCEPT ![current[v]] = s]
        BY <3>3 DEF terminate_current, succeeded_current, accept_pending_goal
      <4> QED BY <2>0, <4>1, OneEnds DEF Protocol!Next
    <3>4. CASE terminate_pending_goal(v)
      BY <2>0, <3>4, OneEnds DEF terminate_pending_goal, Protocol!Next
    <3>5. CASE report(v)
      <4>1. tick[v] \in {"succeeded", "failed", "canceled"}
        BY <1>2, <3>5 DEF Inv, TickInv, report, at
      <4> QED BY <3>2, <3>3, <3>5, <4>1 DEF report
    <3>6. CASE ~report(v)
      BY <2>1, <3>1, <3>2, <3>3, <3>4, <3>6 DEF executeCallback, work_loop, isNavigating, goalReceived,
        startNavigating, run_canceled, tickOnce, onLoop, initializeGoalPose, onCompletion, work_after,
        goalVars
    <3> QED BY <3>5, <3>6
  <2>2. ASSUME NEW v \in Navigator, handle_accepted(v) PROVE Protocol!Next
    BY <2>0, <2>2, OneEnds DEF handle_accepted, Protocol!Next
  <2>3. ASSUME NEW g \in Goal, NEW v \in Navigator, handle_goal(v, g) PROVE Protocol!Next
    <3>1. Protocol!Answer(g)
      BY <2>3 DEF handle_goal, Protocol!Answer
    <3> QED BY <3>1 DEF Protocol!Next
  <2>4. ASSUME NEW g \in Goal, cancel_goal(g) PROVE Protocol!Next
    BY <2>4 DEF cancel_goal, Protocol!Cancel, Protocol!Next
  <2>5. CASE deactivate_overdue
    <3>1. deactivating \in Navigator /\ terminate_all(deactivating)
      BY <2>0, <2>5 DEF GoalsInv, Types, deactivate_overdue
    <3> QED BY <2>0, <3>1, AllEnd DEF Protocol!Next
  <2>6. CASE on_activate \/ on_deactivate \/ deactivated
    BY <2>6 DEF on_activate, on_deactivate, deactivated, goalVars
  <2> QED BY <1>2, <2>1, <2>2, <2>3, <2>4, <2>5, <2>6 DEF Next, executor
<1>3. UNCHANGED vars => UNCHANGED status
  BY DEF vars, goalVars
<1>4. Inv /\ [Next]_vars => [Protocol!Next]_status
  BY <1>2, <1>3
<1> QED BY <1>1, <1>4, Invariant, PTL DEF Spec, Protocol!Spec

-----------------------------------------------------------------------------
(* The action nodes.                                                       *)

\* What the client has processed about a goal, the server has said of it.
ClientInv ==
  \A g \in ActionGoal :
    /\ client[g] = "refused" => goal_status[g] = "rejected"
    /\ client[g] \in {"ended", "resulted"} => goal_status[g] \in Server!FinalStatus

\* Where tick() and halt() are fixes which goal future and handle are for: the
\* last one sent, acknowledged unless a future is set.
PlaceInv ==
  /\ pc # "out" => node = "running"
  /\ pc \in {"acknowledge", "reacknowledge"} => future # None
  /\ pc \in {"wait", "spin", "report"} => future = None
  /\ pc \in {"cancel", "cancel_result"} => handle # None /\ handle \in cancels
  /\ node = "running" =>
       /\ sent # 0
       /\ IF future = None
          THEN handle = sent /\ client[sent] \notin {"unknown", "refused"}
          ELSE future = sent /\ ~available

\* A result that is available is the last goal's.
ResultInv ==
  /\ pc = "report" => available
  /\ node = "running" /\ available => result = sent /\ client[sent] = "resulted"

\* A node that rests is done with its last goal.
RestInv ==
  node = "idle" /\ sent # 0 =>
    \/ sent \in cancels \cup dropped
    \/ goal_status[sent] \in Server!FinalStatus \cup {"rejected"}

NodeInv == NodeTypeOK /\ ClientInv /\ PlaceInv /\ ResultInv /\ RestInv

USE DEF None

LEMMA InitNodeInv == NodeInit => NodeInv
<1> SUFFICES ASSUME NodeInit PROVE NodeInv
  OBVIOUS
<1>1. NodeTypeOK
  <2>1. goal_status \in [ActionGoal -> Server!Status]
    BY DEF NodeInit, Server!Status
  <2>2. client \in [ActionGoal -> {"unknown", "tracked", "refused", "ended", "resulted"}]
    BY DEF NodeInit
  <2>3. sent \in 0..MaxSent /\ future \in 0..sent /\ handle \in 0..sent /\ result \in 0..sent
    BY MaxSentAssumption DEF NodeInit
  <2>4. available \in BOOLEAN /\ goal_updated \in BOOLEAN
    BY Zenon DEF NodeInit
  <2> QED BY <2>1, <2>2, <2>3, <2>4 DEF NodeInit, NodeTypeOK
<1>2. ClientInv
  BY DEF NodeInit, ClientInv
<1>3. PlaceInv /\ ResultInv /\ RestInv
  BY DEF NodeInit, PlaceInv, ResultInv, RestInv
<1> QED BY <1>1, <1>2, <1>3 DEF NodeInv

\* A goal that the server has rejected or ended stays so.
LEMMA ServerSettles ==
  ASSUME NodeTypeOK, server
  PROVE  /\ goal_status' \in [ActionGoal -> Server!Status]
         /\ \A g \in ActionGoal : goal_status[g] \in Server!FinalStatus \cup {"rejected"}
                              => goal_status'[g] = goal_status[g]
<1>1. PICK g \in ActionGoal : server_answer(g) \/ server_cancel(g) \/ server_finish(g)
  BY DEF server
<1>2. CASE server_answer(g)
  BY <1>2 DEF NodeTypeOK, server_answer, Server!Answer, Server!Status, Server!ActiveStatus,
    Server!FinalStatus
<1>3. CASE server_cancel(g)
  BY <1>3 DEF NodeTypeOK, server_cancel, Server!Cancel, Server!Status, Server!ActiveStatus,
    Server!FinalStatus
<1>4. CASE server_finish(g)
  BY <1>4 DEF NodeTypeOK, server_finish, Server!Outcome, Server!Status, Server!ActiveStatus,
    Server!FinalStatus
<1> QED BY <1>1, <1>2, <1>3, <1>4

\* What a spin may do: the client learns what the server has said, and no result is
\* kept but that of the goal in the handle, while no acknowledgment is awaited.
LEMMA SpinLearns ==
  ASSUME NodeTypeOK, ClientInv, spin, UNCHANGED goal_status
  PROVE  /\ client' \in [ActionGoal -> {"unknown", "tracked", "refused", "ended", "resulted"}]
         /\ ClientInv'
         /\ \A g \in ActionGoal : client[g] \notin {"unknown", "refused"}
                              => client'[g] \notin {"unknown", "refused"}
         /\ \A g \in ActionGoal : client[g] = "resulted" => client'[g] = "resulted"
<1>1. ASSUME NEW g \in ActionGoal
      PROVE  /\ client'[g] = "refused" => goal_status[g] = "rejected"
             /\ client'[g] \in {"ended", "resulted"} => goal_status[g] \in Server!FinalStatus
             /\ client[g] \notin {"unknown", "refused"} => client'[g] \notin {"unknown", "refused"}
             /\ client[g] = "resulted" => client'[g] = "resulted"
  <2>1. client'[g] \in {client[g]} \cup News(g)
    BY DEF spin
  <2> QED BY <2>1 DEF News, ClientInv, NodeTypeOK
<1> QED BY <1>1 DEF spin, ClientInv

LEMMA SpinKeeps ==
  ASSUME NodeTypeOK, spin
  PROVE  \/ UNCHANGED resultVars
         \/ /\ future = None /\ handle \in ActionGoal
            /\ available' = TRUE /\ result' = handle /\ client'[handle] = "resulted"
BY DEF spin, result_callback, resultVars

\* Every step keeps the invariant: those of the server and of tick(), ...
LEMMA ServerInv == ASSUME NodeInv, server PROVE NodeInv'
<1>1. UNCHANGED <<client, cancels, placeVars, sent, future, handle, resultVars, goal_updated, dropped>>
  BY DEF server
<1>2. /\ goal_status' \in [ActionGoal -> Server!Status]
      /\ \A g \in ActionGoal : goal_status[g] \in Server!FinalStatus \cup {"rejected"}
                           => goal_status'[g] = goal_status[g]
  BY ServerSettles DEF NodeInv
<1>3. NodeTypeOK'
  BY <1>1, <1>2 DEF NodeInv, NodeTypeOK, placeVars, resultVars
<1>4. ClientInv'
  BY <1>1, <1>2 DEF NodeInv, ClientInv
<1>5. PlaceInv' /\ ResultInv'
  BY <1>1 DEF NodeInv, PlaceInv, ResultInv, placeVars, resultVars
<1>6. RestInv'
  BY <1>1, <1>2, MaxSentAssumption DEF NodeInv, RestInv, NodeTypeOK, placeVars, ActionGoal
<1> QED BY <1>3, <1>4, <1>5, <1>6 DEF NodeInv

LEMMA TickIdleInv == ASSUME NodeInv, tick_idle PROVE NodeInv'
<1>1. NodeTypeOK'
  <2>1. sent' \in 0..MaxSent /\ future' \in 0..sent' /\ handle' \in 0..sent' /\ result' \in 0..sent'
    BY MaxSentAssumption DEF NodeInv, NodeTypeOK, tick_idle, send_new_goal
  <2> QED BY <2>1 DEF NodeInv, NodeTypeOK, tick_idle, send_new_goal, goes_on
<1>2. ClientInv'
  BY DEF NodeInv, ClientInv, tick_idle
<1>3. PlaceInv' /\ ResultInv' /\ RestInv'
  BY MaxSentAssumption DEF NodeInv, NodeTypeOK, PlaceInv, ResultInv, RestInv, tick_idle, send_new_goal, goes_on
<1> QED BY <1>1, <1>2, <1>3 DEF NodeInv

LEMMA TickRunningInv == ASSUME NodeInv, tick_running PROVE NodeInv'
<1>1. NodeTypeOK'
  BY DEF NodeInv, NodeTypeOK, tick_running, goes_on, resultVars
<1>2. ClientInv'
  BY DEF NodeInv, ClientInv, tick_running
<1>3. PlaceInv' /\ ResultInv' /\ RestInv'
  BY DEF NodeInv, NodeTypeOK, PlaceInv, ResultInv, RestInv, tick_running, goes_on, resultVars
<1> QED BY <1>1, <1>2, <1>3 DEF NodeInv

LEMMA AcknowledgeTimeoutInv == ASSUME NodeInv, acknowledge_timeout PROVE NodeInv'
<1>1. node = "running" /\ future # None /\ future = sent /\ ~available /\ future \in ActionGoal
  BY MaxSentAssumption DEF NodeInv, NodeTypeOK, PlaceInv, acknowledge_timeout, ActionGoal
<1>2. UNCHANGED resultVars
  BY <1>1, SpinKeeps DEF NodeInv, acknowledge_timeout, resultVars
<1>3. ClientInv' /\ client' \in [ActionGoal -> {"unknown", "tracked", "refused", "ended", "resulted"}]
  BY SpinLearns DEF NodeInv, NodeTypeOK, ClientInv, acknowledge_timeout
<1>4. NodeTypeOK'
  BY <1>1, <1>2, <1>3 DEF NodeInv, NodeTypeOK, acknowledge_timeout, return, resultVars
<1>5. PlaceInv' /\ ResultInv' /\ RestInv'
  BY <1>1, <1>2 DEF PlaceInv, ResultInv, RestInv, acknowledge_timeout, return, resultVars
<1> QED BY <1>3, <1>4, <1>5 DEF NodeInv

LEMMA CompleteInv == ASSUME NodeInv, is_future_goal_handle_complete PROVE NodeInv'
<1>1. node = "running" /\ future # None /\ future = sent /\ ~available /\ future \in ActionGoal
  BY MaxSentAssumption DEF NodeInv, NodeTypeOK, PlaceInv, is_future_goal_handle_complete, ActionGoal
<1>2. UNCHANGED resultVars
  BY <1>1, SpinKeeps DEF NodeInv, is_future_goal_handle_complete
<1>3. ClientInv' /\ client' \in [ActionGoal -> {"unknown", "tracked", "refused", "ended", "resulted"}]
  BY SpinLearns DEF NodeInv, is_future_goal_handle_complete
<1>4. NodeTypeOK'
  BY <1>1, <1>2, <1>3 DEF NodeInv, NodeTypeOK, is_future_goal_handle_complete, return, goes_on, resultVars
<1>5. PlaceInv'
  BY <1>1, <1>2 DEF NodeInv, PlaceInv, is_future_goal_handle_complete, return, goes_on, resultVars
<1>6. ResultInv'
  BY <1>1, <1>2 DEF NodeInv, ResultInv, is_future_goal_handle_complete, return, goes_on, resultVars
<1>7. RestInv'
  BY <1>1, <1>3 DEF ClientInv, RestInv, is_future_goal_handle_complete, return, goes_on
<1> QED BY <1>3, <1>4, <1>5, <1>6, <1>7 DEF NodeInv

LEMMA WaitInv == ASSUME NodeInv, on_wait_for_result PROVE NodeInv'
<1>1. PICK updated \in {goal_updated, TRUE} :
        \/ /\ updated /\ client[handle] = "tracked"
           /\ send_new_goal
           /\ goal_updated' = FALSE
           /\ goes_on("reacknowledge")
        \/ /\ goal_updated' = updated
           /\ goes_on("spin")
           /\ UNCHANGED <<sent, future, resultVars>>
  BY DEF on_wait_for_result
<1>2. UNCHANGED <<goal_status, client, cancels, handle, dropped>> /\ pc = "wait"
  BY DEF on_wait_for_result
<1>3. ClientInv'
  BY <1>2 DEF NodeInv, ClientInv
<1>4. CASE send_new_goal /\ goal_updated' = FALSE /\ goes_on("reacknowledge")
  <2>1. sent' \in 0..MaxSent /\ future' \in 0..sent' /\ handle' \in 0..sent' /\ result' \in 0..sent'
    BY <1>2, <1>4, MaxSentAssumption DEF NodeInv, NodeTypeOK, send_new_goal
  <2>2. NodeTypeOK'
    BY <1>2, <1>4, <2>1 DEF NodeInv, NodeTypeOK, send_new_goal, goes_on
  <2>3. PlaceInv' /\ ResultInv' /\ RestInv'
    BY <1>4, MaxSentAssumption DEF NodeInv, NodeTypeOK, PlaceInv, ResultInv, RestInv, send_new_goal, goes_on
  <2> QED BY <1>3, <2>2, <2>3 DEF NodeInv
<1>5. CASE goal_updated' = updated /\ goes_on("spin") /\ UNCHANGED <<sent, future, resultVars>>
  <2>1. NodeTypeOK'
    BY <1>2, <1>5 DEF NodeInv, NodeTypeOK, goes_on, resultVars
  <2>2. PlaceInv' /\ ResultInv' /\ RestInv'
    BY <1>2, <1>5 DEF NodeInv, PlaceInv, ResultInv, RestInv, goes_on, resultVars
  <2> QED BY <1>3, <2>1, <2>2 DEF NodeInv
<1> QED BY <1>1, <1>4, <1>5

\* A spin of a running node keeps what it must of the result and of the client.
LEMMA SpinRunning ==
  ASSUME NodeInv, spin, UNCHANGED <<goal_status, sent, future, handle>>, node = "running"
  PROVE  /\ ClientInv'
         /\ client' \in [ActionGoal -> {"unknown", "tracked", "refused", "ended", "resulted"}]
         /\ available' \in BOOLEAN /\ result' \in 0..sent
         /\ future = None => client'[sent] \notin {"unknown", "refused"}
         /\ future # None => ~available'
         /\ available' => result' = sent /\ client'[sent] = "resulted"
<1>1. sent \in ActionGoal
  BY MaxSentAssumption DEF NodeInv, NodeTypeOK, PlaceInv, ActionGoal
<1>2. /\ ClientInv'
      /\ client' \in [ActionGoal -> {"unknown", "tracked", "refused", "ended", "resulted"}]
      /\ client[sent] \notin {"unknown", "refused"} => client'[sent] \notin {"unknown", "refused"}
      /\ client[sent] = "resulted" => client'[sent] = "resulted"
  BY <1>1, SpinLearns DEF NodeInv
<1>3. CASE UNCHANGED resultVars
  BY <1>2, <1>3 DEF NodeInv, NodeTypeOK, PlaceInv, ResultInv, resultVars
<1>4. CASE /\ future = None /\ handle \in ActionGoal
           /\ available' = TRUE /\ result' = handle /\ client'[handle] = "resulted"
  BY <1>2, <1>4, MaxSentAssumption DEF NodeInv, NodeTypeOK, PlaceInv
<1> QED BY <1>3, <1>4, SpinKeeps DEF NodeInv

LEMMA TickSpinInv == ASSUME NodeInv, tick_spin PROVE NodeInv'
<1>1. /\ node = "running" /\ future = None
      /\ UNCHANGED <<goal_status, cancels, sent, future, handle, goal_updated, dropped>>
  BY DEF NodeInv, PlaceInv, tick_spin
<1>2. /\ ClientInv'
      /\ client' \in [ActionGoal -> {"unknown", "tracked", "refused", "ended", "resulted"}]
      /\ available' \in BOOLEAN /\ result' \in 0..sent
      /\ client'[sent] \notin {"unknown", "refused"}
      /\ available' => result' = sent /\ client'[sent] = "resulted"
  BY <1>1, SpinRunning DEF tick_spin
<1>3. NodeTypeOK'
  BY <1>1, <1>2 DEF NodeInv, NodeTypeOK, tick_spin, goes_on, return
<1>4. PlaceInv' /\ ResultInv' /\ RestInv'
  BY <1>1, <1>2 DEF NodeInv, PlaceInv, ResultInv, RestInv, tick_spin, goes_on, return
<1> QED BY <1>2, <1>3, <1>4 DEF NodeInv

LEMMA TickReportInv == ASSUME NodeInv, tick_report PROVE NodeInv'
<1>1. sent \in ActionGoal /\ client[sent] = "resulted"
  BY MaxSentAssumption DEF NodeInv, NodeTypeOK, PlaceInv, ResultInv, tick_report, ActionGoal
<1>2. NodeTypeOK' /\ ClientInv'
  BY DEF NodeInv, NodeTypeOK, ClientInv, tick_report, return, resultVars
<1>3. PlaceInv' /\ ResultInv' /\ RestInv'
  BY <1>1 DEF NodeInv, ClientInv, PlaceInv, ResultInv, RestInv, tick_report, return
<1> QED BY <1>2, <1>3 DEF NodeInv

\* ... and those of halt().
LEMMA HaltedRests ==
  ASSUME NodeInv, halted, UNCHANGED <<goal_status, sent, future, handle>>, node = "running",
         ClientInv', cancels \subseteq cancels',
         future = None => sent \in cancels' \/ client'[sent] \in {"ended", "resulted"}
  PROVE  PlaceInv' /\ ResultInv' /\ RestInv' /\ dropped' \subseteq ActionGoal
<1>1. sent \in ActionGoal
  BY MaxSentAssumption DEF NodeInv, NodeTypeOK, PlaceInv, ActionGoal
<1>2. PlaceInv' /\ ResultInv'
  BY DEF PlaceInv, ResultInv, halted, return
<1>3. CASE future = None
  BY <1>1, <1>2, <1>3 DEF NodeInv, NodeTypeOK, ClientInv, RestInv, halted, return
<1>4. CASE future # None
  BY <1>1, <1>2, <1>4 DEF NodeInv, NodeTypeOK, PlaceInv, RestInv, halted, return
<1> QED BY <1>3, <1>4

LEMMA HaltInv == ASSUME NodeInv, halt PROVE NodeInv'
<1>1. node = "running" /\ UNCHANGED <<goal_status, sent, future, handle, goal_updated>>
  BY DEF halt
<1>2. sent \in ActionGoal /\ handle \in 0..sent /\ handle \in ActionGoal \cup {None}
  BY <1>1, MaxSentAssumption DEF NodeInv, NodeTypeOK, PlaceInv, ActionGoal
<1>3. CASE handle = None /\ halted /\ UNCHANGED <<client, resultVars, cancels>>
  <2>1. future # None /\ ClientInv'
    BY <1>1, <1>2, <1>3 DEF NodeInv, PlaceInv, ClientInv
  <2>2. PlaceInv' /\ ResultInv' /\ RestInv' /\ dropped' \subseteq ActionGoal
    BY <1>1, <1>3, <2>1, HaltedRests
  <2>3. NodeTypeOK'
    BY <1>1, <1>3, <2>2 DEF NodeInv, NodeTypeOK, halted, return, resultVars
  <2> QED BY <2>1, <2>2, <2>3 DEF NodeInv
<1>4. CASE handle # None /\ spin
           /\ IF client'[handle] = "tracked"
              THEN cancels' = cancels \cup {handle} /\ goes_on("cancel") /\ UNCHANGED dropped
              ELSE halted /\ UNCHANGED cancels
  <2>1. /\ ClientInv'
        /\ client' \in [ActionGoal -> {"unknown", "tracked", "refused", "ended", "resulted"}]
        /\ available' \in BOOLEAN /\ result' \in 0..sent
        /\ future = None => client'[sent] \notin {"unknown", "refused"}
        /\ future # None => ~available'
        /\ available' => result' = sent /\ client'[sent] = "resulted"
    BY <1>1, <1>4, SpinRunning
  <2>2. CASE cancels' = cancels \cup {handle} /\ goes_on("cancel") /\ UNCHANGED dropped
    <3>1. NodeTypeOK'
      BY <1>1, <1>2, <1>4, <2>1, <2>2 DEF NodeInv, NodeTypeOK, goes_on
    <3>2. PlaceInv' /\ ResultInv' /\ RestInv'
      BY <1>1, <1>4, <2>1, <2>2 DEF NodeInv, PlaceInv, ResultInv, RestInv, goes_on
    <3> QED BY <2>1, <3>1, <3>2 DEF NodeInv
  <2>3. CASE client'[handle] # "tracked" /\ halted /\ UNCHANGED cancels
    <3>1. future = None => client'[sent] \in {"ended", "resulted"}
      BY <1>1, <1>2, <2>1, <2>3 DEF NodeInv, PlaceInv
    <3>2. PlaceInv' /\ ResultInv' /\ RestInv' /\ dropped' \subseteq ActionGoal
      BY <1>1, <2>1, <2>3, <3>1, HaltedRests
    <3>3. NodeTypeOK'
      BY <1>1, <2>1, <2>3, <3>2 DEF NodeInv, NodeTypeOK, halted, return
    <3> QED BY <2>1, <3>2, <3>3 DEF NodeInv
  <2> QED BY <1>4, <2>2, <2>3
<1> QED BY <1>3, <1>4 DEF halt

LEMMA HaltCancelInv == ASSUME NodeInv, halt_cancel PROVE NodeInv'
<1>1. /\ node = "running" /\ handle # None /\ handle \in cancels
      /\ UNCHANGED <<goal_status, cancels, sent, future, handle, goal_updated, dropped>>
  BY DEF NodeInv, PlaceInv, halt_cancel
<1>2. /\ ClientInv'
      /\ client' \in [ActionGoal -> {"unknown", "tracked", "refused", "ended", "resulted"}]
      /\ available' \in BOOLEAN /\ result' \in 0..sent
      /\ future = None => client'[sent] \notin {"unknown", "refused"}
      /\ future # None => ~available'
      /\ available' => result' = sent /\ client'[sent] = "resulted"
  BY <1>1, SpinRunning DEF halt_cancel
<1>3. NodeTypeOK'
  BY <1>1, <1>2 DEF NodeInv, NodeTypeOK, halt_cancel, goes_on
<1>4. PlaceInv' /\ ResultInv' /\ RestInv'
  BY <1>1, <1>2 DEF NodeInv, PlaceInv, ResultInv, RestInv, halt_cancel, goes_on
<1> QED BY <1>2, <1>3, <1>4 DEF NodeInv

LEMMA HaltResultInv == ASSUME NodeInv, halt_result PROVE NodeInv'
<1>1. /\ node = "running" /\ handle # None /\ handle \in cancels
      /\ UNCHANGED <<goal_status, cancels, sent, future, handle, goal_updated>>
  BY DEF NodeInv, PlaceInv, halt_result
<1>2. /\ ClientInv'
      /\ client' \in [ActionGoal -> {"unknown", "tracked", "refused", "ended", "resulted"}]
      /\ available' \in BOOLEAN /\ result' \in 0..sent
  BY <1>1, SpinRunning DEF halt_result
<1>3. future = None => sent \in cancels'
  BY <1>1 DEF NodeInv, PlaceInv
<1>4. PlaceInv' /\ ResultInv' /\ RestInv' /\ dropped' \subseteq ActionGoal
  BY <1>1, <1>2, <1>3, HaltedRests DEF halt_result
<1>5. NodeTypeOK'
  BY <1>1, <1>2, <1>4 DEF NodeInv, NodeTypeOK, halt_result, halted, return
<1> QED BY <1>2, <1>4, <1>5 DEF NodeInv

LEMMA StutterInv == ASSUME NodeInv, UNCHANGED actionVars PROVE NodeInv'
BY DEF NodeInv, NodeTypeOK, ClientInv, PlaceInv, ResultInv, RestInv, actionVars, placeVars, resultVars

\* tick(), halt() and the callbacks preserve the inductive invariant: future and handle belong
\* to the last goal sent, and so does a result that is available.
THEOREM NodeInvariant == NodeSpec => []NodeInv
<1>1. NodeInv /\ [NodeNext]_actionVars => NodeInv'
  BY ServerInv, TickIdleInv, TickRunningInv, AcknowledgeTimeoutInv, CompleteInv, WaitInv,
     TickSpinInv, TickReportInv, HaltInv, HaltCancelInv, HaltResultInv, StutterInv
  DEF NodeNext, ticked
<1> QED BY InitNodeInv, <1>1, PTL DEF NodeSpec

-----------------------------------------------------------------------------
\* However many goals are sent, and whatever arrives late or not at all, tick(), halt() and
\* the result callback never use a null goal_handle_.
THEOREM HandleTheorem == NodeSpec => []HandleIsSet
<1>1. NodeInv => HandleIsSet
  BY MaxSentAssumption DEF NodeInv, NodeTypeOK, PlaceInv, HandleIsSet
<1> QED BY NodeInvariant, <1>1, PTL

\* tick() reports the outcome of the last goal it sent and of no other.
THEOREM ReportsTheorem == NodeSpec => []ReportsLastGoal
<1>1. NodeInv => ReportsLastGoal
  BY MaxSentAssumption DEF NodeInv, NodeTypeOK, ClientInv, PlaceInv, ResultInv, ReportsLastGoal, ActionGoal
<1> QED BY NodeInvariant, <1>1, PTL

\* A node at rest has its last goal ended, canceled or given up before it was acknowledged.
THEOREM ForgottenTheorem == NodeSpec => []NoForgottenGoal
<1>1. NodeInv => NoForgottenGoal
  BY DEF NodeInv, RestInv, NoForgottenGoal, Server!ActiveStatus, Server!FinalStatus
<1> QED BY NodeInvariant, <1>1, PTL

=============================================================================
