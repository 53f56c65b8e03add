-------------------------- MODULE LifecycleManager --------------------------
(***************************************************************************)
(* nav2_lifecycle_manager: brings the managed nodes up and down in order,  *)
(* watches them through bonds, and restarts them after a crash.            *)
(*                                                                         *)
(* Its services and timers run on one thread (service_thread_), so one     *)
(* operation is under way at a time; but every operation is a row of       *)
(* blocking calls to the managed nodes, between which nodes crash, are     *)
(* respawned, and lose their bonds.  An action is one such call.           *)
(*                                                                         *)
(* LifecycleServiceClient::change_state() reports success whenever a       *)
(* response arrives, whatever the response says: a transition that failed  *)
(* is noticed only by the get_state() that follows.                        *)
(*                                                                         *)
(* The state begins after init_timer_ has created the service clients.     *)
(***************************************************************************)
EXTENDS Integers, Sequences

CONSTANTS
  N,               \* number of node_names_; a node is its place in the list
  BondEnabled,     \* bond_timeout > 0
  AttemptRespawn   \* attempt_respawn_reconnection

ASSUME ParametersAssumption ==
  N \in Nat \ {0} /\ BondEnabled \in BOOLEAN /\ AttemptRespawn \in BOOLEAN

VARIABLES
  node,           \* the lifecycle state of each managed node, or "down"
  peer,           \* the node side of its bond is beating
  managed_state,  \* managed_nodes_state_
  clients,        \* the pointers of node_map_ are set
  bond_map,       \* the bond of each node, or "none"
  bond_timer,     \* bond_timer_ is set
  respawn_timer,  \* bond_respawn_timer_ is set
  respawn_begun,  \* bond_respawn_start_time_ is not zero
  op,             \* the operation the service thread is in the middle of
  rcl             \* the rcl context: "up", "stopping" or "down"

nodeVars == <<node, peer>>
timerVars == <<bond_timer, respawn_timer, respawn_begun>>
vars == <<nodeVars, managed_state, clients, bond_map, timerVars, op, rcl>>

Node == 1..N

-----------------------------------------------------------------------------
(* Transitions and operations.                                             *)

\* The state a transition starts from (rclcpp_lifecycle) and the one it leads
\* to (transition_state_map_).
Source(t) ==
  CASE t \in {"configure", "shutdown"}  -> "unconfigured"
    [] t \in {"activate", "cleanup"}    -> "inactive"
    [] t = "deactivate"                 -> "active"

transition_state(t) ==
  CASE t \in {"configure", "deactivate"} -> "inactive"
    [] t = "activate"                    -> "active"
    [] t = "cleanup"                     -> "unconfigured"
    [] t = "shutdown"                    -> "finalized"

Command == {"startup", "shutdown", "reset", "pause", "resume"}

\* The calls of changeStateForAllNodes() each operation makes.
Passes(cmd) ==
  CASE cmd = "startup"                 -> <<"configure", "activate">>
    [] cmd \in {"reset", "hard_reset"} -> <<"deactivate", "cleanup">>
    [] cmd = "pause"                   -> <<"deactivate">>
    [] cmd = "resume"                  -> <<"activate">>
    [] cmd = "shutdown"                -> <<"deactivate", "cleanup", "shutdown">>

Idle == [cmd |-> "none", pass |-> 1, i |-> 1, pc |-> "idle"]
Begin(cmd) == [cmd |-> cmd, pass |-> 1, i |-> 1, pc |-> "call"]

\* A null pointer was dereferenced: the process is gone.
Crashed == [Idle EXCEPT !.pc = "crashed"]

Transition == Passes(op.cmd)[op.pass]

\* The node the loop of changeStateForAllNodes() is at: in bring-up order for
\* configure and activate, in reverse order otherwise.
Target == IF Transition \in {"configure", "activate"} THEN op.i ELSE N + 1 - op.i

at(pc) == op.cmd # "none" /\ op.pc = pc

-----------------------------------------------------------------------------
Init ==
  /\ node = [n \in Node |-> "unconfigured"]
  /\ peer = [n \in Node |-> FALSE]
  /\ managed_state = "unconfigured"
  /\ clients = TRUE
  /\ bond_map = [n \in Node |-> "none"]
  /\ bond_timer = FALSE
  /\ respawn_timer = FALSE
  /\ respawn_begun = FALSE
  /\ op = Idle
  /\ rcl = "up"

-----------------------------------------------------------------------------
(* The end of an operation, with bonds the value of bond_map_ it leaves.   *)

\* Mutant: the bond timer is created by startup() only.
resumed_unwatched(ok) ==
  IF ok
  THEN managed_state' = "active" /\ bond_timer' = (bond_timer \/ op.cmd = "startup")
  ELSE managed_state' = "unknown" /\ UNCHANGED bond_timer

started(ok) ==
  IF ok
  THEN managed_state' = "active" /\ bond_timer' = (bond_timer \/ BondEnabled)
  ELSE managed_state' = "unknown" /\ UNCHANGED bond_timer

\* Mutant: bond_map_ is not cleared.
hard_reset_keeping_bonds(bonds) ==
  /\ managed_state' = "unconfigured"
  /\ bond_map' = bonds
  /\ respawn_timer' = (respawn_timer \/ AttemptRespawn)

\* checkBondConnections() after reset(true): the bonds are cleared and the
\* respawn timer starts.
hard_reset_done(bonds) ==
  /\ managed_state' = "unconfigured"
  /\ bond_map' = [n \in Node |-> "none"]
  /\ respawn_timer' = (respawn_timer \/ AttemptRespawn)

finish(ok, bonds) ==
  /\ op' = Idle
  /\ \/ /\ op.cmd \in {"startup", "resume"}
        /\ started(ok)
        /\ bond_map' = bonds
        /\ UNCHANGED <<clients, respawn_timer>>
     \/ /\ op.cmd \in {"reset", "pause"}
        /\ managed_state' = IF ~ok THEN "unknown"
                            ELSE IF op.cmd = "reset" THEN "unconfigured" ELSE "inactive"
        /\ bond_map' = bonds
        /\ UNCHANGED <<clients, bond_timer, respawn_timer>>
     \/ /\ op.cmd = "hard_reset"
        /\ hard_reset_done(bonds)
        /\ UNCHANGED <<clients, bond_timer>>
     \/ /\ op.cmd = "shutdown"
        /\ clients' = FALSE
        /\ bond_map' = bonds
        /\ UNCHANGED <<managed_state, bond_timer, respawn_timer>>

\* changeStateForAllNodes() returns.  shutdownAllNodes() ignores the result.
pass_done(ok, bonds) ==
  IF (ok \/ op.cmd = "shutdown") /\ op.pass < Len(Passes(op.cmd))
  THEN /\ op' = [op EXCEPT !.pass = @ + 1, !.i = 1, !.pc = "call"]
       /\ bond_map' = bonds
       /\ UNCHANGED <<managed_state, clients, bond_timer, respawn_timer>>
  ELSE finish(ok, bonds)

\* Mutant: every change is a hard change.
node_done_always_hard(result, bonds) ==
  CASE result = "throw"
         -> pass_done(FALSE, bonds)
    [] OTHER
         -> IF op.i < N
            THEN /\ op' = [op EXCEPT !.i = @ + 1, !.pc = "call"]
                 /\ bond_map' = bonds
                 /\ UNCHANGED <<managed_state, clients, bond_timer, respawn_timer>>
            ELSE pass_done(TRUE, bonds)

\* changeStateForNode() returns true or false, or throws.
node_done(result, bonds) ==
  CASE result = "throw" \/ (result = "false" /\ op.cmd # "hard_reset")
         -> pass_done(FALSE, bonds)
    [] OTHER
         -> IF op.i < N
            THEN /\ op' = [op EXCEPT !.i = @ + 1, !.pc = "call"]
                 /\ bond_map' = bonds
                 /\ UNCHANGED <<managed_state, clients, bond_timer, respawn_timer>>
            ELSE pass_done(TRUE, bonds)

\* Destroying a Bond ends the node's side of it as well.
release ==
  peer' = [n \in Node |-> peer[n] /\ ~(bond_map[n] # "none" /\ bond_map'[n] = "none")]

returns(result, bonds) ==
  node_done(result, bonds) /\ release /\ UNCHANGED respawn_begun

goto(pc) ==
  /\ op' = [op EXCEPT !.pc = pc]
  /\ UNCHANGED <<peer, managed_state, clients, bond_map, timerVars>>

-----------------------------------------------------------------------------
(* changeStateForNode(), call by call.                                     *)

\* change_state() waits up to 5 s for the node's service, and throws.
wait_for_service ==
  /\ at("call")
  /\ IF ~clients
     THEN /\ op' = Crashed
          /\ UNCHANGED <<peer, managed_state, clients, bond_map, timerVars>>
     ELSE IF node[Target] = "down"
     THEN returns("throw", bond_map)
     ELSE goto("send")
  /\ UNCHANGED <<node, rcl>>

\* invoke() waits for the service again, without a limit, and sends.
send_request ==
  /\ at("send")
  /\ node[Target] # "down"
  /\ goto("sent")
  /\ UNCHANGED <<node, rcl>>

\* The node runs the transition and replies.  Its callback succeeds, fails
\* (the node stays where it was) or raises an error (LifecycleNode::on_error
\* takes it to unconfigured); a transition that does not start in the node's
\* state is refused.  createBond() ends on_activate, destroyBond() ends
\* on_deactivate.
change_state ==
  LET n == Target
      t == Transition
      succeeds ==
        /\ node' = [node EXCEPT ![n] = transition_state(t)]
        /\ peer' = [peer EXCEPT ![n] = CASE t = "activate"   -> TRUE
                                         [] t = "deactivate" -> FALSE
                                         [] OTHER            -> @]
        /\ bond_map' = [bond_map EXCEPT ![n] =
             IF @ = "formed" /\ t \in {"activate", "deactivate"} THEN "lost" ELSE @]
  IN  /\ at("sent")
      /\ op' = [op EXCEPT !.pc = "verify"]
      /\ IF node[n] = Source(t)
         THEN \/ succeeds
              \/ UNCHANGED <<nodeVars, bond_map>>
              \/ /\ node' = [node EXCEPT ![n] = "unconfigured"]
                 /\ UNCHANGED <<peer, bond_map>>
         ELSE UNCHANGED <<nodeVars, bond_map>>
      /\ UNCHANGED <<managed_state, clients, timerVars, rcl>>

\* get_state() throws after 2 s without an answer.
get_state ==
  /\ at("verify")
  /\ IF node[Target] = "down"
     THEN returns("throw", bond_map)
     ELSE IF node[Target] # transition_state(Transition)
     THEN returns("false", bond_map)
     ELSE IF Transition = "activate"
     THEN goto("bond")
     ELSE returns("true", IF Transition = "deactivate"
                          THEN [bond_map EXCEPT ![Target] = "none"]
                          ELSE bond_map)
  /\ UNCHANGED <<node, rcl>>

\* A bond is created unless there is one; it forms within half the bond
\* timeout or the node counts as unreachable, and the bond keeps waiting.
createBondConnection ==
  /\ at("bond")
  /\ \/ /\ ~BondEnabled \/ bond_map[Target] # "none"
        /\ returns("true", bond_map)
     \/ /\ BondEnabled /\ bond_map[Target] = "none"
        /\ peer[Target]
        /\ returns("true", [bond_map EXCEPT ![Target] = "formed"])
     \/ /\ BondEnabled /\ bond_map[Target] = "none"
        /\ returns("false", [bond_map EXCEPT ![Target] = "waiting"])
  /\ UNCHANGED <<node, rcl>>

-----------------------------------------------------------------------------
(* What starts an operation on the service thread.                         *)

free == op = Idle /\ rcl = "up"

managerCallback(cmd) ==
  /\ free
  /\ op' = Begin(cmd)
  /\ bond_timer' = (bond_timer /\ cmd \in {"startup", "resume"})
  /\ managed_state' = IF cmd = "shutdown" THEN "finalized" ELSE managed_state
  /\ UNCHANGED <<nodeVars, clients, bond_map, respawn_timer, respawn_begun, rcl>>

Broken == {n \in Node : bond_map[n] = "broken"}
Missing == {n \in Node : bond_map[n] = "none"}

\* Mutant: only the first node is looked at.
checkBondConnections_first ==
  /\ free
  /\ bond_timer
  /\ managed_state = "active"
  /\ 1 \in Broken
  /\ op' = Begin("hard_reset") /\ bond_timer' = FALSE
  /\ UNCHANGED <<nodeVars, managed_state, clients, bond_map, respawn_timer,
                 respawn_begun, rcl>>

\* The first node of the list whose bond is broken, or null, decides; the
\* callback changes nothing when there is none.
checkBondConnections ==
  /\ free
  /\ bond_timer
  /\ managed_state = "active"
  /\ Missing # Node
  /\ \E n \in Broken \cup Missing :
       /\ \A m \in Broken \cup Missing : n <= m
       /\ IF n \in Missing
          THEN op' = Crashed /\ UNCHANGED bond_timer
          ELSE op' = Begin("hard_reset") /\ bond_timer' = FALSE
  /\ UNCHANGED <<nodeVars, managed_state, clients, bond_map, respawn_timer,
                 respawn_begun, rcl>>

\* Time is not measured: any attempt but the first may be past
\* bond_respawn_max_duration_.
checkBondRespawnConnection ==
  /\ free
  /\ respawn_timer
  /\ \/ /\ managed_state = "active"
        /\ respawn_timer' = FALSE /\ respawn_begun' = FALSE
        /\ UNCHANGED op
     \/ /\ managed_state # "active" /\ ~clients
        /\ op' = Crashed
        /\ UNCHANGED <<respawn_timer, respawn_begun>>
     \/ /\ managed_state # "active" /\ clients
        /\ \A n \in Node : node[n] # "down"
        /\ op' = Begin("startup")
        /\ respawn_timer' = FALSE /\ respawn_begun' = FALSE
     \/ /\ managed_state # "active" /\ clients
        /\ \E n \in Node : node[n] = "down"
        /\ UNCHANGED op
        /\ \/ respawn_begun' = TRUE /\ UNCHANGED respawn_timer
           \/ respawn_begun /\ respawn_timer' = FALSE /\ respawn_begun' = FALSE
  /\ UNCHANGED <<nodeVars, managed_state, clients, bond_map, bond_timer, rcl>>

\* onRclPreshutdown() runs on another thread: it cancels the bond timer and
\* the executor of the service thread, waits for the thread, and then clears.
onRclPreshutdown ==
  /\ rcl = "up"
  /\ op.pc # "crashed"
  /\ bond_timer' = FALSE
  /\ rcl' = "stopping"
  /\ UNCHANGED <<nodeVars, managed_state, clients, bond_map, respawn_timer,
                 respawn_begun, op>>

preshutdown_clear ==
  /\ rcl = "stopping"
  /\ op = Idle
  /\ rcl' = "down"
  /\ clients' = FALSE
  /\ bond_map' = [n \in Node |-> "none"]
  /\ release
  /\ UNCHANGED <<node, managed_state, timerVars, op>>

-----------------------------------------------------------------------------
(* The managed nodes and their bonds.                                      *)

\* A node crashes; a request it had not answered is lost, and the service
\* thread waits for the answer for ever.
crash(n) ==
  /\ node[n] # "down"
  /\ node' = [node EXCEPT ![n] = "down"]
  /\ peer' = [peer EXCEPT ![n] = FALSE]
  /\ bond_map' = [bond_map EXCEPT ![n] = IF @ = "formed" THEN "lost" ELSE @]
  /\ op' = IF at("sent") /\ Target = n THEN [op EXCEPT !.pc = "hung"] ELSE op
  /\ UNCHANGED <<managed_state, clients, timerVars, rcl>>

respawn(n) ==
  /\ node[n] = "down"
  /\ node' = [node EXCEPT ![n] = "unconfigured"]
  /\ UNCHANGED <<peer, managed_state, clients, bond_map, timerVars, op, rcl>>

\* A bond that was waiting forms after all.
bond_forms(n) ==
  /\ bond_map[n] = "waiting" /\ peer[n]
  /\ bond_map' = [bond_map EXCEPT ![n] = "formed"]
  /\ UNCHANGED <<nodeVars, managed_state, clients, timerVars, op, rcl>>

\* Heartbeats stay away for the bond timeout: the other side is gone, or only
\* slow.
bond_breaks(n) ==
  /\ bond_map[n] \in {"waiting", "formed", "lost"}
  /\ bond_map' = [bond_map EXCEPT ![n] = "broken"]
  /\ peer' = [peer EXCEPT ![n] = @ /\ bond_map[n] = "lost"]
  /\ UNCHANGED <<node, managed_state, clients, timerVars, op, rcl>>

silent(n) == bond_map[n] = "lost" \/ (bond_map[n] = "waiting" /\ ~peer[n])

-----------------------------------------------------------------------------
serviceThread ==
  \/ wait_for_service \/ send_request \/ change_state \/ get_state
  \/ createBondConnection

Next ==
  \/ serviceThread
  \/ \E cmd \in Command : managerCallback(cmd)
  \/ checkBondConnections \/ checkBondRespawnConnection
  \/ onRclPreshutdown \/ preshutdown_clear
  \/ \E n \in Node : crash(n) \/ respawn(n) \/ bond_forms(n) \/ bond_breaks(n)

\* The service thread is scheduled, its timers fire although commands keep
\* coming, and a bond without heartbeats breaks.
Fairness ==
  /\ WF_vars(serviceThread)
  /\ SF_vars(checkBondConnections)
  /\ \A n \in Node : WF_vars(silent(n) /\ bond_breaks(n))

Spec == Init /\ [][Next]_vars
FairSpec == Spec /\ Fairness

-----------------------------------------------------------------------------
(* Properties.                                                             *)

Operation ==
  [cmd : Command \cup {"none", "hard_reset"}, pass : 1..3, i : Node,
   pc : {"idle", "call", "send", "sent", "verify", "bond", "hung", "crashed"}]

TypeOK ==
  /\ node \in [Node -> {"unconfigured", "inactive", "active", "finalized", "down"}]
  /\ peer \in [Node -> BOOLEAN]
  /\ managed_state \in {"unconfigured", "active", "inactive", "finalized", "unknown"}
  /\ clients \in BOOLEAN
  /\ bond_map \in [Node -> {"none", "waiting", "formed", "lost", "broken"}]
  /\ bond_timer \in BOOLEAN /\ respawn_timer \in BOOLEAN /\ respawn_begun \in BOOLEAN
  /\ op \in Operation
  /\ rcl \in {"up", "stopping", "down"}

\* Between operations, a system reported active (isActive) has a bond entry for
\* every node and the timer that watches them: checkBondConnections indexes
\* bond_map_ with every node name and only looks whether the map is empty.
ActiveIsWatched ==
  free /\ managed_state = "active" /\ BondEnabled => bond_timer /\ Missing = {}

\* A node that is not active although the system is reported active has lost
\* its bond: no failure, at whichever call of whichever operation it struck,
\* is hidden behind a bond that looks healthy.
FailureIsVisible ==
  free /\ managed_state = "active" /\ BondEnabled =>
    \A n \in Node : node[n] # "active" => bond_map[n] # "formed"

\* After a pause or a reset, hard ones included, no bond is left over, so that
\* the next activation makes its own instead of trusting an old one.
NoBondLeftOver ==
  free /\ managed_state \in {"inactive", "unconfigured"} =>
    Missing = Node /\ ~bond_timer

\* The service thread waits, without a limit, for a lost reply or for a service
\* that is gone.
Blocked == op.pc = "hung" \/ (at("send") /\ node[Target] = "down")

\* A node that fails while the system is active is noticed: the system does not
\* stay reported active, unless the service thread is blocked in a call or the
\* process is being shut down.
FailureIsNoticed ==
  \A n \in Node :
    (managed_state = "active" /\ BondEnabled /\ node[n] # "active")
      ~> (managed_state # "active" \/ Blocked \/ rcl # "up" \/ node[n] = "active")

\* changeStateForAllNodes: "Hard change will continue even if a node fails".
\* So a hard reset ends only when the last node was cleaned up.
HardChangeContinues ==
  [][op.cmd = "hard_reset" /\ op'.cmd = "none" => op.pass = 2 /\ op.i = N]_vars

\* shutdown(): "Deactivate, clean up and shut down all the managed nodes."  So
\* once it has returned, none of them is active.
ShutdownDeactivates ==
  free /\ managed_state = "finalized" => \A n \in Node : node[n] # "active"

=============================================================================
