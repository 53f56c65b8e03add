------------------------------ MODULE NodeProofs ------------------------------
(*****************************************************************************)
(* Theorems about the lifecycle manager, for any number of managed nodes,    *)
(* and about one of the nodes it manages, the costmap, for any number of     *)
(* cells, inflation radius and maps.                                         *)
(*****************************************************************************)
EXTENDS LifecycleManager, Costmap2DROS, TLAPS

-------------------------------------------------------------------------------
(* The lifecycle manager.                                                    *)

Bond == {"none", "waiting", "formed", "lost", "broken"}

\* A bond that is formed, or that may still form, has an active node behind it.
Sound(n) ==
  bond_map[n] = "formed" \/ (bond_map[n] \in {"none", "waiting"} /\ peer[n])
    => node[n] = "active"

Types ==
  /\ node \in [Node -> {"unconfigured", "inactive", "active", "finalized", "down"}]
  /\ peer \in [Node -> BOOLEAN]
  /\ bond_map \in [Node -> Bond]
  /\ bond_timer \in BOOLEAN

\* The operation under way is at a node of the list and in one of its passes.
OpInv ==
  /\ op \in Operation
  /\ op.cmd = "none" => op \in {Idle, Crashed}
  /\ op.cmd # "none" => /\ op.pc \notin {"idle", "crashed"}
                        /\ op.pass \in 1..Len(Passes(op.cmd))
                        /\ op.pc = "bond" => Transition = "activate"
  /\ op.cmd = "shutdown" => managed_state = "finalized"
  /\ op.cmd \in {"reset", "pause", "hard_reset"} => ~bond_timer

\* An activation has gone through the nodes before op.i, and each has a sound bond.
ActivateInv ==
  BondEnabled /\ op.cmd # "none" /\ Transition = "activate" =>
    /\ \A n \in Node : n < op.i => bond_map[n] # "none" /\ Sound(n)
    /\ op.pc = "bond" => Sound(op.i)

\* A deactivation that must not fail has released the bonds of the nodes after Target.
DeactivateInv ==
  op.cmd \in {"reset", "pause"} =>
    \A n \in Node : Transition # "deactivate" \/ n > N + 1 - op.i => bond_map[n] = "none"

\* Between operations.
RestInv ==
  free =>
    /\ managed_state = "active" /\ BondEnabled =>
         bond_timer /\ \A n \in Node : bond_map[n] # "none" /\ Sound(n)
    /\ managed_state \in {"inactive", "unconfigured"} =>
         ~bond_timer /\ \A n \in Node : bond_map[n] = "none"

Inv == Types /\ OpInv /\ ActivateInv /\ DeactivateInv /\ RestInv

LEMMA PassFacts ==
  ASSUME NEW cmd \in Command \cup {"hard_reset"}
  PROVE  /\ Len(Passes(cmd)) \in 1..3
         /\ \A p \in 1..Len(Passes(cmd)) :
              Passes(cmd)[p] \in {"configure", "activate", "deactivate", "cleanup", "shutdown"}
         /\ cmd \in {"startup", "resume"} => Passes(cmd)[Len(Passes(cmd))] = "activate"
         /\ cmd = "startup" => Passes(cmd)[1] = "configure" /\ Len(Passes(cmd)) = 2
         /\ cmd \notin {"startup", "resume"} =>
              \A p \in 1..Len(Passes(cmd)) : Passes(cmd)[p] # "activate"
         /\ cmd \in {"reset", "pause"} => Passes(cmd)[1] = "deactivate"
         /\ cmd = "reset" => Len(Passes(cmd)) = 2 /\ Passes(cmd)[2] = "cleanup"
         /\ cmd = "pause" => Len(Passes(cmd)) = 1
BY DEF Command, Passes

LEMMA InitInv == Init => Inv
<1> SUFFICES ASSUME Init PROVE Inv
  OBVIOUS
<1>1. Types
  BY Zenon DEF Init, Types, Bond
<1>2. op \in Operation /\ op = Idle
  BY ParametersAssumption DEF Init, Operation, Idle, Node
<1>3. OpInv /\ ActivateInv /\ DeactivateInv
  BY <1>2 DEF OpInv, ActivateInv, DeactivateInv, Idle
<1>4. RestInv
  BY DEF Init, RestInv
<1> QED BY <1>1, <1>3, <1>4 DEF Inv

\* A begun operation is none of the idle states.
LEMMA BeginFacts ==
  ASSUME NEW cmd \in Command \cup {"hard_reset"}, op' = Begin(cmd)
  PROVE  /\ op' \in Operation /\ op' # Idle
         /\ op'.cmd = cmd /\ op'.pc = "call" /\ op'.pass = 1 /\ op'.i = 1
         /\ op'.pass \in 1..Len(Passes(cmd))
<1>1. Len(Passes(cmd)) \in 1..3
  BY PassFacts
<1>2. op'.cmd = cmd /\ op'.pc = "call" /\ op'.pass = 1 /\ op'.i = 1
  BY DEF Begin
<1>3. cmd # "none" /\ 1 \in Node
  BY ParametersAssumption DEF Command, Node
<1>4. op' \in Operation
  BY <1>3 DEF Begin, Operation
<1>5. op' # Idle
  BY <1>2, <1>3 DEF Idle
<1>6. op'.pass \in 1..Len(Passes(cmd))
  <2>1. \A k \in 1..3 : 1 \in 1..k
    OBVIOUS
  <2> QED BY <1>1, <1>2, <2>1, Zenon
<1> QED BY <1>2, <1>4, <1>5, <1>6

\* A transition with nothing done so far.
LEMMA BeginInv ==
  ASSUME NEW cmd \in Command \cup {"hard_reset"}, op' = Begin(cmd), Types',
         cmd = "shutdown" => managed_state' = "finalized",
         cmd \in {"reset", "pause", "hard_reset"} => ~bond_timer'
  PROVE  Inv'
<1>0. cmd # "none" /\ N \in Nat \ {0}
  BY ParametersAssumption DEF Command
<1>1. OpInv'
  BY <1>0, BeginFacts DEF OpInv
<1>2. ActivateInv'
  BY <1>0, BeginFacts DEF ActivateInv, Node
<1>3. DeactivateInv'
  BY <1>0, BeginFacts, PassFacts DEF DeactivateInv, Transition, Node
<1>4. RestInv'
  BY BeginFacts, Zenon DEF RestInv, free
<1> QED BY <1>1, <1>2, <1>3, <1>4 DEF Inv

-----------------------------------------------------------------------------
(* The nodes and their bonds, which act between any two calls.             *)

LEMMA CrashInv == ASSUME Inv, NEW m \in Node, crash(m) PROVE Inv'
<1>1. Types'
  BY DEF Inv, Types, crash, timerVars, Bond
<1>2. \A n \in Node : Sound(n) => Sound(n)'
  BY DEF Inv, Types, crash, Sound, Bond
<1>3. \A n \in Node : bond_map'[n] = "none" <=> bond_map[n] = "none"
  BY DEF Inv, Types, crash, Bond
<1>4. /\ UNCHANGED <<managed_state, clients, timerVars, rcl>>
      /\ op' = op \/ (at("sent") /\ op' = [op EXCEPT !.pc = "hung"])
  BY DEF crash
<1>5. CASE op' = op
  <2>1. OpInv' /\ ActivateInv' /\ DeactivateInv' /\ RestInv'
    BY <1>2, <1>3, <1>4, <1>5 DEF Inv, OpInv, ActivateInv, DeactivateInv, RestInv, free, Transition,
      timerVars, Operation
  <2> QED BY <1>1, <2>1 DEF Inv
<1>6. CASE at("sent") /\ op' = [op EXCEPT !.pc = "hung"]
  <2>1. /\ op' \in Operation /\ op'.cmd = op.cmd /\ op'.cmd # "none" /\ op'.pc = "hung"
        /\ op'.pass = op.pass /\ op'.i = op.i /\ op.i \in Node
    BY <1>6 DEF Inv, OpInv, Operation, at
  <2>2. OpInv' /\ ActivateInv' /\ DeactivateInv'
    BY <1>2, <1>3, <1>4, <2>1 DEF Inv, OpInv, ActivateInv, DeactivateInv, Transition, timerVars
  <2>3. RestInv'
    BY <2>1 DEF RestInv, free, Idle
  <2> QED BY <1>1, <2>2, <2>3 DEF Inv
<1> QED BY <1>4, <1>5, <1>6

\* Steps of a bond or a node that keep sound bonds sound and none a bond of none.
LEMMA AroundInv ==
  ASSUME Inv, Types', UNCHANGED <<managed_state, op>>,
         rcl' = rcl \/ rcl' # "up",
         bond_timer' = bond_timer \/ (bond_timer' = FALSE /\ rcl' # "up"),
         \A n \in Node : Sound(n) => Sound(n)',
         \A n \in Node : bond_map'[n] = "none" <=> bond_map[n] = "none"
  PROVE  Inv'
<1>1. OpInv'
  BY DEF Inv, OpInv, Transition
<1>2. op.cmd # "none" => op.i \in Node
  BY DEF Inv, OpInv, Operation
<1>3. ActivateInv' /\ DeactivateInv'
  BY <1>2 DEF Inv, ActivateInv, DeactivateInv, Transition
<1>4. RestInv'
  BY DEF Inv, RestInv, free
<1> QED BY <1>1, <1>3, <1>4 DEF Inv

LEMMA BondsInv ==
  ASSUME Inv, NEW m \in Node, respawn(m) \/ bond_forms(m) \/ bond_breaks(m) PROVE Inv'
<1>1. Types' /\ UNCHANGED <<managed_state, op, rcl, bond_timer>>
  BY Zenon DEF Inv, Types, respawn, bond_forms, bond_breaks, nodeVars, timerVars, Bond
<1>2. /\ \A n \in Node : Sound(n) => Sound(n)'
      /\ \A n \in Node : bond_map'[n] = "none" <=> bond_map[n] = "none"
  BY DEF Inv, Types, respawn, bond_forms, bond_breaks, nodeVars, Sound, Bond
<1> QED BY <1>1, <1>2, AroundInv

-----------------------------------------------------------------------------
(* What starts an operation, and the end of the process.                   *)

LEMMA CallbackInv == ASSUME Inv, NEW cmd \in Command, managerCallback(cmd) PROVE Inv'
<1>1. op' = Begin(cmd) /\ (cmd = "shutdown" => managed_state' = "finalized")
  BY DEF managerCallback
<1>2. bond_timer' \in BOOLEAN /\ (cmd \in {"reset", "pause", "hard_reset"} => ~bond_timer')
  BY Zenon DEF Inv, Types, managerCallback
<1>3. Types'
  BY <1>2 DEF Inv, Types, managerCallback, nodeVars
<1> QED BY <1>1, <1>2, <1>3, BeginInv

LEMMA CrashedInv == ASSUME op' = Crashed, Types' PROVE Inv'
<1>1. op' \in Operation /\ op'.cmd = "none" /\ op'.pc = "crashed"
  BY ParametersAssumption DEF Crashed, Idle, Operation, Node
<1>2. OpInv' /\ ActivateInv' /\ DeactivateInv'
  BY <1>1 DEF OpInv, ActivateInv, DeactivateInv
<1>3. RestInv'
  BY <1>1 DEF RestInv, free, Idle
<1> QED BY <1>2, <1>3 DEF Inv

LEMMA CheckInv == ASSUME Inv, checkBondConnections PROVE Inv'
<1>1. UNCHANGED <<nodeVars, managed_state, bond_map, rcl>>
  BY DEF checkBondConnections
<1>2. CASE op' = Begin("hard_reset") /\ bond_timer' = FALSE
  <2>1. Types'
    BY <1>1, <1>2, Zenon DEF Inv, Types, nodeVars
  <2> QED BY <1>2, <2>1, BeginInv
<1>3. CASE op' = Crashed /\ UNCHANGED bond_timer
  <2>1. Types'
    BY <1>1, <1>3 DEF Inv, Types, nodeVars
  <2> QED BY <1>3, <2>1, CrashedInv
<1> QED BY <1>2, <1>3, Zenon DEF checkBondConnections

LEMMA RespawnCheckInv == ASSUME Inv, checkBondRespawnConnection PROVE Inv'
<1>1. UNCHANGED <<nodeVars, managed_state, bond_map, bond_timer, rcl>>
  BY DEF checkBondRespawnConnection
<1>2. Types'
  BY <1>1 DEF Inv, Types, nodeVars
<1>3. CASE op' = op
  <2>1. \A n \in Node : Sound(n) => Sound(n)'
    BY <1>1 DEF Sound, nodeVars
  <2> QED BY <1>1, <1>2, <1>3, <2>1, AroundInv
<1>4. CASE op' = Crashed
  BY <1>2, <1>4, CrashedInv
<1>5. CASE op' = Begin("startup")
  BY <1>2, <1>5, BeginInv DEF Command
<1> QED BY <1>3, <1>4, <1>5, Zenon DEF checkBondRespawnConnection

LEMMA PreshutdownInv == ASSUME Inv, onRclPreshutdown PROVE Inv'
<1>1. /\ UNCHANGED <<nodeVars, managed_state, bond_map, op>>
      /\ bond_timer' = FALSE /\ rcl' = "stopping"
  BY DEF onRclPreshutdown
<1>2. Types'
  BY <1>1, Zenon DEF Inv, Types, nodeVars
<1>3. \A n \in Node : Sound(n) => Sound(n)'
  BY <1>1 DEF Sound, nodeVars
<1> QED BY <1>1, <1>2, <1>3, AroundInv, Zenon

LEMMA ClearInv == ASSUME Inv, preshutdown_clear PROVE Inv'
<1>1. Types'
  BY DEF Inv, Types, preshutdown_clear, release, timerVars, Bond
<1>2. op = Idle /\ op' = op /\ rcl' = "down" /\ UNCHANGED <<managed_state, bond_timer>>
  BY DEF preshutdown_clear, timerVars
<1>3. OpInv' /\ ActivateInv' /\ DeactivateInv' /\ RestInv'
  BY <1>2 DEF Inv, OpInv, ActivateInv, DeactivateInv, RestInv, free, Idle
<1> QED BY <1>1, <1>3 DEF Inv

-----------------------------------------------------------------------------
(* The service thread.                                                     *)

\* The next call for the same node.
LEMMA GotoInv ==
  ASSUME Inv, op.cmd # "none", NEW l \in {"send", "sent", "bond"}, goto(l), UNCHANGED <<node, rcl>>,
         l = "bond" => Transition = "activate" /\ Sound(op.i)
  PROVE  Inv'
<1>1. UNCHANGED <<node, peer, managed_state, bond_map, bond_timer, rcl>>
  BY DEF goto, timerVars
<1>2. /\ op' \in Operation /\ op'.cmd = op.cmd /\ op'.pc = l
      /\ op'.pass = op.pass /\ op'.i = op.i
  BY DEF Inv, OpInv, Operation, goto
<1>3. Types'
  BY <1>1 DEF Inv, Types
<1>4. OpInv'
  BY <1>1, <1>2 DEF Inv, OpInv, Transition
<1>5. ActivateInv' /\ DeactivateInv'
  BY <1>1, <1>2 DEF Inv, ActivateInv, DeactivateInv, Transition, Sound
<1>6. RestInv'
  BY <1>2 DEF RestInv, free, Idle
<1> QED BY <1>3, <1>4, <1>5, <1>6 DEF Inv

LEMMA TargetFacts ==
  ASSUME OpInv, op.cmd # "none"
  PROVE  /\ op.i \in Node /\ Target \in Node /\ op.cmd \in Command \cup {"hard_reset"}
         /\ Transition \in {"configure", "activate", "deactivate", "cleanup", "shutdown"}
         /\ Transition = "activate" => Target = op.i
         /\ Transition = "deactivate" => Target = N + 1 - op.i
<1>1. op.i \in Node /\ op.cmd \in Command \cup {"hard_reset"}
  BY DEF OpInv, Operation
<1>2. Transition \in {"configure", "activate", "deactivate", "cleanup", "shutdown"}
  BY <1>1, PassFacts DEF OpInv, Transition
<1> QED BY <1>1, <1>2, ParametersAssumption DEF Target, Node

\* The transition of a node touches the node that is the target and makes no bond.
LEMMA ChangeStateInv == ASSUME Inv, change_state PROVE Inv'
<1>0. op.cmd # "none" /\ UNCHANGED <<managed_state, bond_timer, rcl>>
  BY DEF change_state, at, timerVars
<1>1. /\ op.i \in Node /\ Target \in Node
      /\ Transition \in {"configure", "activate", "deactivate", "cleanup", "shutdown"}
      /\ Transition = "activate" => Target = op.i
  BY <1>0, TargetFacts DEF Inv
<1>2. /\ op' \in Operation /\ op'.cmd = op.cmd /\ op'.pc = "verify"
      /\ op'.pass = op.pass /\ op'.i = op.i
  BY DEF Inv, OpInv, Operation, change_state
<1>3. /\ node' \in [Node -> {"unconfigured", "inactive", "active", "finalized", "down"}]
      /\ \A n \in Node : n # Target => node'[n] = node[n]
  <2>1. node' = node \/ (\E s \in {"unconfigured", "inactive", "active", "finalized"} :
                            node' = [node EXCEPT ![Target] = s])
    BY <1>1, Zenon DEF change_state, nodeVars, transition_state
  <2> QED BY <1>1, <2>1 DEF Inv, Types
<1>4. /\ peer' \in [Node -> BOOLEAN]
      /\ \A n \in Node : n # Target => peer'[n] = peer[n]
  <2>1. peer' = peer \/ peer' = [peer EXCEPT ![Target] = CASE Transition = "activate"   -> TRUE
                                                            [] Transition = "deactivate" -> FALSE
                                                            [] OTHER                     -> @]
    BY Zenon DEF change_state, nodeVars
  <2>2. peer[Target] \in BOOLEAN
    BY <1>1 DEF Inv, Types
  <2>3. (CASE Transition = "activate" -> TRUE [] Transition = "deactivate" -> FALSE
           [] OTHER -> peer[Target]) \in BOOLEAN
    BY <2>2, Zenon
  <2> QED BY <1>1, <2>1, <2>3, Zenon DEF Inv, Types
<1>5. /\ bond_map' \in [Node -> Bond]
      /\ \A n \in Node : n # Target => bond_map'[n] = bond_map[n]
      /\ \A n \in Node : bond_map'[n] = "none" <=> bond_map[n] = "none"
  BY <1>1, Zenon DEF Inv, Types, change_state, Bond
<1>6. Types' /\ OpInv'
  BY <1>0, <1>2, <1>3, <1>4, <1>5 DEF Inv, Types, OpInv
<1>7. ActivateInv'
  <2>1. \A n \in Node : n < op.i /\ Transition = "activate" => n # Target
    BY <1>1 DEF Node
  <2> QED BY <1>0, <1>2, <1>3, <1>4, <1>5, <2>1 DEF Inv, ActivateInv, Transition, Sound
<1>8. DeactivateInv'
  BY <1>2, <1>5 DEF Inv, DeactivateInv, Transition
<1>9. RestInv'
  BY <1>0, <1>2 DEF RestInv, free, Idle
<1> QED BY <1>6, <1>7, <1>8, <1>9 DEF Inv

\* Sound(n) of the bonds that an operation leaves.
SoundIn(bonds, n) ==
  bonds[n] = "formed" \/ (bonds[n] \in {"none", "waiting"} /\ peer[n]) => node[n] = "active"

LEMMA ReleaseFacts ==
  ASSUME Types, release, UNCHANGED node
  PROVE  /\ peer' \in [Node -> BOOLEAN] /\ \A n \in Node : peer'[n] => peer[n]
         /\ \A n \in Node : SoundIn(bond_map', n) => Sound(n)'
<1>1. peer' \in [Node -> BOOLEAN] /\ \A n \in Node : peer'[n] => peer[n]
  BY DEF Types, release
<1> QED BY <1>1 DEF SoundIn, Sound

\* The end of an operation.
LEMMA FinishInv ==
  ASSUME Inv, op.cmd # "none", NEW ok \in BOOLEAN, NEW bonds \in [Node -> Bond],
         finish(ok, bonds), release, UNCHANGED <<node, rcl>>,
         ok /\ op.cmd \in {"startup", "resume"} /\ BondEnabled =>
           \A n \in Node : bonds[n] # "none" /\ SoundIn(bonds, n),
         ok /\ op.cmd \in {"reset", "pause"} => \A n \in Node : bonds[n] = "none"
  PROVE  Inv'
<1>1. op' = Idle /\ op' \in Operation /\ op'.cmd = "none"
  BY ParametersAssumption DEF finish, Idle, Operation, Node
<1>2. bond_map' \in [Node -> Bond] /\ bond_timer' \in BOOLEAN
  BY ParametersAssumption DEF Inv, Types, finish, started, hard_reset_done, Bond
<1>3. Types'
  BY <1>2, ReleaseFacts DEF Inv, Types
<1>4. OpInv' /\ ActivateInv' /\ DeactivateInv'
  BY <1>1 DEF OpInv, ActivateInv, DeactivateInv
<1>5. RestInv'
  <2>1. CASE op.cmd \in {"startup", "resume"}
    <3>1. bond_map' = bonds /\ started(ok)
      BY <2>1 DEF finish
    <3>2. CASE ok
      <4>1. managed_state' = "active" /\ (BondEnabled => bond_timer' = TRUE)
        BY <3>1, <3>2, ParametersAssumption DEF Inv, Types, started
      <4>2. BondEnabled => \A n \in Node : bond_map'[n] # "none" /\ Sound(n)'
        BY <2>1, <3>1, <3>2, ReleaseFacts DEF Inv
      <4> QED BY <4>1, <4>2 DEF RestInv
    <3>3. CASE ~ok
      BY <3>1, <3>3 DEF started, RestInv
    <3> QED BY <3>2, <3>3
  <2>2. CASE op.cmd \in {"reset", "pause"}
    <3>1. ~bond_timer' /\ bond_map' = bonds
      BY <2>2 DEF Inv, OpInv, finish
    <3>2. managed_state' # "active" /\ (~ok => managed_state' = "unknown")
      BY <2>2 DEF finish
    <3> QED BY <2>2, <3>1, <3>2 DEF RestInv
  <2>3. CASE op.cmd = "hard_reset"
    BY <2>3 DEF Inv, OpInv, finish, hard_reset_done, RestInv
  <2>4. CASE op.cmd = "shutdown"
    BY <2>4 DEF Inv, OpInv, finish, RestInv
  <2> QED BY <2>1, <2>2, <2>3, <2>4 DEF Inv, OpInv, Operation, Command
<1> QED BY <1>3, <1>4, <1>5 DEF Inv

\* Where the operation goes from a node: on to the next, to the next pass, or to its end.
\* The bonds it leaves differ from those it found at the target at most; only an activation
\* makes one and only a deactivation takes one away.
LEMMA ReturnsInv ==
  ASSUME Inv, op.cmd # "none", NEW result \in {"true", "false", "throw"}, NEW bonds \in [Node -> Bond],
         returns(result, bonds), UNCHANGED <<node, rcl>>,
         \A n \in Node : n # Target => bonds[n] = bond_map[n],
         Transition # "activate" /\ bond_map[Target] = "none" => bonds[Target] = "none",
         result = "true" /\ Transition = "activate" /\ BondEnabled =>
           bonds[Target] # "none" /\ SoundIn(bonds, Target),
         result = "true" /\ Transition = "deactivate" => bonds[Target] = "none"
  PROVE  Inv'
<1>0. N \in Nat \ {0}
  BY ParametersAssumption
<1>1. /\ op.i \in Node /\ Target \in Node /\ op.cmd \in Command \cup {"hard_reset"}
      /\ Transition = "activate" => Target = op.i
      /\ Transition = "deactivate" => Target = N + 1 - op.i
      /\ op.pass \in 1..Len(Passes(op.cmd))
  BY TargetFacts DEF Inv, OpInv
<1>2. release /\ node_done(result, bonds)
  BY DEF returns
\* What has been done when the target is done.
<1>3. result = "true" /\ Transition = "activate" /\ BondEnabled =>
        \A n \in Node : n <= op.i => bonds[n] # "none" /\ SoundIn(bonds, n)
  <2> SUFFICES ASSUME result = "true", Transition = "activate", BondEnabled, NEW n \in Node, n <= op.i
               PROVE  bonds[n] # "none" /\ SoundIn(bonds, n)
    OBVIOUS
  <2>1. CASE n = Target
    BY <2>1
  <2>2. CASE n # Target
    <3>1. n < op.i
      BY <1>1, <2>2 DEF Node
    <3>2. bond_map[n] # "none" /\ Sound(n)
      BY <3>1 DEF Inv, ActivateInv
    <3> QED BY <2>2, <3>2 DEF Sound, SoundIn
  <2> QED BY <2>1, <2>2
<1>4. result = "true" /\ op.cmd \in {"reset", "pause"} =>
        \A n \in Node : Transition # "deactivate" \/ n >= N + 1 - op.i => bonds[n] = "none"
  <2> SUFFICES ASSUME result = "true", op.cmd \in {"reset", "pause"}, NEW n \in Node,
                      Transition # "deactivate" \/ n >= N + 1 - op.i
               PROVE  bonds[n] = "none"
    OBVIOUS
  <2>0. Transition # "activate"
    BY <1>1, PassFacts DEF Transition
  <2>1. CASE Transition = "deactivate" /\ n = Target
    BY <2>1
  <2>2. CASE Transition # "deactivate" \/ n # Target
    <3>1. Transition # "deactivate" \/ n > N + 1 - op.i
      BY <1>0, <1>1, <2>2 DEF Node
    <3>2. bond_map[n] = "none"
      BY <3>1 DEF Inv, DeactivateInv
    <3> QED BY <2>0, <3>2
  <2> QED BY <2>1, <2>2
<1>5. ASSUME bond_map' = bonds, UNCHANGED <<managed_state, bond_timer>>
      PROVE  Types' /\ \A n \in Node : SoundIn(bonds, n) => Sound(n)'
  BY <1>2, <1>5, ReleaseFacts DEF Inv, Types
\* On to the next node.
<1>6. CASE /\ result = "true" \/ op.cmd = "hard_reset"
           /\ op.i < N
           /\ op' = [op EXCEPT !.i = @ + 1, !.pc = "call"] /\ bond_map' = bonds
           /\ UNCHANGED <<managed_state, bond_timer>>
  <2>1. /\ op' \in Operation /\ op'.cmd = op.cmd /\ op'.pc = "call"
        /\ op'.pass = op.pass /\ op'.i = op.i + 1
    <3>1. op.i + 1 \in Node
      BY <1>0, <1>1, <1>6 DEF Node
    <3> QED BY <1>6, <3>1, Zenon DEF Inv, OpInv, Operation
  <2>2. OpInv'
    BY <1>6, <2>1 DEF Inv, OpInv, Transition
  <2>3. op.cmd = "hard_reset" => Transition # "activate"
    BY <1>1, PassFacts DEF Transition
  <2>4. \A n \in Node : (n < op'.i => n <= op.i) /\ (n > N + 1 - op'.i => n >= N + 1 - op.i)
    BY <1>0, <1>1, <2>1 DEF Node
  <2>5. ActivateInv'
    BY <1>3, <1>5, <1>6, <2>1, <2>3, <2>4 DEF ActivateInv, Transition
  <2>6. DeactivateInv'
    BY <1>4, <1>6, <2>1, <2>4, Zenon DEF DeactivateInv, Transition
  <2>7. RestInv'
    BY <2>1 DEF RestInv, free, Idle
  <2> QED BY <1>5, <1>6, <2>2, <2>5, <2>6, <2>7 DEF Inv
\* All nodes are done, or one has failed.
<1>7. ASSUME NEW ok \in BOOLEAN, pass_done(ok, bonds),
             ok => ~(op.i < N) /\ (result = "true" \/ op.cmd = "hard_reset")
      PROVE  Inv'
  <2>0. ok => op.i = N
    BY <1>0, <1>1, <1>7 DEF Node
  <2>1. CASE (ok \/ op.cmd = "shutdown") /\ op.pass < Len(Passes(op.cmd))
    <3>1. /\ op' = [op EXCEPT !.pass = @ + 1, !.i = 1, !.pc = "call"]
          /\ bond_map' = bonds /\ UNCHANGED <<managed_state, bond_timer>>
      BY <1>7, <2>1 DEF pass_done
    <3>2. Len(Passes(op.cmd)) \in 1..3
      BY <1>1, PassFacts
    <3>3. op.pass + 1 \in 1..Len(Passes(op.cmd)) /\ op.pass + 1 \in 1..3
      <4>1. \A l \in 1..3 : \A p \in 1..l : p < l => p + 1 \in 1..l /\ p + 1 \in 1..3
        OBVIOUS
      <4> QED BY <1>1, <2>1, <3>2, <4>1, Zenon
    <3>4. /\ op' \in Operation /\ op'.cmd = op.cmd /\ op'.pc = "call"
          /\ op'.pass = op.pass + 1 /\ op'.i = 1
      <4>1. 1 \in Node
        BY <1>0 DEF Node
      <4> QED BY <3>1, <3>3, <4>1, Zenon DEF Inv, OpInv, Operation
    <3>5. OpInv'
      BY <3>1, <3>3, <3>4 DEF Inv, OpInv
    <3>6. ActivateInv'
      BY <3>4 DEF ActivateInv, Node
    <3>7. DeactivateInv'
      <4> SUFFICES ASSUME op.cmd \in {"reset", "pause"} PROVE \A n \in Node : bonds[n] = "none"
        BY <3>1, <3>4 DEF DeactivateInv
      <4>1. ok /\ result = "true"
        BY <1>7, <2>1
      <4>2. \A n \in Node : n >= N + 1 - op.i
        BY <1>0, <2>0, <4>1 DEF Node
      <4> QED BY <1>4, <4>1, <4>2
    <3>8. RestInv'
      BY <3>4 DEF RestInv, free, Idle
    <3> QED BY <1>5, <3>1, <3>5, <3>6, <3>7, <3>8 DEF Inv
  <2>2. CASE ~((ok \/ op.cmd = "shutdown") /\ op.pass < Len(Passes(op.cmd)))
    <3>1. finish(ok, bonds)
      BY <1>7, <2>2 DEF pass_done
    <3>2. ok /\ op.cmd \in {"startup", "resume"} /\ BondEnabled =>
            \A n \in Node : bonds[n] # "none" /\ SoundIn(bonds, n)
      <4> SUFFICES ASSUME ok, op.cmd \in {"startup", "resume"}, BondEnabled
                   PROVE  \A n \in Node : bonds[n] # "none" /\ SoundIn(bonds, n)
        OBVIOUS
      <4>1. Len(Passes(op.cmd)) \in 1..3
        BY <1>1, PassFacts
      <4>2. op.pass = Len(Passes(op.cmd))
        BY <1>1, <2>2, <4>1
      <4>3. Transition = "activate"
        BY <1>1, <4>2, PassFacts DEF Transition
      <4>4. result = "true" /\ \A n \in Node : n <= op.i
        BY <1>0, <1>7, <2>0 DEF Node
      <4> QED BY <1>3, <4>3, <4>4
    <3>3. ok /\ op.cmd \in {"reset", "pause"} => \A n \in Node : bonds[n] = "none"
      <4> SUFFICES ASSUME ok, op.cmd \in {"reset", "pause"} PROVE \A n \in Node : bonds[n] = "none"
        OBVIOUS
      <4>1. result = "true" /\ \A n \in Node : n >= N + 1 - op.i
        BY <1>0, <1>7, <2>0 DEF Node
      <4> QED BY <1>4, <4>1
    <3> QED BY <1>2, <3>1, <3>2, <3>3, FinishInv
  <2> QED BY <2>1, <2>2
<1>8. CASE result = "throw" \/ (result = "false" /\ op.cmd # "hard_reset")
  <2>1. pass_done(FALSE, bonds)
    BY <1>2, <1>8, Zenon DEF node_done
  <2> QED BY <1>7, <2>1, Zenon
<1>9. CASE ~(result = "throw" \/ (result = "false" /\ op.cmd # "hard_reset"))
  <2>1. result = "true" \/ op.cmd = "hard_reset"
    BY <1>9
  <2>2. CASE op.i < N
    <3>1. /\ op' = [op EXCEPT !.i = @ + 1, !.pc = "call"] /\ bond_map' = bonds
          /\ UNCHANGED <<managed_state, bond_timer>>
      BY <1>2, <1>9, <2>2 DEF node_done
    <3> QED BY <1>6, <2>1, <2>2, <3>1
  <2>3. CASE ~(op.i < N)
    <3>1. pass_done(TRUE, bonds)
      BY <1>2, <1>9, <2>3, Zenon DEF node_done
    <3> QED BY <1>7, <2>1, <2>3, <3>1, Zenon
  <2> QED BY <2>2, <2>3
<1> QED BY <1>8, <1>9

LEMMA ServiceThreadInv == ASSUME Inv, serviceThread PROVE Inv'
<1>0. op.cmd # "none"
  BY Zenon DEF serviceThread, wait_for_service, send_request, change_state, get_state, createBondConnection, at
<1>1. /\ op.i \in Node /\ Target \in Node
      /\ Transition = "activate" => Target = op.i
      /\ bond_map \in [Node -> Bond]
  BY <1>0, TargetFacts DEF Inv, Types
<1>2. CASE wait_for_service
  <2>1. UNCHANGED <<node, rcl>>
    BY <1>2 DEF wait_for_service
  <2>2. CASE op' = Crashed /\ UNCHANGED <<peer, bond_map, timerVars>>
    <3>1. Types'
      BY <2>1, <2>2 DEF Inv, Types, timerVars
    <3> QED BY <2>2, <3>1, CrashedInv
  <2>3. CASE returns("throw", bond_map)
    BY <1>0, <1>1, <2>1, <2>3, ReturnsInv
  <2>4. CASE goto("send")
    BY <1>0, <2>1, <2>4, GotoInv
  <2> QED BY <1>2, <2>2, <2>3, <2>4 DEF wait_for_service
<1>3. CASE send_request
  BY <1>0, <1>3, GotoInv DEF send_request
<1>4. CASE change_state
  BY <1>4, ChangeStateInv
<1>5. CASE get_state
  <2>1. UNCHANGED <<node, rcl>>
    BY <1>5 DEF get_state
  <2>2. CASE returns("throw", bond_map) \/ returns("false", bond_map)
    BY <1>0, <1>1, <2>1, <2>2, ReturnsInv
  <2>3. CASE node[Target] = transition_state(Transition) /\ Transition = "activate" /\ goto("bond")
    <3>1. Sound(op.i)
      BY <1>1, <2>3 DEF Sound, transition_state
    <3> QED BY <1>0, <2>1, <2>3, <3>1, GotoInv
  <2>4. CASE /\ Transition # "activate"
             /\ returns("true", IF Transition = "deactivate"
                                THEN [bond_map EXCEPT ![Target] = "none"]
                                ELSE bond_map)
    <3>1. CASE Transition = "deactivate"
      <4>1. [bond_map EXCEPT ![Target] = "none"] \in [Node -> Bond]
        BY <1>1 DEF Bond
      <4>2. /\ [bond_map EXCEPT ![Target] = "none"][Target] = "none"
            /\ \A n \in Node : n # Target => [bond_map EXCEPT ![Target] = "none"][n] = bond_map[n]
        BY <1>1
      <4>3. returns("true", [bond_map EXCEPT ![Target] = "none"])
        BY <2>4, <3>1
      <4> QED BY <1>0, <2>1, <2>4, <4>1, <4>2, <4>3, ReturnsInv, Zenon
    <3>2. CASE Transition # "deactivate"
      <4>1. returns("true", bond_map)
        BY <2>4, <3>2
      <4> QED BY <1>0, <1>1, <2>1, <2>4, <3>2, <4>1, ReturnsInv
    <3> QED BY <3>1, <3>2
  <2> QED BY <1>5, <2>2, <2>3, <2>4 DEF get_state
<1>6. CASE createBondConnection
  <2>1. UNCHANGED <<node, rcl>> /\ op.pc = "bond"
    BY <1>6 DEF createBondConnection, at
  <2>2. BondEnabled /\ Transition = "activate" => Sound(Target)
    BY <1>0, <1>1, <2>1 DEF Inv, ActivateInv
  <2>3. Transition = "activate"
    BY <1>0, <2>1 DEF Inv, OpInv
  <2>4. CASE (~BondEnabled \/ bond_map[Target] # "none") /\ returns("true", bond_map)
    <3>1. BondEnabled => bond_map[Target] # "none" /\ SoundIn(bond_map, Target)
      BY <2>2, <2>3, <2>4 DEF Sound, SoundIn
    <3> QED BY <1>0, <1>1, <2>1, <2>3, <2>4, <3>1, ReturnsInv
  <2>5. ASSUME NEW b \in {"formed", "waiting"}, NEW result \in {"true", "false"},
               returns(result, [bond_map EXCEPT ![Target] = b]),
               bond_map[Target] = "none", result = "true" => peer[Target]
        PROVE  Inv'
    <3>1. [bond_map EXCEPT ![Target] = b] \in [Node -> Bond]
      BY <1>1 DEF Bond
    <3>2. /\ [bond_map EXCEPT ![Target] = b][Target] = b
          /\ \A n \in Node : n # Target => [bond_map EXCEPT ![Target] = b][n] = bond_map[n]
      BY <1>1
    <3>3. result = "true" /\ BondEnabled => node[Target] = "active"
      BY <2>2, <2>3, <2>5 DEF Sound
    <3>4. result = "true" /\ BondEnabled => SoundIn([bond_map EXCEPT ![Target] = b], Target)
      BY <3>3 DEF SoundIn
    <3> QED BY <1>0, <2>1, <2>3, <2>5, <3>1, <3>2, <3>4, ReturnsInv, Zenon
  <2> QED BY <1>6, <2>4, <2>5 DEF createBondConnection
<1> QED BY <1>2, <1>3, <1>4, <1>5, <1>6 DEF serviceThread

-----------------------------------------------------------------------------
LEMMA StutterInv == ASSUME Inv, UNCHANGED vars PROVE Inv'
<1>1. UNCHANGED <<node, peer, managed_state, bond_map, bond_timer, op, rcl>>
  BY DEF vars, nodeVars, timerVars
<1>2. Types' /\ \A n \in Node : Sound(n) => Sound(n)'
  BY <1>1 DEF Inv, Types, Sound
<1> QED BY <1>1, <1>2, AroundInv

\* Commands, timers, crashes and respawns preserve the inductive invariant: the bonds made so
\* far by an activation are sound, and those of a deactivation are released.
THEOREM Invariant == Spec => []Inv
<1>1. Inv /\ [Next]_vars => Inv'
  BY ServiceThreadInv, CallbackInv, CheckInv, RespawnCheckInv, PreshutdownInv, ClearInv, CrashInv,
     BondsInv, StutterInv
  DEF Next
<1> QED BY InitInv, <1>1, PTL DEF Spec

\* For any number of nodes, a system that isActive() between operations has a bond for each of
\* them and the timer that looks at the bonds.
THEOREM WatchedTheorem == Spec => []ActiveIsWatched
<1>1. Inv => ActiveIsWatched
  BY DEF Inv, RestInv, ActiveIsWatched, Missing
<1> QED BY Invariant, <1>1, PTL

\* ... and no node of it that is not active hides behind a formed bond.
THEOREM VisibleTheorem == Spec => []FailureIsVisible
<1>1. Inv => FailureIsVisible
  BY DEF Inv, RestInv, FailureIsVisible, Sound
<1> QED BY Invariant, <1>1, PTL

\* For any number of nodes, a successful pause or reset, and every hard reset, leave no bond
\* and no bond timer.
THEOREM LeftOverTheorem == Spec => []NoBondLeftOver
<1>1. Inv => NoBondLeftOver
  BY DEF Inv, RestInv, NoBondLeftOver, Missing
<1> QED BY Invariant, <1>1, PTL

-------------------------------------------------------------------------------
(* The costmap.                                                              *)

Cost == 0..3
Window == [lo : Int, hi : Int]

StaticType == [costmap : [Cells -> Cost], incoming : Map \cup {None}, received : BOOLEAN,
               in_bounds : BOOLEAN, map_buffer : Map \cup {None}, updated : BOOLEAN, current : BOOLEAN]
ObstacleType == [costmap : [Cells -> Cost], extra : BOOLEAN, was_reset : BOOLEAN, current : BOOLEAN]

GridType ==
  /\ static \in StaticType
  /\ obstacle \in ObstacleType
  /\ buffer \in [hit : Cells \cup {None}, current : BOOLEAN]
  /\ inflation \in [last : Window, need_reinflation : BOOLEAN, current : BOOLEAN]
  /\ master \in [Cells -> Cost]
  /\ window \in Window \cup {None}
  /\ fresh \in BOOLEAN
  /\ wiped \in {"no", "reset", "resize"}

\* What the master should hold in a cell.
Ideal(c) ==
  IF combined(c) = FREE_SPACE /\ \E o \in Cells : combined(o) = LETHAL_OBSTACLE /\ Distance(c, o) <= Radius
  THEN INFLATED ELSE combined(c)

\* The next update will rewrite everything.
Rewrites == (static.received /\ static.updated) \/ obstacle.extra

\* There was no map yet, and nothing was seen since the grids were made.
Early ==
  /\ ~static.in_bounds
  /\ \A c \in Cells : master[c] = NO_INFORMATION /\ (c # Robot => obstacle.costmap[c] = NO_INFORMATION)

\* The inductive invariant behind MasterMatchesLayers: what is outside the window that
\* is to be rewritten is right already, unless a layer has changed since, and then
\* everything will be rewritten next time.
GridInv ==
  /\ GridType
  /\ static.in_bounds => static.received
  /\ static.received /\ ~static.in_bounds => static.updated
  /\ window = None /\ fresh => \A c \in Cells : master[c] = Ideal(c)
  /\ window = None /\ ~fresh => Rewrites \/ Early
  /\ window # None /\ fresh => \A c \in Cells : c \in Within(window) \/ master[c] = Ideal(c)
  /\ window # None /\ ~fresh => Rewrites

\* The inductive invariant behind ClearedIsNotCurrent: a cleared costmap has its map
\* written again by an update of everything.
ClearedInv ==
  /\ static.incoming # None => ~static.received
  /\ wiped = "reset" => static.received
  /\ wiped = "reset" /\ window = None => ~static.current /\ static.updated
  /\ wiped = "reset" /\ window # None => Cells \subseteq Within(window)

CostmapInv == GridInv /\ ClearedInv

-----------------------------------------------------------------------------
(* Facts about the operators.                                              *)

\* What one would get by writing every layer into an empty grid, cell by cell.
LEMMA IdealGrid == inflated([c \in Cells |-> combined(c)], Cells) = [c \in Cells |-> Ideal(c)]
  BY DEF inflated, Ideal

\* Costs stay costs.
LEMMA CombinedType == GridType => \A c \in Cells : combined(c) \in Cost
  BY DEF GridType, StaticType, ObstacleType, combined, Cost, FREE_SPACE, NO_INFORMATION

\* A blank grid is a grid.
LEMMA BlankType == Blank(NO_INFORMATION) \in [Cells -> Cost]
  BY DEF Blank, Cost, NO_INFORMATION

\* If the cells outside cells are right, rewriting cells makes all of them right.
LEMMA Rewriting ==
  ASSUME GridType, NEW W \in SUBSET Cells,
         \A c \in Cells : c \in W \/ master[c] = Ideal(c)
  PROVE  \A c \in Cells : rewritten(W)[c] = Ideal(c)
<1> DEFINE grid == [c \in Cells |-> IF c \in W THEN combined(c) ELSE master[c]]
<1>1. \A c \in Cells : c \notin W => grid[c] = Ideal(c)
  OBVIOUS
<1>2. \A o \in Cells : grid[o] = LETHAL_OBSTACLE <=> combined(o) = LETHAL_OBSTACLE
  BY DEF Ideal, FREE_SPACE, INFLATED, LETHAL_OBSTACLE
<1>3. \A c \in W : grid[c] = combined(c)
  OBVIOUS
<1> HIDE DEF grid
<1>4. \A c \in Cells : inflated(grid, W)[c] = Ideal(c)
  BY <1>1, <1>2, <1>3 DEF inflated, Ideal
<1> QED
  BY <1>4 DEF grid, rewritten

\* A cell that is further from what changed than the inflation reaches keeps its cost.
LEMMA FarAway ==
  ASSUME NEW lo \in Int, NEW hi \in Int, NEW c \in Cells,
         ~(lo - Radius <= c /\ c <= hi + Radius),
         \A x \in Cells : ~(lo <= x /\ x <= hi) => combined(x)' = combined(x)
  PROVE  Ideal(c)' = Ideal(c)
<1>1. Radius \in Nat /\ Cells \subseteq Int
  BY SizeAssumption DEF Cells
<1>2. \A o \in Cells : Distance(c, o) <= Radius => ~(lo <= o /\ o <= hi)
  BY <1>1 DEF Distance
<1>3. combined(c)' = combined(c)
  BY <1>1
<1>4. \A o \in Cells : Distance(c, o) <= Radius => combined(o)' = combined(o)
  BY <1>2
<1> QED
  BY <1>3, <1>4 DEF Ideal

-----------------------------------------------------------------------------
(* The callbacks preserve the invariant.                                   *)

\* Combining and inflating only look at two layers.
LEMMA SameIdeal ==
  ASSUME static'.costmap = static.costmap, static'.in_bounds = static.in_bounds,
         obstacle'.costmap = obstacle.costmap
  PROVE  \A c \in Cells : Ideal(c)' = Ideal(c)
<1>1. \A c \in Cells : combined(c)' = combined(c)
  BY DEF combined
<1> QED
  BY <1>1 DEF Ideal

\* The first map resizes the grids, and a later one is kept for the next update.
LEMMA IncomingMapStep ==
  ASSUME CostmapInv, NEW map \in Map, incomingMap(map)
  PROVE  CostmapInv'
<1> USE DEF CostmapInv, GridInv, ClearedInv
<1>1. CASE ~static.received
  <2>1. static' = [static EXCEPT !.incoming = map] /\ resizeMap /\ window = None
        /\ UNCHANGED <<buffer, inflation, window>>
    BY <1>1 DEF incomingMap, Unlocked
  <2>2. GridType'
    <3>1. static' \in StaticType
      BY <2>1 DEF GridType, StaticType
    <3>2. obstacle' \in ObstacleType
      BY <2>1, BlankType DEF GridType, ObstacleType, resizeMap
    <3> QED
      BY <2>1, <3>1, <3>2, BlankType, Zenon DEF GridType, resizeMap
  <2>3. Early'
    BY <1>1, <2>1 DEF Early, GridType, StaticType, ObstacleType, resizeMap, Blank
  <2>4. ~static'.received /\ ~static'.in_bounds /\ ~fresh' /\ window' = None /\ wiped' = "resize"
    BY <1>1, <2>1 DEF GridType, StaticType, resizeMap
  <2> QED
    BY <2>2, <2>3, <2>4
<1>2. CASE static.received
  <2>1. static' = [static EXCEPT !.map_buffer = map]
        /\ UNCHANGED <<obstacle, buffer, inflation, master, window, fresh, wiped>>
    BY <1>2 DEF incomingMap
  <2>2. GridType'
    BY <2>1 DEF GridType, StaticType
  <2>3. /\ static'.costmap = static.costmap /\ static'.in_bounds = static.in_bounds
        /\ static'.received = static.received /\ static'.updated = static.updated
        /\ static'.current = static.current /\ static'.incoming = static.incoming
    BY <2>1 DEF GridType, StaticType
  <2>4. \A c \in Cells : Ideal(c)' = Ideal(c)
    BY <2>1, <2>3, SameIdeal, Zenon
  <2> QED
    BY <2>1, <2>2, <2>3, <2>4 DEF Rewrites, Early, Within
<1> QED
  BY <1>1, <1>2, Zenon

\* A map that is loaded, or changed, will be written by the next update.
LEMMA MapChangesStep ==
  ASSUME CostmapInv, incomingMap_loads \/ \E update \in MapUpdate : incomingUpdate(update)
  PROVE  CostmapInv'
<1> USE DEF CostmapInv, GridInv, ClearedInv
<1>1. CASE incomingMap_loads
  <2>1. static.incoming \in Map /\ ~static.received
    BY <1>1 DEF incomingMap_loads, GridType, StaticType
  <2>2. static' = [costmap |-> static.incoming, incoming |-> None, received |-> TRUE,
                   in_bounds |-> static.in_bounds, map_buffer |-> static.map_buffer,
                   updated |-> TRUE, current |-> TRUE]
    BY <1>1, Zenon DEF incomingMap_loads, processMap, GridType, StaticType
  <2>3. fresh' = FALSE /\ UNCHANGED <<obstacle, buffer, inflation, master, window, wiped>>
    BY <1>1 DEF incomingMap_loads
  <2>4. static.incoming \in [Cells -> Cost]
    BY <2>1, MapAssumption DEF MapCost, Cost, FREE_SPACE, LETHAL_OBSTACLE, NO_INFORMATION
  <2>5. GridType'
    BY <2>2, <2>3, <2>4, Zenon DEF GridType, StaticType
  <2>6. Rewrites'
    BY <2>2 DEF Rewrites
  <2> QED
    BY <2>1, <2>2, <2>3, <2>5, <2>6
<1>2. ASSUME NEW update \in MapUpdate, incomingUpdate(update)
      PROVE  CostmapInv'
  <2>1. update.cell \in Cells /\ update.cost \in Cost
    BY MapAssumption DEF MapCost, Cost, FREE_SPACE, LETHAL_OBSTACLE, NO_INFORMATION
  <2>2. static' = [costmap |-> [static.costmap EXCEPT ![update.cell] = update.cost],
                   incoming |-> static.incoming, received |-> static.received,
                   in_bounds |-> static.in_bounds, map_buffer |-> static.map_buffer,
                   updated |-> TRUE, current |-> static.current]
    BY <1>2, Zenon DEF incomingUpdate, GridType, StaticType
  <2>3. fresh' = FALSE /\ static.received /\ UNCHANGED <<obstacle, buffer, inflation, master, window, wiped>>
    BY <1>2, Zenon DEF incomingUpdate
  <2>4. GridType'
    BY <2>1, <2>2, <2>3, Zenon DEF GridType, StaticType
  <2>5. Rewrites'
    BY <2>2, <2>3, Zenon DEF Rewrites
  <2> QED
    BY <2>2, <2>3, <2>4, <2>5, Zenon DEF Within
<1> QED
  BY <1>1, <1>2

\* A clear request marks what it forgot for the next update.
LEMMA ClearsStep ==
  ASSUME CostmapInv, clearEntirely \/ \E area \in ClearArea : clearRegion(area)
  PROVE  CostmapInv'
<1> USE DEF CostmapInv, GridInv, ClearedInv
<1>1. CASE clearEntirely
  <2>1. static' = [costmap |-> static.costmap, incoming |-> static.incoming, received |-> static.received,
                   in_bounds |-> static.in_bounds, map_buffer |-> static.map_buffer,
                   updated |-> TRUE, current |-> FALSE]
    BY <1>1, Zenon DEF clearEntirely, StaticLayer_reset, GridType, StaticType
  <2>2. obstacle' = [costmap |-> Blank(NO_INFORMATION), extra |-> obstacle.extra, was_reset |-> TRUE,
                     current |-> FALSE]
    BY <1>1, Zenon DEF clearEntirely, GridType, ObstacleType
  <2>3. /\ master' = Blank(NO_INFORMATION) /\ window = None /\ window' = None /\ fresh' = FALSE
        /\ buffer' = [buffer EXCEPT !.current = TRUE] /\ inflation' = [inflation EXCEPT !.current = FALSE]
        /\ wiped' = IF static.received THEN "reset" ELSE wiped
    BY <1>1 DEF clearEntirely, Unlocked
  <2>4. GridType'
    <3>1. static' \in StaticType
      BY <2>1 DEF GridType, StaticType
    <3>2. obstacle' \in ObstacleType
      BY <2>2, BlankType DEF GridType, ObstacleType
    <3>3. buffer' \in [hit : Cells \cup {None}, current : BOOLEAN]
      BY <2>3, Zenon DEF GridType
    <3>4. inflation' \in [last : Window, need_reinflation : BOOLEAN, current : BOOLEAN]
      BY <2>3, Zenon DEF GridType
    <3> QED
      BY <2>3, <3>1, <3>2, <3>3, <3>4, BlankType, Zenon DEF GridType
  <2>5. Rewrites' \/ Early'
    BY <2>1, <2>2, <2>3 DEF Rewrites, Early, Blank
  <2> QED
    BY <2>1, <2>3, <2>4, <2>5
<1>2. ASSUME NEW area \in ClearArea, clearRegion(area)
      PROVE  CostmapInv'
  <2>1. obstacle' = [costmap |-> [c \in Cells |-> IF c \in area THEN NO_INFORMATION ELSE obstacle.costmap[c]],
                     extra |-> TRUE, was_reset |-> obstacle.was_reset, current |-> FALSE]
    BY <1>2, Zenon DEF clearRegion, clearLayerRegion, GridType, ObstacleType
  <2>2. fresh' = FALSE /\ UNCHANGED <<static, buffer, inflation, master, window, wiped>>
    BY <1>2 DEF clearRegion
  <2>3. GridType'
    <3>1. [c \in Cells |-> IF c \in area THEN NO_INFORMATION ELSE obstacle.costmap[c]] \in [Cells -> Cost]
      BY DEF GridType, ObstacleType, Cost, NO_INFORMATION
    <3>2. obstacle' \in ObstacleType
      BY <2>1, <3>1, Zenon DEF GridType, ObstacleType
    <3> QED
      BY <2>2, <3>2, Zenon DEF GridType
  <2>4. Rewrites'
    BY <2>1, Zenon DEF Rewrites
  <2> QED
    BY <2>2, <2>3, <2>4, Zenon DEF Within
<1> QED
  BY <1>1, <1>2

\* Clouds and footprints change no grid.
LEMMA SensorStep ==
  ASSUME CostmapInv, GridType',
         UNCHANGED <<static, obstacle, master, window, fresh, wiped>>
  PROVE  CostmapInv'
<1>1. \A c \in Cells : Ideal(c)' = Ideal(c)
  BY SameIdeal
<1> QED
  BY <1>1, Zenon DEF CostmapInv, GridInv, ClearedInv, Rewrites, Early, Within

-----------------------------------------------------------------------------
(* The two halves of an update preserve the invariant.                     *)

\* A union of windows holds both.
LEMMA JoinCovers ==
  ASSUME NEW a \in Window, NEW b \in Window
  PROVE  /\ Join(a, b) \in Window /\ Join(a, b).lo \in Int /\ Join(a, b).hi \in Int
         /\ Join(a, b).lo <= a.lo /\ Join(a, b).lo <= b.lo
         /\ a.hi <= Join(a, b).hi /\ b.hi <= Join(a, b).hi
  BY DEF Join, Window

\* The window holds everything the layers changed and what their inflation reaches.
LEMMA WindowCovers ==
  ASSUME GridType, NEW b \in Window
  PROVE  /\ InflationLayer_bounds(b) \in Window
         /\ \A c \in Cells : b.lo - Radius <= c /\ c <= b.hi + Radius => c \in Within(InflationLayer_bounds(b))
<1>1. NumCells \in Nat /\ Radius \in Nat /\ Cells \subseteq Int /\ \A c \in Cells : 1 <= c /\ c <= NumCells
  BY SizeAssumption DEF Cells
<1>2. CASE inflation.need_reinflation
  BY <1>1, <1>2 DEF InflationLayer_bounds, Everything, Within, Window
<1>3. CASE ~inflation.need_reinflation
  <2> DEFINE j == Join(inflation.last, b)
  <2>1. inflation.last.lo \in Int /\ inflation.last.hi \in Int /\ b.lo \in Int /\ b.hi \in Int
    BY DEF GridType, Window
  <2>2. j.lo \in Int /\ j.hi \in Int /\ j.lo <= b.lo /\ b.hi <= j.hi
    BY <2>1 DEF Join
  <2>3. InflationLayer_bounds(b) = [lo |-> j.lo - Radius, hi |-> j.hi + Radius]
    BY <1>3 DEF InflationLayer_bounds
  <2> HIDE DEF j
  <2> QED
    BY <1>1, <2>1, <2>2, <2>3 DEF Within, Window
<1> QED
  BY <1>2, <1>3

\* The first half: the window and what it need not hold.
LEMMA UpdateBoundsStep ==
  ASSUME CostmapInv, NEW resizing \in BOOLEAN, updateBounds(resizing)
  PROVE  CostmapInv'
<1> DEFINE bounds == Join(StaticLayer_bounds, ObstacleLayer_bounds)
           before == IF resizing THEN Blank(NO_INFORMATION) ELSE obstacle.costmap
           whole == StaticLayer_bounds = Everything \/ obstacle.extra
<1>1. /\ window = None /\ (resizing => StaticLayer_loads)
      /\ static' = StaticLayer_updateBounds
      /\ obstacle' = [obstacle EXCEPT !.costmap = raytraced(before), !.extra = FALSE,
                                      !.current = buffer.current]
      /\ inflation' = [inflation EXCEPT !.last = bounds, !.need_reinflation = FALSE]
      /\ master' = IF resizing THEN Blank(NO_INFORMATION) ELSE master
      /\ window' = InflationLayer_bounds(bounds)
      /\ fresh' = TRUE /\ wiped' = (IF resizing THEN "resize" ELSE wiped) /\ buffer' = buffer
  BY DEF updateBounds, Unlocked, ObstacleLayer_current
<1>2. GridType /\ NumCells \in Nat /\ NumCells > 2 /\ Radius \in Nat /\ Cells \subseteq Int
      /\ \A c \in Cells : 1 <= c /\ c <= NumCells
  BY SizeAssumption DEF Cells, CostmapInv, GridInv
<1>3. StaticLayer_bounds \in Window /\ StaticLayer_bounds.lo \in Int /\ StaticLayer_bounds.hi \in Int
  BY <1>2 DEF StaticLayer_bounds, Everything, Nothing, Window
<1>4. /\ ObstacleLayer_bounds \in Window
      /\ ObstacleLayer_bounds.lo \in Int /\ ObstacleLayer_bounds.hi \in Int
      /\ ObstacleLayer_bounds.lo <= 1 /\ ObstacleLayer_bounds.hi >= 1
      /\ buffer.hit # None => buffer.hit \in Int /\ buffer.hit <= ObstacleLayer_bounds.hi
      /\ obstacle.extra => NumCells <= ObstacleLayer_bounds.hi
  <2> DEFINE ray == [lo |-> Robot, hi |-> IF buffer.hit = None THEN Robot ELSE buffer.hit]
             asked == IF obstacle.extra THEN Everything ELSE Nothing
  <2>1. buffer.hit # None => buffer.hit \in Cells
    BY <1>2 DEF GridType
  <2>2. ray \in Window /\ ray.lo = 1 /\ ray.hi >= 1 /\ (buffer.hit # None => ray.hi = buffer.hit)
    <3>1. CASE buffer.hit = None
      BY <3>1 DEF Window, Robot
    <3>2. CASE buffer.hit # None
      <4>1. buffer.hit \in Int /\ buffer.hit >= 1
        BY <1>2, <2>1, <3>2, Zenon
      <4> QED
        BY <3>2, <4>1 DEF Window, Robot
    <3> QED
      BY <3>1, <3>2
  <2>3. asked \in Window /\ (obstacle.extra => asked.hi = NumCells)
    BY <1>2 DEF Window, Everything, Nothing
  <2>4. ObstacleLayer_bounds = Join(ray, asked)
    BY DEF ObstacleLayer_bounds
  <2>5. ray.lo \in Int /\ ray.hi \in Int /\ asked.lo \in Int /\ asked.hi \in Int
    BY <2>2, <2>3 DEF Window
  <2> HIDE DEF ray, asked
  <2> QED
    BY <1>2, <2>1, <2>2, <2>3, <2>4, <2>5, JoinCovers
<1>5. /\ bounds \in Window /\ bounds.lo \in Int /\ bounds.hi \in Int
      /\ bounds.lo <= 1 /\ bounds.hi >= 1
      /\ buffer.hit # None => buffer.hit \in Int /\ buffer.hit <= bounds.hi
      /\ whole => NumCells <= bounds.hi
  <2>1. StaticLayer_bounds = Everything => StaticLayer_bounds.hi = NumCells
    BY DEF Everything
  <2> QED
    BY <1>2, <1>3, <1>4, <2>1, JoinCovers
<1> HIDE DEF bounds
<1>6. /\ window' \in Window /\ window' # None
      /\ \A c \in Cells : bounds.lo - Radius <= c /\ c <= bounds.hi + Radius => c \in Within(window')
  BY <1>1, <1>2, <1>5, WindowCovers, NoneAssumption DEF Window
<1>7. whole => Cells \subseteq Within(window')
  BY <1>2, <1>5, <1>6
<1>8. /\ static' \in StaticType
      /\ static'.received = static.received /\ static'.incoming = static.incoming
      /\ static'.in_bounds = static.received
      /\ static.received /\ ~StaticLayer_loads => static'.costmap = static.costmap
  <2>1. CASE ~static.received
    BY <1>1, <1>2, <2>1, Zenon DEF StaticLayer_updateBounds, GridType, StaticType
  <2>2. CASE static.received /\ ~StaticLayer_loads
    <3>1. static' = [static EXCEPT !.map_buffer = None, !.updated = FALSE, !.in_bounds = TRUE]
      BY <1>1, <2>2 DEF StaticLayer_updateBounds
    <3> QED
      BY <1>2, <2>2, <3>1, Zenon DEF GridType, StaticType
  <2>3. CASE static.received /\ StaticLayer_loads
    <3>1. static' = [costmap |-> static.map_buffer, incoming |-> static.incoming, received |-> static.received,
                     in_bounds |-> TRUE, map_buffer |-> None, updated |-> FALSE, current |-> TRUE]
      BY <1>1, <1>2, <2>3, Zenon DEF StaticLayer_updateBounds, processMap, GridType, StaticType
    <3>2. static.map_buffer \in [Cells -> Cost]
      BY <1>2, <2>3, MapAssumption
         DEF StaticLayer_loads, GridType, StaticType, MapCost, Cost, FREE_SPACE, LETHAL_OBSTACLE, NO_INFORMATION
    <3> QED
      BY <1>2, <2>3, <3>1, <3>2 DEF GridType, StaticType
  <2> QED
    BY <1>2, <2>1, <2>2, <2>3 DEF GridType, StaticType
<1>9. /\ raytraced(before) \in [Cells -> Cost]
      /\ \A x \in Cells : ~(bounds.lo <= x /\ x <= bounds.hi) => raytraced(before)[x] = before[x]
  <2>1. before \in [Cells -> Cost]
    BY <1>2, BlankType DEF GridType, ObstacleType
  <2> HIDE DEF before
  <2>2. CASE buffer.hit = None
    BY <2>1, <2>2 DEF raytraced
  <2>3. CASE buffer.hit # None
    <3>1. raytraced(before) = [c \in Cells |-> IF c = buffer.hit THEN LETHAL_OBSTACLE
                                 ELSE IF c < buffer.hit THEN FREE_SPACE ELSE before[c]]
      BY <2>3 DEF raytraced
    <3>2. \A x \in Cells : raytraced(before)[x] \in Cost
      BY <2>1, <3>1 DEF Cost, LETHAL_OBSTACLE, FREE_SPACE
    <3>3. \A x \in Cells : ~(bounds.lo <= x /\ x <= bounds.hi) => x # buffer.hit /\ ~(x < buffer.hit)
      BY <1>2, <1>5, <2>3
    <3> QED
      BY <3>1, <3>2, <3>3
  <2> QED
    BY <2>2, <2>3
<1> HIDE DEF before
<1>10. obstacle' \in ObstacleType /\ obstacle'.costmap = raytraced(before)
  BY <1>1, <1>2, <1>9, Zenon DEF GridType, ObstacleType
<1>11. GridType'
  <2>1. inflation' \in [last : Window, need_reinflation : BOOLEAN, current : BOOLEAN]
    BY <1>1, <1>2, <1>5, Zenon DEF GridType
  <2>2. master' \in [Cells -> Cost]
    BY <1>1, <1>2, BlankType DEF GridType
  <2> QED
    BY <1>1, <1>2, <1>6, <1>8, <1>10, <2>1, <2>2 DEF GridType
<1>12. \A c \in Cells : c \in Within(window') \/ master'[c] = Ideal(c)'
  <2>1. SUFFICES ASSUME ~whole, NEW c \in Cells, c \notin Within(window')
                 PROVE  master'[c] = Ideal(c)'
    BY <1>7
  <2>2. ~StaticLayer_loads /\ ~resizing /\ (static.received => ~static.updated) /\ ~obstacle.extra
    BY <1>1, <2>1 DEF StaticLayer_bounds, StaticLayer_loads
  <2>3. static'.in_bounds = static.in_bounds
    BY <1>2, <1>8, <2>2 DEF CostmapInv, GridInv, GridType, StaticType
  <2>4. \A x \in Cells : ~(bounds.lo <= x /\ x <= bounds.hi) => obstacle'.costmap[x] = obstacle.costmap[x]
    BY <1>9, <1>10, <2>2, Zenon DEF before
  <2>5. \A x \in Cells : ~(bounds.lo <= x /\ x <= bounds.hi) => combined(x)' = combined(x)
    <3>1. static.in_bounds => static'.costmap = static.costmap
      BY <1>8, <2>2, Zenon DEF CostmapInv, GridInv
    <3> QED
      BY <2>3, <2>4, <3>1, SMT, SMTT(30) DEF combined
  <2>6. ~(bounds.lo - Radius <= c /\ c <= bounds.hi + Radius) /\ master' = master
    BY <1>1, <1>6, <2>1, <2>2
  <2>7. Ideal(c)' = Ideal(c)
    BY <1>5, <2>5, <2>6, FarAway, Zenon
  <2>8. CASE fresh
    BY <1>1, <2>6, <2>7, <2>8 DEF CostmapInv, GridInv
  <2>9. CASE ~fresh
    <3>1. Early
      BY <1>1, <2>2, <2>9 DEF CostmapInv, GridInv, Rewrites
    <3>2. c # Robot
      BY <1>2, <1>5, <2>6 DEF Robot
    <3>3. combined(c) = NO_INFORMATION /\ master[c] = NO_INFORMATION
      BY <3>1, <3>2 DEF Early, combined
    <3>4. NO_INFORMATION # FREE_SPACE
      BY DEF NO_INFORMATION, FREE_SPACE
    <3>5. Ideal(c) = NO_INFORMATION
      BY <3>3, <3>4, Zenon DEF Ideal
    <3> QED
      BY <2>6, <2>7, <3>3, <3>5, Zenon
  <2> QED
    BY <2>8, <2>9, <1>2 DEF GridType
<1>13. wiped' = "reset" => static'.received /\ Cells \subseteq Within(window')
  <2>1. SUFFICES ASSUME wiped' = "reset" PROVE static'.received /\ Cells \subseteq Within(window')
    OBVIOUS
  <2>2. wiped = "reset" /\ static.received /\ static.updated
    BY <1>1, <2>1 DEF CostmapInv, ClearedInv
  <2>3. whole
    BY <2>2 DEF StaticLayer_bounds
  <2> QED
    BY <1>7, <1>8, <2>2, <2>3
<1>14. (Within(window))' = Within(window')
  BY DEF Within
<1> QED
  BY <1>1, <1>6, <1>8, <1>11, <1>12, <1>13, <1>14 DEF CostmapInv, GridInv, ClearedInv

\* The second half: what is rewritten is right, and the rest was.
LEMMA UpdateCostsStep ==
  ASSUME CostmapInv, updateCosts
  PROVE  CostmapInv'
<1> DEFINE cells == Within(window)
<1>1. /\ window # None /\ window' = None /\ master' = rewritten(cells) /\ fresh' = fresh /\ buffer' = buffer
      /\ static' = [static EXCEPT !.current = @ \/ static.in_bounds]
      /\ obstacle' = [obstacle EXCEPT !.costmap[Robot] = FREE_SPACE, !.current = @ \/ obstacle.was_reset,
                                      !.was_reset = @ /\ obstacle.current]
      /\ inflation' = [inflation EXCEPT !.current = @ \/ Radius > 0]
      /\ wiped' = IF cells = Cells THEN "no" ELSE wiped
  BY DEF updateCosts
<1>2. GridType /\ Robot \in Cells
  BY SizeAssumption DEF CostmapInv, GridInv, Robot, Cells
<1>3. /\ static' \in StaticType /\ static'.costmap = static.costmap /\ static'.in_bounds = static.in_bounds
      /\ static'.received = static.received /\ static'.updated = static.updated
      /\ static'.incoming = static.incoming
  BY <1>1, <1>2 DEF GridType, StaticType
<1>4. /\ obstacle' \in ObstacleType /\ obstacle'.extra = obstacle.extra
      /\ \A c \in Cells : c # Robot => obstacle'.costmap[c] = obstacle.costmap[c]
  <2>1. obstacle' = [costmap |-> [obstacle.costmap EXCEPT ![Robot] = FREE_SPACE], extra |-> obstacle.extra,
                     was_reset |-> obstacle.was_reset /\ obstacle.current,
                     current |-> obstacle.current \/ obstacle.was_reset]
    BY <1>1, <1>2, Zenon DEF GridType, ObstacleType
  <2>2. [obstacle.costmap EXCEPT ![Robot] = FREE_SPACE] \in [Cells -> Cost]
    BY <1>2 DEF GridType, ObstacleType, Cost, FREE_SPACE
  <2> QED
    BY <1>2, <2>1, <2>2 DEF GridType, ObstacleType
<1>5. \A c \in Cells : Ideal(c)' = Ideal(c)
  <2>1. \A c \in Cells : combined(c)' = combined(c)
    BY <1>3, <1>4 DEF combined
  <2> QED
    BY <2>1 DEF Ideal
<1>6. GridType'
  <2>1. master' \in [Cells -> Cost]
    <3>1. \A c \in Cells : combined(c) \in Cost /\ master[c] \in Cost
      BY <1>2, CombinedType DEF GridType
    <3> QED
      BY <1>1, <3>1 DEF rewritten, inflated, Cost, INFLATED
  <2>2. inflation' \in [last : Window, need_reinflation : BOOLEAN, current : BOOLEAN]
    BY <1>1, <1>2, Zenon DEF GridType
  <2> QED
    BY <1>1, <1>2, <1>3, <1>4, <2>1, <2>2 DEF GridType
<1>7. fresh => \A c \in Cells : master'[c] = Ideal(c)'
  <2>1. cells \in SUBSET Cells
    BY DEF Within
  <2>2. fresh => \A c \in Cells : c \in cells \/ master[c] = Ideal(c)
    BY <1>1 DEF CostmapInv, GridInv
  <2> HIDE DEF cells
  <2> QED
    BY <1>1, <1>2, <1>5, <2>1, <2>2, Rewriting
<1>8. wiped' # "reset"
  BY <1>1, Zenon DEF CostmapInv, ClearedInv, Within
<1> QED
  BY <1>1, <1>3, <1>4, <1>6, <1>7, <1>8 DEF CostmapInv, GridInv, ClearedInv, Rewrites

-----------------------------------------------------------------------------

LEMMA InvInit == CostmapInit => CostmapInv
<1> SUFFICES ASSUME CostmapInit PROVE CostmapInv
  OBVIOUS
<1>1. GridType
  <2>1. Blank(FREE_SPACE) \in [Cells -> Cost]
    BY DEF Blank, Cost, FREE_SPACE
  <2>2. Everything \in Window
    BY SizeAssumption DEF Everything, Window
  <2>3. static \in StaticType
    BY <2>1, Zenon DEF CostmapInit, GridInit, StaticType
  <2>4. obstacle \in ObstacleType
    BY BlankType, Zenon DEF CostmapInit, GridInit, ObstacleType
  <2> QED
    BY <2>2, <2>3, <2>4, BlankType, Zenon DEF CostmapInit, GridInit, GridType
<1>2. Early
  BY DEF CostmapInit, GridInit, Early, Blank
<1> QED
  BY <1>1, <1>2 DEF CostmapInit, GridInit, CostmapInv, GridInv, ClearedInv

LEMMA InvNext == CostmapInv /\ [CostmapNext]_costmapVars => CostmapInv'
<1> SUFFICES ASSUME CostmapInv, [CostmapNext]_costmapVars PROVE CostmapInv'
  OBVIOUS
<1>1. ASSUME UNCHANGED gridVars PROVE CostmapInv'
  <2>1. GridType'
    BY <1>1 DEF gridVars, CostmapInv, GridInv, GridType
  <2> QED
    BY <1>1, <2>1, SensorStep DEF gridVars
<1>2. ASSUME NEW b, buffer' = [buffer EXCEPT !.current = b], b \in BOOLEAN,
             UNCHANGED <<static, obstacle, inflation, master, window, fresh, wiped>>
      PROVE  CostmapInv'
  <2>1. GridType'
    BY <1>2 DEF CostmapInv, GridInv, GridType
  <2> QED
    BY <1>2, <2>1, SensorStep
<1>3. CASE UpdateThread
  BY <1>1, <1>3, UpdateBoundsStep, UpdateCostsStep
     DEF UpdateThread, updateMap, updateMap_bounds, updateMap_costs, updateMap_ends, mapUpdateLoop_ends
<1>4. CASE Transitions
  <2>1. CASE Costmap2DROS_on_activate
    BY <1>2, <2>1, Zenon DEF Costmap2DROS_on_activate
  <2> QED
    BY <1>1, <1>4, <2>1 DEF Transitions, start_returns, Costmap2DROS_on_deactivate, joined
<1>5. CASE Clears
  BY <1>5, ClearsStep DEF Clears
<1>6. CASE Hears
  <2>1. ASSUME NEW map \in Map, incomingMap(map) PROVE CostmapInv'
    BY <2>1, IncomingMapStep
  <2>2. CASE incomingMap_loads \/ \E update \in MapUpdate : incomingUpdate(update)
    BY <2>2, MapChangesStep
  <2>3. ASSUME NEW hit \in Cells \ {Robot}, bufferCloud(hit) PROVE CostmapInv'
    <3>1. GridType'
      BY <2>3 DEF bufferCloud, CostmapInv, GridInv, GridType
    <3> QED
      BY <2>3, <3>1, SensorStep DEF bufferCloud
  <2>4. CASE bufferExpires
    BY <1>2, <2>4, Zenon DEF bufferExpires
  <2>5. CASE onFootprintChanged
    <3>1. GridType'
      BY <2>5, Zenon DEF onFootprintChanged, CostmapInv, GridInv, GridType
    <3> QED
      BY <2>5, <3>1, SensorStep DEF onFootprintChanged
  <2> QED
    BY <1>6, <2>1, <2>2, <2>3, <2>4, <2>5 DEF Hears
<1>7. CASE UNCHANGED costmapVars
  BY <1>1, <1>7 DEF costmapVars
<1> QED
  BY <1>3, <1>4, <1>5, <1>6, <1>7 DEF CostmapNext

\* The invariant holds in every state.
LEMMA Invariance == CostmapSpec => []CostmapInv
  BY InvInit, InvNext, PTL DEF CostmapSpec

\* The windows of LayeredCostmap::updateMap() are wide enough, for any row of cells,
\* inflation radius, maps and cleared areas: the master grid is what writing every
\* layer anew would give.
THEOREM MasterTheorem == CostmapSpec => []MasterMatchesLayers
<1>1. CostmapInv => MasterMatchesLayers
  <2> SUFFICES ASSUME CostmapInv, window = None, fresh
               PROVE  master = [c \in Cells |-> Ideal(c)]
    BY IdealGrid DEF MasterMatchesLayers, Unlocked
  <2> QED
    BY DEF CostmapInv, GridInv, GridType
<1> QED
  BY <1>1, Invariance, PTL

\* A costmap that was cleared entirely is not current before its map is back, for any
\* row of cells, inflation radius, maps and cleared areas: reset() takes current_ back,
\* and the update that restores it rewrites everything.
THEOREM ClearedTheorem == CostmapSpec => []ClearedIsNotCurrent
<1>1. CostmapInv => ClearedIsNotCurrent
  BY DEF CostmapInv, ClearedInv, ClearedIsNotCurrent, isCurrent, Unlocked
<1> QED
  BY <1>1, Invariance, PTL
===============================================================================
