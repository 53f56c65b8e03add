------------------------------ MODULE MCSearch ------------------------------
(* The three planners, each on its own, on every map of a small grid.        *)
EXTENDS AStar, ThetaStar, NavFn

VARIABLE planner

vars == <<searchVars, astarVars, thetaVars, navfnVars, planner>>

Init ==
  /\ planner \in {"smac", "theta", "navfn"}
  /\ SearchInit /\ AStarInit /\ ThetaInit /\ NavFnInit
  /\ planner = "theta" => tolerance = 0
  /\ use_astar => planner = "navfn"

Next ==
  \/ planner = "smac" /\ AStarNext /\ UNCHANGED <<thetaVars, navfnVars, planner>>
  \/ planner = "theta" /\ ThetaNext /\ UNCHANGED <<astarVars, navfnVars, planner>>
  \/ planner = "navfn" /\ NavFnNext /\ UNCHANGED <<astarVars, thetaVars, planner>>

Spec == Init /\ [][Next]_vars

\* A path of the Smac planner leads over safe cells to within tolerance of the goal,
\* and is as cheap as the cheapest there is.
SmacIsCheapest == planner = "smac" => PathIsSafe /\ PathIsCheapest

\* The parents of Theta* lead to the start, however often they are changed.
ThetaParentsLeadToStart == planner = "theta" => ParentsLeadToStart

\* The potential of NavFn leads down to the robot.
NavFnHasNoLocalMinimum == planner = "navfn" => NoLocalMinimum

\* A planner fails only when it has looked everywhere.  The Smac planner has then missed
\* no path; Theta* may have missed the last node it took; NavFn has no potential left to
\* spread.
FailsOnlyWhenExhausted ==
  /\ planner = "smac" => FailureMeansNoPath
  /\ planner = "theta" => GivesUpLast
  /\ planner = "navfn" => FailureIsExhaustive

\* "true if a path is found, false if no path is found in between the start and goal
\* pose", as theta_star.hpp says of generatePath().
ThetaFindsAPath == planner = "theta" => ThetaFailureMeansNoPath

MCStart == <<0, 1>>
MCGoal == <<Width - 1, 1>>
MCOrigins == {<<0, 0>>}
\* At most one cell is neither free nor lethal.
MCCostmaps ==
  {m \in [Cell -> {Free, Costly, Lethal}] : Cardinality({c \in Cell : m[c] = Costly}) <= 1}

=============================================================================
