-------------------------------- MODULE AStar --------------------------------
(***************************************************************************)
(* nav2_smac_planner's AStarAlgorithm with Node2D nodes, as SmacPlanner2D  *)
(* uses it for one plan: the graph is new, and a step is one turn of the   *)
(* loop.  A node may be queued several times, but is visited once.         *)
(***************************************************************************)
EXTENDS GridSearch

CONSTANTS
  MaxIterations,       \* max_iterations
  MaxApproach          \* max_on_approach_iterations

ASSUME LimitsAssumption == MaxIterations \in Nat /\ MaxApproach \in Nat

VARIABLES
  best,                \* _best_heuristic_node: the heuristic and the node
  iterations, approach

astarVars == <<best, iterations, approach>>

AStarInit ==
  /\ best = [h |-> Infinity, at |-> Start]
  /\ iterations = 0 /\ approach = 0

getHeuristicCost(c) == Length(c, Goal)

cost_travel_multiplier == 2     \* as the planner's documentation sets it

\* The length of a step, rounded up: 1 or the root of 2.
travel(from, to) == IF from[1] = to[1] \/ from[2] = to[2] THEN 100 ELSE 142

getTraversalCost(from, to) ==
  travel(from, to) + (cost_travel_multiplier * travel(from, to) * costs[to]) \div 252

\* createPath() up to its loop.
createPath ==
  /\ result = "none"
  /\ IF tolerance = 0 /\ Unsafe(costs[Goal])
     THEN Returns("occupied") /\ UNCHANGED <<costs, tree, open>>
     ELSE /\ costs' = [costs EXCEPT ![Start] = Free]     \* clearStart()
          /\ tree' = [c \in Cell |-> [g |-> IF c = Start THEN 0 ELSE Infinity, parent |-> c, visited |-> FALSE]]
          /\ open' = {[f |-> 0, at |-> Start]}
          /\ result' = "planning"
          /\ UNCHANGED path
  /\ UNCHANGED <<tolerance, astarVars>>

getNeighbors(c) == {n \in Around[c] : ~Unsafe(costs[n]) /\ ~tree[n].visited}

\* Mutant: a node keeps the first cost it was given.
cheaper_first(c) ==
  {[at |-> n, g |-> tree[c].g + getTraversalCost(c, n)] : n \in {n \in getNeighbors(c) : tree[n].g = Infinity}}

\* 4) The neighbours to which this is a cheaper way, with what it costs to get there.
cheaper(c) ==
  {[at |-> n, g |-> tree[c].g + getTraversalCost(c, n)] :
     n \in {n \in getNeighbors(c) : tree[c].g + getTraversalCost(c, n) < tree[n].g}}

\* They are queued with their heuristic, and the nearest may be the best node so far.
expand(c, rest) ==
  \E S \in {cheaper(c)} :
    /\ tree' = [n \in Cell |->
                  IF \E s \in S : s.at = n
                  THEN [tree[n] EXCEPT !.g = (CHOOSE s \in S : s.at = n).g, !.parent = c]
                  ELSE [tree[n] EXCEPT !.visited = @ \/ n = c]]
    /\ open' = rest \cup {[f |-> s.g + getHeuristicCost(s.at), at |-> s.at] : s \in S}
    /\ \E nearest \in {[h |-> getHeuristicCost(s.at), at |-> s.at] : s \in S} \cup {best} :
         /\ \A s \in S : nearest.h <= getHeuristicCost(s.at)
         /\ nearest.h <= best.h /\ (nearest.h = best.h => nearest = best)
         /\ best' = nearest
    /\ UNCHANGED <<result, path>>

\* backtracePath(): a node without a parent gives no path.
backtracePath(c) ==
  /\ IF tree[c].parent = c THEN Returns("failed") ELSE ReturnsPath(c)
  /\ UNCHANGED <<tree, best>>

\* The condition of the loop.
searching == iterations < MaxIterations /\ open # {}

createPath_loop ==
  /\ result = "planning" /\ searching
  /\ \E e \in open :
       LET c == e.at rest == open \ {e} IN
       /\ \A other \in open : e.f <= other.f
       /\ IF tree[c].visited
          THEN open' = rest /\ UNCHANGED <<tree, result, path, best, iterations, approach>>
          ELSE /\ iterations' = iterations + 1
               /\ approach' = IF c # Goal /\ best.h < tolerance THEN approach + 1 ELSE approach
               /\ \/ /\ c = Goal /\ open' = rest
                     /\ backtracePath(c)
                  \/ /\ c # Goal /\ best.h < tolerance /\ approach' >= MaxApproach /\ open' = rest
                     /\ backtracePath(best.at)
                  \/ /\ c # Goal /\ ~(best.h < tolerance /\ approach' >= MaxApproach)
                     /\ expand(c, rest)
  /\ UNCHANGED <<costs, tolerance>>

\* The loop ends: the nearest node will do if it is within tolerance.
createPath_ends ==
  /\ result = "planning" /\ ~searching
  /\ IF best.h < tolerance THEN backtracePath(best.at) ELSE Returns("failed") /\ UNCHANGED <<tree, best>>
  /\ UNCHANGED <<costs, open, tolerance, iterations, approach>>

\* The goal is canceled, or max_planning_time is over.
createPath_stops ==
  /\ result = "planning" /\ searching
  /\ Returns("stopped")
  /\ UNCHANGED <<costs, tolerance, tree, open, astarVars>>

AStarNext == createPath \/ createPath_loop \/ createPath_ends \/ createPath_stops

-----------------------------------------------------------------------------

\* A path leads from the start to the goal, or to a cell within tolerance of it, from
\* each cell to one beside it, and never into an obstacle.
PathIsSafe ==
  result = "path" =>
    /\ path[Len(path)] = Start
    /\ path[1] = Goal \/ Length(path[1], Goal) < tolerance
    /\ \A i \in 1 .. Len(path) - 1 : path[i] \in Around[path[i + 1]] /\ ~Unsafe(costs[path[i]])

\* The reference: the cheapest way from the start to every cell over safe cells, relaxed
\* in as many rounds as there are cells.
Least(S) == CHOOSE m \in S : \A n \in S : m <= n
Relax(d) ==
  [c \in Cell |-> IF Unsafe(costs[c]) THEN d[c]
                  ELSE Least({d[c]} \cup {d[n] + getTraversalCost(n, c) : n \in {n \in Around[c] : d[n] < Infinity}})]
Cheapest ==
  LET d[k \in 0 .. Cardinality(Cell)] ==
        IF k = 0 THEN [c \in Cell |-> IF c = Start THEN 0 ELSE Infinity]
        ELSE CHOOSE r \in {Relax(e) : e \in {d[k - 1]}} : r \in [Cell -> Nat]
  IN  d[Cardinality(Cell)]

\* Nodes are visited once and never again, and the path that ends at the goal without
\* a tolerance is still the cheapest there is.
PathIsCheapest ==
  result = "path" /\ tolerance = 0 => tree[Goal].g = Cheapest[Goal]

\* "no valid path found" is only said when neither the goal nor a cell within
\* tolerance of it can be reached.
FailureMeansNoPath ==
  result = "failed" /\ iterations < MaxIterations =>
    \A c \in Reachable \ {Start} : c # Goal /\ Length(c, Goal) >= tolerance

=============================================================================
