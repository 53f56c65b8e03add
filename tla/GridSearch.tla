----------------------------- MODULE GridSearch -----------------------------
(***************************************************************************)
(* What the planners nav2_smac_planner, nav2_theta_star_planner and        *)
(* nav2_navfn_planner share: a grid of costs, a cost so far for each cell, *)
(* and a queue.  Lengths and costs are hundredths of a cell.               *)
(***************************************************************************)
EXTENDS Integers, Sequences, FiniteSets

CONSTANTS Width, Height, Start, Goal,
  Costmaps,      \* the costmaps a plan may meet
  Tolerances     \* the tolerances a plan may be asked with

Cell == (0 .. Width - 1) \X (0 .. Height - 1)
ASSUME GridAssumption ==
  {Width, Height} \subseteq Nat \ {0} /\ Start \in Cell /\ Goal \in Cell /\ Start # Goal

\* Three of the costs of a costmap: free, almost inscribed, and lethal.
Free == 0
Costly == 240
Lethal == 254
ASSUME CostmapsAssumption == Costmaps \subseteq [Cell -> {Free, Costly, Lethal}]

\* More than any path costs, as the largest float is in the code.
Infinity == 1000 * (Cardinality(Cell) + 1)
ASSUME TolerancesAssumption == Tolerances \subseteq 0 .. Infinity

\* What a path may not enter: from 252 on for Theta*, from 253 on for the others;
\* no cost here lies between.
Unsafe(cost) == cost >= 252

VARIABLES
  costs,       \* the costmap
  tolerance,   \* how far from the goal a path may end
  tree,        \* the nodes: cost so far, parent and flags
  open,        \* the queue
  result,      \* "none", "planning", "path", "failed", "occupied" or "stopped"
  path         \* the path returned, from its end to the start

searchVars == <<costs, tolerance, tree, open, result, path>>

Square(n) == n * n

\* The Euclidean distance.
lengths == [p \in Cell \X Cell |->
  LET s == 10000 * (Square(p[1][1] - p[2][1]) + Square(p[1][2] - p[2][2]))
  IN  CHOOSE n \in 0 .. (100 * (Width + Height)) : Square(n) <= s /\ s < Square(n + 1)]
Length(a, b) == lengths[<<a, b>>]

\* The eight cells around one.
Around == [c \in Cell |->
  {n \in Cell : n # c /\ n[1] - c[1] \in -1..1 /\ n[2] - c[2] \in -1..1}]

\* From a node to the root of the tree, itself first.
backtrace[c \in Cell] ==
  IF tree[c].parent = c THEN <<c>> ELSE <<c>> \o backtrace[tree[c].parent]

\* The reference: the cells that can be reached from the start over safe cells.  There
\* are as many rounds as cells; a set of one element makes TLC evaluate a round once.
Beyond(R) == R \cup {c \in Cell : ~Unsafe(costs[c]) /\ Around[c] \cap R # {}}
Reachable ==
  LET reach[k \in 0 .. Cardinality(Cell)] == 
        IF k = 0 THEN {Start} ELSE UNION {Beyond(R) : R \in {reach[k - 1]}}
  IN  reach[Cardinality(Cell)]

SearchInit ==
  /\ costs \in Costmaps /\ tolerance \in Tolerances
  /\ tree = <<>> /\ open = {} /\ result = "none" /\ path = <<>>

\* createPath() and generatePath() return.
Returns(r) == result' = r /\ path' = <<>>
ReturnsPath(c) == result' = "path" /\ path' = backtrace[c]

=============================================================================
