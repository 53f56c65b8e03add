-------------------------------- MODULE NavFn --------------------------------
(***************************************************************************)
(* nav2_navfn_planner: makePlan() spreads a potential from the robot's     *)
(* cell (which NavFn calls the goal) until the goal's cell (its start) has *)
(* one.  Three blocks of cells stand in for a priority queue.  A step      *)
(* updates one cell, or ends a cycle.  Cell is the inside of the map:      *)
(* setupNavFn() makes the border obstacles.  tree holds the potential and  *)
(* open the blocks.                                                        *)
(***************************************************************************)
EXTENDS GridSearch, Functions

CONSTANTS PRIORITYBUFSIZE     \* what a block holds

ASSUME BlockAssumption == PRIORITYBUFSIZE \in Nat

VARIABLES use_astar, cycle, curT

navfnVars == <<use_astar, cycle, curT>>

NavFnInit == use_astar \in BOOLEAN /\ cycle = 0 /\ curT = 0

\* With the costs of the code in hundredths.
COST_NEUTRAL == 5000
COST_OBS == 25400
POT_HIGH == 1000000 * (Cardinality(Cell) + Width + Height)     \* more than any potential
priInc == 2 * COST_NEUTRAL
terminal_checking_interval == 5000

\* max(nx * ny / 20, nx + ny), the border included.
cycles ==
  LET nx == Width + 2  ny == Height + 2
  IN  IF (nx * ny) \div 20 > nx + ny THEN (nx * ny) \div 20 ELSE nx + ny

\* setCostmap(): the factor 0.8, cut to an integer.
costarr(c) == IF costs[c] >= 253 THEN COST_OBS ELSE COST_NEUTRAL + 100 * ((8 * costs[c]) \div 10)

Beside(c) == <<<<c[1] - 1, c[2]>>, <<c[1] + 1, c[2]>>, <<c[1], c[2] - 1>>, <<c[1], c[2] + 1>>>>

Lower(m, n) == IF m < n THEN m ELSE n

\* push_cur(), push_next() and push_over(): a cell of S is put in the block unless it is
\* pending, in this or in the other, or the block is full.
push(block, n, S, other) ==
  IF n \in S \ (Range(block) \cup Range(other)) /\ Len(block) < PRIORITYBUFSIZE
  THEN Append(block, n) ELSE block

pushAll(block, cells, S, other) ==
  push(push(push(push(block, cells[1], S, other), cells[2], S, other), cells[3], S, other), cells[4], S, other)

free == {c \in Cell : costarr(c) < COST_OBS}

\* createPlan() and makePlan() up to the propagation: clearRobotCell(), setupNavFn(), initCost().
makePlan ==
  /\ result = "none"
  /\ IF tolerance = 0 /\ costs[Goal] = Lethal
     THEN Returns("occupied") /\ UNCHANGED <<costs, tree, open, curT>>
     ELSE /\ costs' = [costs EXCEPT ![Start] = Free]
          /\ tree' = [c \in Cell |-> IF c = Start THEN 0 ELSE POT_HIGH]
          /\ open' = LET b == Beside(Start)
                    IN  [cur |-> pushAll(<<>>, <<b[2], b[1], b[3], b[4]>>, free, <<>>), at |-> 1,
                         next |-> <<>>, over |-> <<>>]
          /\ curT' = COST_OBS + (IF use_astar THEN 50 * Length(Start, Goal) ELSE 0)
          /\ result' = "planning" /\ UNCHANGED path
  /\ UNCHANGED <<tolerance, use_astar, cycle>>

\* Mutant: the quadratic without its constant.
planarWave_flat(low, dc, hf) ==
  LET div == (1000 * dc) \div hf
  IN  IF dc >= hf THEN low + hf ELSE low + (hf * (531 * div)) \div 1000000

\* The potential of a cell of cost hf from the lower of its neighbours on either axis,
\* the two dc apart: from one alone, or the quadratic approximation.
planarWave(low, dc, hf) ==
  LET div == (1000 * dc) \div hf
  IN  IF dc >= hf THEN low + hf
      ELSE low + (hf * (704 + (531 * div) \div 1000 - (230 * div * div) \div 1000000)) \div 1000

potarr(n) == IF n \in Cell THEN tree[n] ELSE POT_HIGH

\* The potential that a cell has from those beside it.
wave(c) ==
  LET around == Beside(c)
      tc == Lower(potarr(around[1]), potarr(around[2]))
      ta == Lower(potarr(around[3]), potarr(around[4]))
  IN  planarWave(Lower(ta, tc), IF ta < tc THEN tc - ta ELSE ta - tc, costarr(c))

\* updateCell(), and updateCellAstar() where the distance to go counts for the blocks.
updateCell ==
  LET c == open.cur[open.at]
      pot == wave(c)
      key == pot + (IF use_astar THEN 50 * Length(c, Goal) ELSE 0)
      higher == {n \in free : tree[n] > key + (707 * costarr(n)) \div 1000}
      done == [open EXCEPT !.at = @ + 1]
  IN  /\ result = "planning" /\ open.at <= Len(open.cur)
      /\ IF pot >= tree[c] THEN open' = done /\ UNCHANGED tree
         ELSE /\ tree' = [tree EXCEPT ![c] = pot]
              /\ open' = IF key < curT THEN [done EXCEPT !.next = pushAll(@, Beside(c), higher, open.over)]
                         ELSE [done EXCEPT !.over = pushAll(@, Beside(c), higher, open.next)]
      /\ UNCHANGED <<costs, tolerance, result, path, navfnVars>>

\* Mutant: the overflow block is left where it is.
swapped_once(b) == [b EXCEPT !.cur = b.next, !.at = 1, !.next = <<>>]

\* The next block becomes the current one, or the overflow block if the next is empty.
swapped(b) ==
  IF b.next # <<>> THEN [b EXCEPT !.cur = b.next, !.at = 1, !.next = <<>>]
  ELSE [b EXCEPT !.cur = b.over, !.at = 1, !.over = <<>>]

\* The cells that makePlan() would end a path in.
legal == IF tree[Goal] < POT_HIGH THEN {Goal}
         ELSE {c \in Cell : tree[c] < POT_HIGH /\ \A k \in 1..2 :
                 100 * (c[k] - Goal[k]) <= tolerance /\ 100 * (Goal[k] - c[k]) <= tolerance}

\* A cycle of propNavFnDijkstra() or propNavFnAstar() ends, and perhaps the last one.
propNavFn ==
  /\ result = "planning" /\ open.at > Len(open.cur)
  /\ open' = swapped(open)
  /\ curT' = IF open.next = <<>> THEN curT + priInc ELSE curT
  /\ cycle' = cycle + 1
  /\ IF tree[Goal] = POT_HIGH /\ open'.cur # <<>> /\ cycle' < cycles THEN UNCHANGED <<result, path>>
     ELSE IF legal = {} THEN Returns("failed")
     ELSE \E c \in legal : result' = "path" /\ path' = <<c>>
  /\ UNCHANGED <<costs, tolerance, tree, use_astar>>

\* The goal is canceled.
propNavFn_stops ==
  /\ result = "planning" /\ open.at = 1 /\ cycle % terminal_checking_interval = 0
  /\ Returns("stopped")
  /\ UNCHANGED <<costs, tolerance, tree, open, navfnVars>>

NavFnNext == makePlan \/ updateCell \/ propNavFn \/ propNavFn_stops

-----------------------------------------------------------------------------

\* A path is found by going downhill from its end.  Whatever the order in which cells are
\* updated, and updated again, no cell but the robot's is as low as all those beside it.
NoLocalMinimum ==
  result \in {"planning", "path"} =>
    \A c \in Cell \ {Start} : tree[c] < POT_HIGH =>
      \E i \in 1..4 : Beside(c)[i] \in Cell /\ tree[Beside(c)[i]] < tree[c]

\* Without enough cycles or room in the blocks nothing is promised.  With them a plan only
\* fails once every free cell beside one with a potential has one, and none is near the goal.
FailureIsExhaustive ==
  result = "failed" /\ cycle < cycles /\ Cardinality(Cell) <= PRIORITYBUFSIZE =>
    \A c \in Cell : tree[c] < POT_HIGH =>
      /\ \E k \in 1..2 : 100 * (c[k] - Goal[k]) > tolerance \/ 100 * (Goal[k] - c[k]) > tolerance
      /\ \A i \in 1..4 : LET n == Beside(c)[i] IN n \in Cell => tree[n] < POT_HIGH \/ costarr(n) = COST_OBS

=============================================================================
