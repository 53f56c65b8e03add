------------------------------ MODULE ThetaStar ------------------------------
(***************************************************************************)
(* nav2_theta_star_planner: the lazy Theta* search, for one plan after     *)
(* another planner or none has left its start behind.  A step is one turn  *)
(* of the loop.  The queue holds pointers to nodes whose keys change while *)
(* they are queued: from then on its order is not known.                   *)
(***************************************************************************)
EXTENDS GridSearch

CONSTANT Origins        \* where src_ may point before the plan

ASSUME OriginsAssumption == Origins \subseteq Cell

VARIABLES
  src, curr,            \* src_ and curr_data
  rekeyed               \* a key changed in the queue

thetaVars == <<src, curr, rekeyed>>

ThetaInit == src \in Origins /\ curr = Start /\ rekeyed = FALSE

\* w_traversal_cost_ (2.0) times the square of the scaled cost, and of an unsafe cell.
traversal(cost) ==
  CASE cost = Free -> 2 [] cost = Costly -> 184 [] OTHER -> Infinity

\* createPlan() clears the start, and sets it afterwards; then generatePath() up to its loop.
generatePath ==
  /\ result = "none"
  /\ costs' = IF costs[Goal] = Lethal THEN costs ELSE [costs EXCEPT ![src] = Free]
  /\ IF costs[Goal] = Lethal \/ Unsafe(costs'[Start])
     THEN Returns("occupied") /\ UNCHANGED <<tree, open>>
     ELSE /\ tree' = [c \in Cell |->
               IF c = Start THEN [g |-> traversal(costs'[c]), parent |-> c, queued |-> TRUE]
               ELSE [g |-> Infinity, parent |-> c, queued |-> FALSE]]
          /\ open' = {Start}
          /\ result' = "planning" /\ UNCHANGED path
  /\ src' = IF costs[Goal] = Lethal THEN src ELSE Start
  /\ UNCHANGED <<tolerance, curr, rekeyed>>

\* getCost(x, y) by index: below the grid another row, or memory that is not the grid's.
costAt(x, y, beyond) ==
  LET i == y * Width + x
  IN  IF i < 0 THEN beyond ELSE costs[<<i % Width, i \div Width>>]

Sign(n) == IF n > 0 THEN 1 ELSE -1
Dist(m, n) == IF m < n THEN n - m ELSE m - n

\* A turn of losCheck() along its longer axis: how far across the line is, the error and
\* the cost so far.  The line is one between the corners of cells; at[<<i, j>>] is the cost of
\* the cell i steps along and j across.
losStep(u, here, long, short, at) ==
  LET g     == here.f + short
      turns == g >= long
      v2    == IF turns THEN here.v + 1 ELSE here.v
      f2    == IF turns THEN g - long ELSE g
      level == IF Unsafe(at[<<u, 0>>]) THEN at[<<u, -1>>] ELSE at[<<u, 0>>]
      cells == (IF turns THEN <<at[<<u, here.v>>]>> ELSE <<>>)
               \o (IF f2 # 0 THEN <<at[<<u, v2>>]>> ELSE <<>>)
               \o (IF short = 0 THEN <<level>> ELSE <<>>)
  IN  IF here.sum = Infinity \/ \E i \in DOMAIN cells : Unsafe(cells[i])
      THEN [here EXCEPT !.sum = Infinity]
      ELSE [v |-> v2, f |-> f2,
            sum |-> here.sum + (IF cells = <<>> THEN 0 ELSE traversal(cells[1]))
                             + (IF Len(cells) < 2 THEN 0 ELSE traversal(cells[2]))]

losLine(long, short, at) ==
  LET line[u \in 0 .. long] == IF u = 0 THEN [v |-> 0, f |-> 0, sum |-> 0]
                               ELSE CHOOSE s \in {losStep(u - 1, here, long, short, at) : here \in {line[u - 1]}} : TRUE
  IN  line[long].sum

\* losCheck(): the cost of the line from a to b, or Infinity if there is none.
losCheck(a, b, beyond) ==
  LET dx == Dist(a[1], b[1])   sx == Sign(b[1] - a[1])   ux == (sx - 1) \div 2
      dy == Dist(a[2], b[2])   sy == Sign(b[2] - a[2])   uy == (sy - 1) \div 2
  IN  IF dx >= dy
      THEN losLine(dx, dy,
             [p \in (0 .. dx) \X (-1 .. dy) |->
                IF dy = 0 THEN costAt(a[1] + sx * p[1] + ux, a[2] + p[2], beyond)
                ELSE costAt(a[1] + sx * p[1] + ux, a[2] + sy * p[2] + uy, beyond)])
      ELSE losLine(dy, dx,
             [p \in (0 .. dy) \X (-1 .. dx) |->
                IF dx = 0 THEN costAt(a[1] + p[2], a[2] + sy * p[1] + uy, beyond)
                ELSE costAt(a[1] + sx * p[2] + ux, a[2] + sy * p[1] + uy, beyond)])

\* resetParent(): the parent's parent, if it is in sight and the way from it is cheaper.
resetParent(c, beyond) ==
  LET p    == tree[tree[c].parent].parent
      cost == tree[p].g + Length(c, p) + losCheck(c, p, beyond)
  IN  IF cost < tree[c].g THEN [g |-> cost, parent |-> p, queued |-> FALSE]
      ELSE [tree[c] EXCEPT !.queued = FALSE]

\* Mutant: a node is reached from whichever node was expanded last.
improves_always(n, cost) == TRUE

\* The f of a node goes down: its h never changes.
improves(n, cost) == cost < tree[n].g

\* setNeighbors() from the node as resetParent() left it.
setNeighbors(c, node) ==
  LET cost(n) == node.g + Length(c, n) + traversal(costs[n])
      better  == {n \in Around[c] : ~Unsafe(costs[n]) /\ improves(n, cost(n))}
  IN  \E B \in {better} :
        /\ tree' = [n \in Cell |-> IF n = c THEN node
                                   ELSE IF n \in B THEN [g |-> cost(n), parent |-> c, queued |-> TRUE]
                                   ELSE tree[n]]
        /\ rekeyed' = (rekeyed \/ \E n \in B : tree[n].queued)
        \* curr_data = queue_.top()
        /\ \E top \in open \cup B :
             /\ rekeyed' \/ \A n \in open \cup B : tree'[top].g + Length(top, Goal) <= tree'[n].g + Length(n, Goal)
             /\ curr' = top
             /\ open' = (open \cup B) \ {top}

generatePath_loop ==
  /\ result = "planning" /\ open # {}
  /\ IF curr = Goal
     THEN ReturnsPath(curr) /\ open' = {} /\ UNCHANGED <<tree, curr, rekeyed>>
     ELSE /\ \E beyond \in {Free, Lethal} : setNeighbors(curr, resetParent(curr, beyond))
          /\ UNCHANGED <<result, path>>
  /\ UNCHANGED <<costs, tolerance, src>>

\* The queue is empty: whatever the last node was, there is no path.
generatePath_fails ==
  /\ result = "planning" /\ open = {}
  /\ Returns("failed")
  /\ UNCHANGED <<costs, tolerance, tree, open, thetaVars>>

\* The goal is canceled.
generatePath_stops ==
  /\ result = "planning" /\ open # {}
  /\ Returns("stopped") /\ open' = {}
  /\ UNCHANGED <<costs, tolerance, tree, thetaVars>>

ThetaNext == generatePath \/ generatePath_loop \/ generatePath_fails \/ generatePath_stops

-----------------------------------------------------------------------------

\* Parents are changed by nodes that were expanded, by nodes seen from further away and
\* by nodes opened again, but a node always costs more than its parent: backtrace() ends,
\* at the start.
ParentsLeadToStart ==
  result = "planning" => \A c \in Cell : tree[c].g < Infinity /\ c # Start => tree[tree[c].parent].g < tree[c].g

\* "false if no path is found in between the start and goal pose".
ThetaFailureMeansNoPath == result = "failed" => Goal \notin Reachable

\* The search gives up with at most one node not expanded, the last it took: every other
\* node it opened has had all its neighbours opened.
GivesUpLast ==
  result = "failed" => \A c \in Cell \ {curr} : tree[c].g < Infinity =>
    \A n \in Around[c] : tree[n].g < Infinity \/ Unsafe(costs[n])

=============================================================================
