--------------------------- MODULE LayeredCostmap ---------------------------
(***************************************************************************)
(* nav2_costmap_2d, the grid: a static layer, an obstacle layer and an     *)
(* inflation layer, written window by window into a master grid that the   *)
(* planners read under its mutex.  An update has two halves under the      *)
(* mutex: updateBounds(), which collects what changed, and updateCosts(),  *)
(* which rewrites that window.  The layers have mutexes of their own, so   *)
(* that maps, clouds and clear requests come between the halves.           *)
(*                                                                         *)
(* The grid is one row of Cells, with the robot in cell 1.                 *)
(***************************************************************************)
EXTENDS Integers, FiniteSetsExt

CONSTANTS
  NumCells,         \* the number of cells
  Radius,    \* cell_inflation_radius_
  Map,       \* the maps the map server may send: functions from Cells to costs
  MapUpdate, \* the partial maps it may send: [cell, cost] records
  None

ASSUME SizeAssumption == NumCells \in Nat /\ NumCells > 2 /\ Radius \in Nat

FREE_SPACE == 0
INFLATED == 1            \* any cost between free and inscribed
LETHAL_OBSTACLE == 2
NO_INFORMATION == 3

Cells == 1..NumCells
Robot == 1
Blank(cost) == [c \in Cells |-> cost]
MapCost == {FREE_SPACE, LETHAL_OBSTACLE, NO_INFORMATION}
ASSUME MapAssumption == Map \subseteq [Cells -> MapCost] /\ MapUpdate \subseteq [cell : Cells, cost : MapCost]
ASSUME NoneAssumption == None \notin [lo : Int, hi : Int]

VARIABLES
  static,      \* StaticLayer: [costmap, incoming, received, in_bounds, map_buffer, updated, current]
  obstacle,    \* ObstacleLayer: [costmap, extra, was_reset, current]
  buffer,      \* ObservationBuffer: the cell last seen occupied, and isCurrent()
  inflation,   \* InflationLayer: [last, need_reinflation, current]
  master,      \* combined_costmap_
  window,      \* what updateCosts() will rewrite; None while the mutex is free
  fresh,       \* no layer changed since the last update began
  wiped        \* the master lacks the map: "no", or since a "reset" or a "resize"

gridVars == <<static, obstacle, buffer, inflation, master, window, fresh, wiped>>

Everything == [lo |-> 1, hi |-> NumCells]
Nothing == [lo |-> NumCells + 1, hi |-> 0]
Join(a, b) == [lo |-> IF a.lo < b.lo THEN a.lo ELSE b.lo, hi |-> IF a.hi > b.hi THEN a.hi ELSE b.hi]

GridInit ==
  /\ static = [costmap |-> Blank(FREE_SPACE), incoming |-> None, received |-> FALSE,
               in_bounds |-> FALSE, map_buffer |-> None, updated |-> FALSE, current |-> FALSE]
  /\ obstacle = [costmap |-> Blank(NO_INFORMATION), extra |-> FALSE, was_reset |-> FALSE, current |-> TRUE]
  /\ buffer = [hit |-> None, current |-> TRUE]
  /\ inflation = [last |-> Everything, need_reinflation |-> TRUE, current |-> TRUE]
  /\ master = Blank(NO_INFORMATION)
  /\ window = None /\ fresh = FALSE /\ wiped = "no"

Unlocked == window = None

\* isCurrent(): read without the mutex.
isCurrent == static.current /\ obstacle.current /\ inflation.current

-----------------------------------------------------------------------------
(* The layers' callbacks.                                                  *)

\* LayeredCostmap::resizeMap(): the master and the layers are blank and of the new size.
resizeMap ==
  /\ obstacle' = [obstacle EXCEPT !.costmap = Blank(NO_INFORMATION)]
  /\ master' = Blank(NO_INFORMATION)
  /\ wiped' = "resize" /\ fresh' = FALSE

\* processMap(), what it does after resizing.
processMap(map) == [static EXCEPT !.costmap = map, !.updated = TRUE, !.current = TRUE]

\* The first map resizes everything, under the master's mutex; a later one waits for
\* the next update.
incomingMap(map) ==
  \/ /\ ~static.received /\ static.incoming = None /\ Unlocked
     /\ static' = [static EXCEPT !.incoming = map]
     /\ resizeMap
     /\ UNCHANGED <<buffer, inflation, window>>
  \/ /\ static.received
     /\ static' = [static EXCEPT !.map_buffer = map]
     /\ UNCHANGED <<obstacle, buffer, inflation, master, window, fresh, wiped>>

\* The first map is then loaded under the layer's mutex.
incomingMap_loads ==
  /\ static.incoming # None
  /\ static' = [processMap(static.incoming) EXCEPT !.incoming = None, !.received = TRUE]
  /\ fresh' = FALSE
  /\ UNCHANGED <<obstacle, buffer, inflation, master, window, wiped>>

\* A partial map; before the first map there is no room for it.
incomingUpdate(update) ==
  /\ static.received
  /\ static' = [static EXCEPT !.costmap[update.cell] = update.cost, !.updated = TRUE]
  /\ fresh' = FALSE
  /\ UNCHANGED <<obstacle, buffer, inflation, master, window, wiped>>

\* A cloud: the ray from the robot ends at hit.
bufferCloud(hit) ==
  /\ buffer' = [hit |-> hit, current |-> TRUE]
  /\ UNCHANGED <<static, obstacle, inflation, master, window, fresh, wiped>>

\* expected_update_rate passes without a cloud.
bufferExpires ==
  /\ buffer.current /\ buffer' = [buffer EXCEPT !.current = FALSE]
  /\ UNCHANGED <<static, obstacle, inflation, master, window, fresh, wiped>>

onFootprintChanged ==
  /\ inflation' = [inflation EXCEPT !.need_reinflation = TRUE]
  /\ UNCHANGED <<static, obstacle, buffer, master, window, fresh, wiped>>

\* clearLayerRegion(): the area is forgotten, and the whole layer will be rewritten.
clearLayerRegion(area) ==
  [obstacle EXCEPT !.costmap = [c \in Cells |-> IF c \in area THEN NO_INFORMATION ELSE @[c]],
                   !.current = FALSE, !.extra = TRUE]

\* The services that clear a part, around the robot or except around it.
clearRegion(area) ==
  /\ obstacle' = clearLayerRegion(area)
  /\ fresh' = FALSE
  /\ UNCHANGED <<static, buffer, inflation, master, window, wiped>>

\* Mutant: the static layer does not ask for its map to be written again.
StaticLayer_reset_unwritten == [static EXCEPT !.current = FALSE]

\* StaticLayer::reset()
StaticLayer_reset == [static EXCEPT !.current = FALSE, !.updated = TRUE]

\* The service that clears everything: resetLayers() under the master's mutex.
clearEntirely ==
  /\ Unlocked
  /\ master' = Blank(NO_INFORMATION)
  /\ static' = StaticLayer_reset
  /\ obstacle' = [obstacle EXCEPT !.current = FALSE, !.costmap = Blank(NO_INFORMATION), !.was_reset = TRUE]
  /\ buffer' = [buffer EXCEPT !.current = TRUE]
  /\ inflation' = [inflation EXCEPT !.current = FALSE]
  /\ fresh' = FALSE /\ wiped' = IF static.received THEN "reset" ELSE wiped
  /\ UNCHANGED window

-----------------------------------------------------------------------------
(* One update of the master.                                               *)

\* StaticLayer::updateBounds(): a map that waits is loaded first.
StaticLayer_loads == static.received /\ static.map_buffer # None

StaticLayer_bounds ==
  IF static.received /\ (static.updated \/ StaticLayer_loads) THEN Everything ELSE Nothing

StaticLayer_updateBounds ==
  IF static.received
  THEN [IF StaticLayer_loads THEN processMap(static.map_buffer) ELSE static
          EXCEPT !.map_buffer = None, !.updated = FALSE, !.in_bounds = TRUE]
  ELSE [static EXCEPT !.in_bounds = FALSE]

\* The cells the ray of the last cloud passes, cleared, and its end, marked.
raytraced(costmap) ==
  IF buffer.hit = None THEN costmap
  ELSE [c \in Cells |-> IF c = buffer.hit THEN LETHAL_OBSTACLE
                        ELSE IF c < buffer.hit THEN FREE_SPACE ELSE costmap[c]]

\* ObstacleLayer::updateBounds(): the ray, the footprint, and what a clear asked for.
ObstacleLayer_bounds ==
  Join([lo |-> Robot, hi |-> IF buffer.hit = None THEN Robot ELSE buffer.hit],
       IF obstacle.extra THEN Everything ELSE Nothing)

\* Mutant: the window does not reach as far as the inflation of what changed.
InflationLayer_bounds_narrow(bounds) ==
  IF inflation.need_reinflation THEN Everything ELSE Join(inflation.last, bounds)

\* InflationLayer::updateBounds(): this cycle's bounds and the last one's, and the
\* inflation around them.
InflationLayer_bounds(bounds) ==
  IF inflation.need_reinflation THEN Everything
  ELSE LET b == Join(inflation.last, bounds) IN [lo |-> b.lo - Radius, hi |-> b.hi + Radius]

\* Mutant: an observation buffer that is current does not make the layer current again.
ObstacleLayer_current_sticky == obstacle.current /\ buffer.current

\* What ObstacleLayer::updateBounds() makes of current_.
ObstacleLayer_current == buffer.current

\* The first half of LayeredCostmap::updateMap().  A map that waited may have another
\* size, and then resizes the master and the layers.
updateBounds(resizing) ==
  LET bounds == Join(StaticLayer_bounds, ObstacleLayer_bounds)
      before == IF resizing THEN Blank(NO_INFORMATION) ELSE obstacle.costmap
  IN  /\ Unlocked
      /\ resizing => StaticLayer_loads
      /\ static' = StaticLayer_updateBounds
      /\ obstacle' = [obstacle EXCEPT !.costmap = raytraced(before), !.extra = FALSE,
                                      !.current = ObstacleLayer_current]
      /\ inflation' = [inflation EXCEPT !.last = bounds, !.need_reinflation = FALSE]
      /\ master' = IF resizing THEN Blank(NO_INFORMATION) ELSE master
      /\ window' = InflationLayer_bounds(bounds)
      /\ fresh' = TRUE      \* unless a layer changes before the costs are written
      /\ wiped' = IF resizing THEN "resize" ELSE wiped
      /\ UNCHANGED buffer

Within(w) == {c \in Cells : w.lo <= c /\ c <= w.hi}

\* What the static and the obstacle layer, with its footprint cleared, make of a cell.
combined(c) ==
  LET below == IF static.in_bounds THEN static.costmap[c] ELSE NO_INFORMATION
      above == IF c = Robot THEN FREE_SPACE ELSE obstacle.costmap[c]
  IN  IF above = NO_INFORMATION THEN below
      ELSE IF below = NO_INFORMATION \/ below < above THEN above ELSE below

Distance(a, b) == IF a < b THEN b - a ELSE a - b

\* InflationLayer::updateCosts(): an obstacle raises the costs around it, but unknown
\* cells only to inscribed and more.
inflated(grid, cells) ==
  [c \in Cells |->
     IF c \in cells /\ grid[c] = FREE_SPACE
          /\ \E o \in Cells : grid[o] = LETHAL_OBSTACLE /\ Distance(c, o) <= Radius
     THEN INFLATED ELSE grid[c]]

\* The master after a window was rewritten.
rewritten(cells) ==
  inflated([c \in Cells |-> IF c \in cells THEN combined(c) ELSE master[c]], cells)

\* The second half of updateMap().
updateCosts ==
  LET cells == Within(window)
  IN  /\ window # None
      /\ master' = rewritten(cells)
      /\ static' = [static EXCEPT !.current = @ \/ static.in_bounds]
      /\ obstacle' = [obstacle EXCEPT !.costmap[Robot] = FREE_SPACE,
                                      !.current = @ \/ obstacle.was_reset,
                                      !.was_reset = @ /\ obstacle.current]
      /\ inflation' = [inflation EXCEPT !.current = @ \/ Radius > 0]
      /\ window' = None
      /\ wiped' = IF cells = Cells THEN "no" ELSE wiped
      /\ UNCHANGED <<buffer, fresh>>

-----------------------------------------------------------------------------

\* Window by window, the master becomes what one would get by writing every layer
\* into an empty grid: no obstacle, no clearing and no inflation is left behind or
\* lost, whatever came between two updates or between the halves of one.
MasterMatchesLayers ==
  Unlocked /\ fresh => master = inflated([c \in Cells |-> combined(c)], Cells)

\* "Don't compute a plan until costmap is valid (after clear costmap)": from the
\* moment a clear request has blanked the master until the map is back in it,
\* a planner that could take the mutex finds the costmap not current.
ClearedIsNotCurrent == Unlocked /\ wiped = "reset" => ~isCurrent

\* "If the layer is not up to date, then it may be unsafe to plan using the data from
\* this layer": a planner that could take the mutex never finds a blank master current.
BlankIsNotCurrent == Unlocked /\ wiped # "no" => ~isCurrent

=============================================================================
