---------------------------- MODULE Costmap2DROS ----------------------------
(***************************************************************************)
(* nav2_costmap_2d, the node around the grid of LayeredCostmap: the        *)
(* lifecycle transitions, the thread that updates the master, and the      *)
(* callbacks, which the costmap's own executor runs in any state of the    *)
(* node.                                                                   *)
(***************************************************************************)
EXTENDS LayeredCostmap

CONSTANT ClearArea       \* what a request may clear: around the robot, or all but that
ASSUME AreaAssumption == ClearArea \subseteq SUBSET Cells

VARIABLES
  costmap_node,           \* "inactive", "starting", "active" or "stopping"
  mapUpdate,      \* the update thread: "none", "sleep", "bounds", "costs" or "end"
  initialized, stopped, stop_updates, shutdown,
  cycled          \* whether an update has "begun" and ended since start()

rosVars == <<costmap_node, mapUpdate, initialized, stopped, stop_updates, shutdown, cycled>>
costmapVars == <<gridVars, rosVars>>

CostmapInit ==
  /\ GridInit
  /\ costmap_node = "inactive" /\ mapUpdate = "none"
  /\ initialized = FALSE /\ stopped = TRUE /\ stop_updates = FALSE /\ shutdown = FALSE
  /\ cycled = "no"

-----------------------------------------------------------------------------
(* The transitions.  start() returns once initialized_ is set, stop() is   *)
(* followed by a join of the thread.  Nothing calls pause() and resume().  *)

Costmap2DROS_on_activate ==
  /\ costmap_node = "inactive" /\ costmap_node' = "starting"
  /\ mapUpdate' = "sleep" /\ stop_updates' = FALSE /\ shutdown' = FALSE
  /\ stopped' = FALSE            \* start(), which activates the layers
  /\ buffer' = [buffer EXCEPT !.current = TRUE]
  /\ cycled' = "no"
  /\ UNCHANGED <<initialized, static, obstacle, inflation, master, window, fresh, wiped>>

start_returns ==
  /\ costmap_node = "starting" /\ initialized /\ costmap_node' = "active"
  /\ cycled' = "no"
  /\ UNCHANGED <<gridVars, mapUpdate, initialized, stopped, stop_updates, shutdown>>

\* Mutant: the thread is joined without being told to end.
Costmap2DROS_on_deactivate_running ==
  /\ costmap_node = "active" /\ costmap_node' = "stopping"
  /\ stop_updates' = TRUE /\ initialized' = FALSE /\ stopped' = TRUE
  /\ UNCHANGED <<gridVars, mapUpdate, shutdown, cycled>>

Costmap2DROS_on_deactivate ==
  /\ costmap_node = "active" /\ costmap_node' = "stopping"
  /\ stop_updates' = TRUE /\ initialized' = FALSE /\ stopped' = TRUE   \* stop()
  /\ shutdown' = TRUE
  /\ UNCHANGED <<gridVars, mapUpdate, cycled>>

joined ==
  /\ costmap_node = "stopping" /\ mapUpdate = "none" /\ costmap_node' = "inactive"
  /\ UNCHANGED <<gridVars, mapUpdate, initialized, stopped, stop_updates, shutdown, cycled>>

-----------------------------------------------------------------------------
(* mapUpdateLoop().                                                        *)

\* The loop ends once it is told to.
mapUpdateLoop_ends ==
  /\ mapUpdate = "sleep" /\ shutdown /\ mapUpdate' = "none"
  /\ UNCHANGED <<gridVars, costmap_node, initialized, stopped, stop_updates, shutdown, cycled>>

\* A cycle does nothing unless the layers are active, updates are on, and the pose of
\* the robot is known, of which only the outcome is seen here.
updateMap ==
  /\ mapUpdate = "sleep" /\ ~shutdown /\ ~stopped /\ ~stop_updates
  /\ mapUpdate' = "bounds"
  /\ cycled' = IF costmap_node = "starting" /\ cycled = "no" THEN "begun" ELSE cycled
  /\ UNCHANGED <<gridVars, costmap_node, initialized, stopped, stop_updates, shutdown>>

updateMap_bounds ==
  /\ mapUpdate = "bounds" /\ mapUpdate' = "costs"
  /\ \E resizing \in BOOLEAN : updateBounds(resizing)
  /\ UNCHANGED <<costmap_node, initialized, stopped, stop_updates, shutdown, cycled>>

updateMap_costs ==
  /\ mapUpdate = "costs" /\ mapUpdate' = "end"
  /\ updateCosts
  /\ cycled' = IF cycled = "begun" THEN "yes" ELSE cycled
  /\ UNCHANGED <<costmap_node, initialized, stopped, stop_updates, shutdown>>

updateMap_ends ==
  /\ mapUpdate = "end" /\ mapUpdate' = "sleep"
  /\ initialized' = TRUE
  /\ UNCHANGED <<gridVars, costmap_node, stopped, stop_updates, shutdown, cycled>>

-----------------------------------------------------------------------------
(* The callbacks.  A cloud is only received while the layers are active.   *)

Clears ==
  /\ \/ clearEntirely
     \/ \E area \in ClearArea : clearRegion(area)
  /\ UNCHANGED rosVars

Hears ==
  /\ \/ \E map \in Map : incomingMap(map)
     \/ incomingMap_loads
     \/ \E update \in MapUpdate : incomingUpdate(update)
     \/ ~stopped /\ \E hit \in Cells \ {Robot} : bufferCloud(hit)
     \/ bufferExpires
     \/ onFootprintChanged
  /\ UNCHANGED rosVars

UpdateThread == updateMap \/ updateMap_bounds \/ updateMap_costs \/ updateMap_ends \/ mapUpdateLoop_ends

Transitions == Costmap2DROS_on_activate \/ start_returns \/ Costmap2DROS_on_deactivate \/ joined

CostmapNext == UpdateThread \/ Transitions \/ Clears \/ Hears

\* The thread runs, transitions that can return do, and the robot's pose is known
\* again and again.
CostmapFairness ==
  /\ WF_costmapVars(UpdateThread) /\ WF_costmapVars(start_returns) /\ WF_costmapVars(joined)

CostmapSpec == CostmapInit /\ [][CostmapNext]_costmapVars /\ CostmapFairness

-----------------------------------------------------------------------------

\* Every start() returns and every on_deactivate() has joined the update
\* thread in the end, whatever the thread was doing when the flags were set.
TransitionsComplete == []<>(costmap_node \in {"active", "inactive"})

\* waitForCostmap() has no time limit: while the robot has a map, is active and hears
\* its sensor, the costmap is current again and again, however often it is cleared
\* entirely; requests to clear a part must end, since they can undo every update.
CostmapBecomesCurrent ==
  <>[](costmap_node = "active" /\ static.received /\ buffer.current /\ ~obstacle.extra) => []<>isCurrent

\* "block until the costmap is re-initialized.. meaning one update cycle has run".
StartRunsACycle == [][costmap_node = "starting" /\ costmap_node' = "active" => cycled = "yes"]_costmapVars

=============================================================================
