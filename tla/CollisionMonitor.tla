-------------------------- MODULE CollisionMonitor --------------------------
(***************************************************************************)
(* nav2_collision_monitor: every velocity that comes in is reduced to what *)
(* the zones around the robot allow, or to zero when a sensor is silent,   *)
(* and handed to the robot.  Nothing happens without a velocity coming in. *)
(*                                                                         *)
(* A velocity is <<x, tw>>, the linear and the angular part, in quarters   *)
(* of the unit of the velocity that comes in, so that ratios stay exact.   *)
(* What a zone sees is its hit: Unseen, or the time before the collision for *)
(* an approach zone and any value for the others.  A zone that is disabled *)
(* or has no shape sees nothing.                                           *)
(***************************************************************************)
EXTENDS Integers, Sequences, FiniteSetsExt

CONSTANTS
  Source,    \* sources_, those that are enabled
  Untimed,   \* the sources with source_timeout = 0
  Incoming,  \* the velocities that may come in
  Zones,     \* polygons_: a sequence of zones
  Unseen     \* a zone in which nothing is seen

ASSUME SourcesAssumption == Untimed \subseteq Source

\* The types of polygon, with the parameters each is configured with.
Zone ==
  [type : {"STOP"}] \cup [type : {"SLOWDOWN"}, ratio : Int]
    \cup [type : {"LIMIT"}, linear : Int, angular : Int]
    \cup [type : {"APPROACH"}, time : Nat \ {0}]

ASSUME ZonesAssumption == Zones \in Seq(Zone) /\ Incoming \subseteq Int \X Int

VARIABLES
  process_active,   \* process_active_
  req_vel_prev,     \* robot_action_prev_.req_vel: "zero" or "moving"
  stop_old,         \* now() - stop_stamp_ > stop_pub_timeout_
  valid,            \* the sources whose getData() would succeed
  cmd_vel_out       \* the velocity the robot was sent last

monitorVars == <<process_active, req_vel_prev, stop_old, valid, cmd_vel_out>>

Standing == <<0, 0>>

MonitorInit ==
  /\ process_active = FALSE /\ req_vel_prev = "moving" /\ stop_old = TRUE
  /\ valid = {} /\ cmd_vel_out = Standing

-----------------------------------------------------------------------------

Scale(u, num, den) == <<(u[1] * num) \div den, (u[2] * num) \div den>>
Size(u) == u[1] * u[1] + u[2] * u[2]      \* what Velocity::operator< compares

Bound(x, limit) == IF x > limit THEN limit ELSE IF x < -limit THEN -limit ELSE x

\* The velocity that a zone in which something is seen allows.
safe_vel(zone, hit, u) ==
  CASE zone.type = "STOP"     -> Standing
    [] zone.type = "SLOWDOWN" -> Scale(u, zone.ratio, 4)
    [] zone.type = "LIMIT"    -> <<Bound(u[1], zone.linear), Bound(u[2], zone.angular)>>
    [] zone.type = "APPROACH" -> Scale(u, hit, zone.time)

\* Mutant: the last zone that sees something decides.
safer_last(v, u) == TRUE

\* "Check that currently calculated velocity is safer than chosen for previous
\* shapes one".
safer(v, u) == Size(v) < Size(u)

\* What one zone makes of the action chosen so far, for the velocity u that
\* came in: processStopSlowdownLimit() and processApproach().
processZone(action, zone, hit, u) ==
  IF hit # Unseen /\ (zone.type = "STOP" \/ safer(safe_vel(zone, hit, u), action.req_vel))
  THEN [action_type |-> zone.type, req_vel |-> safe_vel(zone, hit, u)]
  ELSE action

\* The loop over the zones, which ends at the first that stops the robot.
robot_action(u, hits) ==
  LET action[i \in 0..Len(Zones)] ==
        IF i = 0 THEN [action_type |-> "DO_NOTHING", req_vel |-> u]
        ELSE LET chosen == action[i - 1]
             IN  IF chosen.action_type = "STOP" THEN chosen
                 ELSE processZone(chosen, Zones[i], hits[i], u)
  IN  action[Len(Zones)]

\* What the zones may see.
Hits(zone) == {Unseen} \cup (IF zone.type = "APPROACH" THEN 0..zone.time ELSE {0})
AllHits == {h \in [1..Len(Zones) -> {Unseen} \cup UNION {Hits(Zones[i]) : i \in 1..Len(Zones)}] :
              \A i \in 1..Len(Zones) : h[i] \in Hits(Zones[i])}

\* Mutant: a stop is not sent again to a robot that was already stopping.
ceased_early(v) == v = Standing

\* A zero velocity is no longer sent once the last stop is stop_pub_timeout_ old.
ceased(v) == v = Standing /\ req_vel_prev = "zero" /\ stop_old

\* publishVelocity() and the saving of the action.
publishVelocity(v) ==
  /\ IF ceased(v) THEN UNCHANGED <<cmd_vel_out, stop_old>>
     ELSE /\ cmd_vel_out' = v
          /\ stop_old' = IF v = Standing /\ req_vel_prev # "zero" THEN FALSE ELSE stop_old
  /\ req_vel_prev' = IF v = Standing THEN "zero" ELSE "moving"

\* Mutant: a silent source only means that there are no points from it.
sourcesValid_ignored == TRUE

\* Every source whose time is limited has data that is new and can be transformed.
sourcesValid == Source \ Untimed \subseteq valid

\* What the zones may make of the velocity u.
Allowed == [u \in Incoming |-> {robot_action(u, hits).req_vel : hits \in AllHits}]

\* process(): a velocity u comes in.
process(u) ==
  /\ IF ~process_active THEN UNCHANGED <<req_vel_prev, stop_old, cmd_vel_out>>
     ELSE \E v \in IF sourcesValid THEN Allowed[u] ELSE {Standing} : publishVelocity(v)
  /\ UNCHANGED <<process_active, valid>>

\* stop_pub_timeout_ passes.
stop_pub_timeout ==
  /\ ~stop_old /\ stop_old' = TRUE
  /\ UNCHANGED <<process_active, req_vel_prev, valid, cmd_vel_out>>

\* Data comes from a source.
dataCallback(s) ==
  /\ s \notin valid /\ valid' = valid \cup {s}
  /\ UNCHANGED <<process_active, req_vel_prev, stop_old, cmd_vel_out>>

\* The data of a source becomes too old, or cannot be transformed.
sourceExpires(s) ==
  /\ s \in valid /\ valid' = valid \ {s}
  /\ UNCHANGED <<process_active, req_vel_prev, stop_old, cmd_vel_out>>

CollisionMonitor_on_activate ==
  /\ ~process_active /\ process_active' = TRUE
  /\ UNCHANGED <<req_vel_prev, stop_old, valid, cmd_vel_out>>

\* The action is forgotten; the robot is sent nothing.
CollisionMonitor_on_deactivate ==
  /\ process_active /\ process_active' = FALSE
  /\ req_vel_prev' = "moving"
  /\ UNCHANGED <<stop_old, valid, cmd_vel_out>>

-----------------------------------------------------------------------------

\* For every velocity and whatever the zones see, the velocity chosen is as small as
\* the smallest that a triggered zone allows.
ChoosesSmallest ==
  \A u \in Incoming, hits \in AllHits :
    Size(robot_action(u, hits).req_vel) =
      Min({Size(u)} \cup {Size(safe_vel(Zones[i], hits[i], u)) :
                            i \in {j \in 1..Len(Zones) : hits[j] # Unseen}})

\* "When multiple zones trigger at once, the most aggressive one is used": whenever the
\* zones are looked at, the zone that slows the robot most decides, in whatever order
\* they stand and although the loop ends at the first that stops the robot.
MostAggressiveZone == process_active /\ sourcesValid => ChoosesSmallest

\* A monitor that remembers a stop has sent it to the robot, and nothing else
\* since: ceasing to publish after stop_pub_timeout never leaves the robot with an
\* older velocity, whatever was deactivated in between.
StopIsSent == req_vel_prev = "zero" => cmd_vel_out = Standing

=============================================================================
