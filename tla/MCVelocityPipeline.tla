------------------------- MODULE MCVelocityPipeline -------------------------
(***************************************************************************)
(* Zones of every type, the stop zone last, so that the earlier ones are   *)
(* looked at; the limit zone restricts the rotation more than the speed.   *)
(***************************************************************************)
EXTENDS VelocityPipeline

MCZones ==
  << [type |-> "SLOWDOWN", ratio |-> 2],
     [type |-> "LIMIT", linear |-> 4, angular |-> 1],
     [type |-> "APPROACH", time |-> 2],
     [type |-> "STOP"] >>

\* Backwards, a stop, and faster than allowed.
MCCommand == {-2, 0, 3}

MCIncoming == {<<4 * x, 4 * w>> : x \in Velocity, w \in 0..1}

=============================================================================
