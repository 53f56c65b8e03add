----------------------- MODULE VelocityPipelineProofs -----------------------
(***************************************************************************)
(* What holds of the velocity pipeline for all limits, zones and sources.  *)
(***************************************************************************)
EXTENDS VelocityPipeline, WellFoundedInduction, TLAPS

\* A monitor that remembers a stop has sent it to the robot (publishVelocity,
\* on_deactivate).  The invariant is inductive as it stands.
THEOREM StopIsSentTheorem == Spec => []StopIsSent
<1>1. Init => StopIsSent
  BY DEF Init, MonitorInit, StopIsSent
<1>2. StopIsSent /\ [Next]_vars => StopIsSent'
  <2> SUFFICES ASSUME StopIsSent, [Next]_vars PROVE StopIsSent'
    OBVIOUS
  <2>1. CASE UNCHANGED monitorVars
    BY <2>1 DEF StopIsSent, monitorVars
  <2>2. CASE cmdVelInCallbackStamped
    <3>1. ASSUME NEW v, publishVelocity(v) PROVE StopIsSent'
      BY <3>1 DEF publishVelocity, ceased, StopIsSent
    <3>2. ASSUME UNCHANGED <<req_vel_prev, stop_old, cmd_vel_out>> PROVE StopIsSent'
      BY <3>2 DEF StopIsSent
    <3> QED
      BY <2>2, <3>1, <3>2, Zenon DEF cmdVelInCallbackStamped, process
  <2>3. CASE Surroundings
    BY <2>3 DEF Surroundings, stop_pub_timeout, dataCallback, sourceExpires, StopIsSent
  <2>4. CASE CollisionMonitor_on_activate \/ CollisionMonitor_on_deactivate
    <3>1. CASE CollisionMonitor_on_activate
      BY <3>1 DEF CollisionMonitor_on_activate, StopIsSent
    <3>2. CASE CollisionMonitor_on_deactivate
      BY <3>2 DEF CollisionMonitor_on_deactivate, StopIsSent
    <3> QED
      BY <2>4, <3>1, <3>2
  <2> QED
    BY <2>1, <2>2, <2>3, <2>4
    DEF Next, vars, commands, fallsSilent, commandAges, smoothes, Transitions
<1> QED
  BY <1>1, <1>2, PTL DEF Spec

-----------------------------------------------------------------------------

\* The sign of a product, which the arithmetic of the steps below turns on.
LEMMA SameSide ==
  ASSUME NEW a \in Int, NEW b \in Int
  PROVE  a * b >= 0 <=> (a >= 0 /\ b >= 0) \/ (a <= 0 /\ b <= 0)
<1>1. CASE a >= 0 /\ b >= 0
  BY <1>1, Z3
<1>2. CASE a <= 0 /\ b <= 0
  BY <1>2, Z3
<1>3. CASE a > 0 /\ b < 0
  BY <1>3, Z3
<1>4. CASE a < 0 /\ b > 0
  BY <1>4, Z3
<1> QED
  BY <1>1, <1>2, <1>3, <1>4

\* A change of velocity within the limit of its direction.
Limited(v, curr) ==
  IF Abs(v) > Abs(curr) /\ v * curr >= 0
  THEN Abs(v - curr) <= MaxAccel ELSE Abs(v - curr) <= MaxDecel

\* applyConstraints() stays within the limits, wherever the command lies.
LEMMA StepLimited ==
  ASSUME NEW curr \in Int, NEW cmd \in Int, NEW v \in applyConstraints(curr, cmd)
  PROVE  v \in Int /\ Limited(v, curr)
<1> DEFINE lim == step_limit(curr, cmd)
           full == Clamp(cmd - curr, -lim, lim)
<1>1. lim \in Nat /\ MaxAccel \in Nat /\ MaxDecel \in Nat
  BY LimitsAssumption DEF step_limit
<1>2. full \in Int /\ (full = 0 \/ (full > 0 /\ full <= lim /\ curr + full <= cmd)
                             \/ (full < 0 /\ -full <= lim /\ curr + full >= cmd))
  BY <1>1 DEF Clamp
<1>3. /\ v \in Int
      /\ \/ v = curr
         \/ curr < v /\ v <= cmd /\ v - curr <= lim
         \/ cmd <= v /\ v < curr /\ curr - v <= lim
  BY <1>1, <1>2 DEF applyConstraints
<1>4. v * curr >= 0 <=> (v >= 0 /\ curr >= 0) \/ (v <= 0 /\ curr <= 0)
  BY <1>3, SameSide
<1>5. curr * cmd >= 0 <=> (curr >= 0 /\ cmd >= 0) \/ (curr <= 0 /\ cmd <= 0)
  BY SameSide
<1>6. CASE Abs(cmd) >= Abs(curr) /\ curr * cmd >= 0
  <2>1. lim = MaxAccel
    BY <1>6 DEF step_limit
  <2>2. v = curr \/ (Abs(v) > Abs(curr) /\ v * curr >= 0)
    BY <1>3, <1>4, <1>5, <1>6 DEF Abs
  <2> QED
    BY <1>1, <1>3, <2>1, <2>2 DEF Limited, Abs
<1>7. CASE ~(Abs(cmd) >= Abs(curr) /\ curr * cmd >= 0)
  <2>1. lim = MaxDecel
    BY <1>7 DEF step_limit
  <2>2. ~(Abs(v) > Abs(curr) /\ v * curr >= 0)
    BY <1>3, <1>4, <1>5, <1>7 DEF Abs
  <2> QED
    BY <1>1, <1>3, <2>1, <2>2 DEF Limited, Abs
<1> QED
  BY <1>6, <1>7

\* The command and, without feedback, what was sent last are velocities.
Velocities ==
  /\ command # None => command \in [v : Int, stamp : BOOLEAN]
  /\ open_loop => last_cmd \in [v : Int, stamp : BOOLEAN]

\* A step of the timer, without feedback.
LEMMA TimerStep ==
  ASSUME Velocities, smoothes, open_loop' = open_loop
  PROVE  /\ command' \in [v : Int, stamp : BOOLEAN]
         /\ open_loop => last_cmd' \in [v : Int, stamp : BOOLEAN] /\ Limited(last_cmd'.v, last_cmd.v)
<1> DEFINE curr == IF open_loop THEN last_cmd.v ELSE odom
<1>1. command \in [v : Int, stamp : BOOLEAN] /\ smootherTimer(curr)
  BY DEF smoothes, smootherTimer, Velocities
<1>2. CASE UNCHANGED <<command, last_cmd>>
  <2>1. ASSUME NEW x \in Int PROVE Limited(x, x)
    BY LimitsAssumption DEF Limited, Abs
  <2> QED
    BY <1>1, <1>2, <2>1 DEF Velocities
<1>3. CASE smoothen(curr)
  <2>1. command' \in [v : Int, stamp : BOOLEAN]
    <3> DEFINE c == timed_out(command)
    <3>1. c \in [v : Int, stamp : BOOLEAN]
      BY <1>1 DEF timed_out, Zero
    <3>2. Clamp(c.v, -MaxVelocity, MaxVelocity) \in Int
      BY <3>1, LimitsAssumption DEF Clamp
    <3>3. command' = [c EXCEPT !.v = Clamp(c.v, -MaxVelocity, MaxVelocity)]
      BY <1>3 DEF smoothen
    <3> HIDE DEF c
    <3> QED
      BY <3>1, <3>2, <3>3
  <2>2. PICK v \in applyConstraints(curr, command'.v) :
          last_cmd' = [v |-> v, stamp |-> command.stamp]
    BY <1>3 DEF smoothen
  <2>3. open_loop => v \in Int /\ Limited(v, last_cmd.v)
    BY <2>1, <2>2, StepLimited DEF Velocities
  <2> QED
    BY <1>1, <2>1, <2>2, <2>3
<1> QED
  BY <1>1, <1>2, <1>3 DEF smootherTimer

\* Velocities is inductive: only a command and a step of the timer touch it.
LEMMA VelocitiesStep ==
  ASSUME Velocities, Next
  PROVE  Velocities' /\ (open_loop => smoothes \/ last_cmd' = last_cmd)
<1>0. open_loop' = open_loop
  BY DEF Next
<1>1. CASE smoothes
  BY <1>0, <1>1, TimerStep DEF Velocities
<1>2. CASE commands
  BY <1>0, <1>2, CommandAssumption DEF commands, inputCommandStampedCallback, Velocities
<1>3. CASE UNCHANGED <<command, last_cmd>>
  BY <1>0, <1>3 DEF Velocities
<1> QED
  BY <1>1, <1>2, <1>3
  DEF Next, smootherVars, fallsSilent, commandAges, timeout, cmdVelInCallbackStamped, Surroundings,
      Transitions, VelocitySmoother_on_activate, VelocitySmoother_on_deactivate

\* Without feedback no two velocities the smoother sends in a row differ by more
\* than the limits allow (applyConstraints, smootherTimer), for every limit.
THEOREM AccelerationTheorem == Spec => AccelerationIsLimited
<1>1. Init => Velocities
  BY DEF Init, SmootherInit, Velocities, Zero
<1>2. Velocities /\ [Next]_vars => Velocities'
  BY VelocitiesStep DEF vars, smootherVars, Velocities
<1>3. ASSUME Velocities, [Next]_vars, open_loop
      PROVE  Limited(last_cmd'.v, last_cmd.v)
  <2>1. ASSUME last_cmd' = last_cmd PROVE Limited(last_cmd'.v, last_cmd.v)
    BY <1>3, <2>1, LimitsAssumption DEF Limited, Abs, Velocities
  <2>2. ASSUME smoothes, open_loop' = open_loop PROVE Limited(last_cmd'.v, last_cmd.v)
    BY <1>3, <2>2, TimerStep
  <2> QED
    BY <1>3, <2>1, <2>2, VelocitiesStep DEF vars, smootherVars, Next
<1> QED
  <2> DEFINE A == open_loop => Limited(last_cmd'.v, last_cmd.v)
  <2>1. Velocities /\ [Next]_vars => [A]_vars
    BY <1>3
  <2>2. [A]_vars => [LET dv == Abs(last_cmd'.v - last_cmd.v)
     IN  open_loop => IF Abs(last_cmd'.v) > Abs(last_cmd.v) /\ last_cmd'.v * last_cmd.v >= 0
                     THEN dv <= MaxAccel ELSE dv <= MaxDecel]_vars
    BY DEF Limited
  <2> QED
    BY <1>1, <1>2, <2>1, <2>2, PTL DEF Spec, AccelerationIsLimited

-----------------------------------------------------------------------------

\* A set of numbers has a least one.
LEMMA LeastNat ==
  ASSUME NEW T, T \subseteq Nat, T # {}
  PROVE  \E m \in T : \A n \in T : m <= n
<1> DEFINE R == OpToRel(<, Nat)
<1>1. IsWellFoundedOn(R, Nat)
  BY NatLessThanWellFounded
<1>2. PICK m \in T : \A n \in T : ~(<<n, m>> \in R)
  <2> HIDE DEF R
  <2> QED
    BY <1>1, WFMin
<1>3. \A n \in T : ~(n < m)
  BY <1>2 DEF OpToRel
<1> QED
  BY <1>3

\* Induction: the set of the numbers that have a property holds all of them.
LEMMA Induction ==
  ASSUME NEW T, 0 \in T, \A n \in Nat : n \in T => n + 1 \in T
  PROVE  Nat \subseteq T
<1> SUFFICES ASSUME NEW k \in Nat, k \notin T PROVE FALSE
  OBVIOUS
<1> DEFINE U == {n \in Nat : n \notin T}
<1>1. PICK m \in U : \A n \in U : m <= n
  <2>1. U \subseteq Nat /\ U # {}
    OBVIOUS
  <2> HIDE DEF U
  <2> QED
    BY <2>1, LeastNat
<1>2. m # 0
  OBVIOUS
<1>3. m - 1 \in Nat /\ m - 1 \notin U
  BY <1>1, <1>2
<1> QED
  BY <1>3, <1>1

\* One turn of the loop over the zones, from the action chosen so far.
Turn(chosen, i, u, hits) ==
  IF chosen.action_type = "STOP" THEN chosen ELSE processZone(chosen, Zones[i], hits[i], u)

\* The actions chosen after each zone up to the k-th.
Chosen(f, k, u, hits) ==
  f = [i \in 0..k |-> IF i = 0 THEN [action_type |-> "DO_NOTHING", req_vel |-> u]
                      ELSE Turn(f[i - 1], i, u, hits)]

\* The loop runs through: there is an action after every zone.
LEMMA LoopRuns ==
  ASSUME NEW u, NEW hits, NEW k \in Nat
  PROVE  \E f : Chosen(f, k, u, hits)
<1> DEFINE T == {n \in Nat : \E f : Chosen(f, n, u, hits)}
<1>1. 0 \in T
  <2> DEFINE f == [i \in 0..0 |-> [action_type |-> "DO_NOTHING", req_vel |-> u]]
  <2>1. Chosen(f, 0, u, hits)
    BY DEF Chosen
  <2> QED
    BY <2>1
<1>2. ASSUME NEW n \in Nat, n \in T PROVE n + 1 \in T
  <2>1. PICK f : Chosen(f, n, u, hits)
    BY <1>2
  <2> DEFINE g == [i \in 0..(n + 1) |-> IF i <= n THEN f[i] ELSE Turn(f[n], n + 1, u, hits)]
  <2>2. ASSUME NEW i \in 0..(n + 1)
        PROVE  g[i] = IF i = 0 THEN [action_type |-> "DO_NOTHING", req_vel |-> u]
                      ELSE Turn(g[i - 1], i, u, hits)
    <3>1. CASE i = 0
      BY <2>1, <3>1 DEF Chosen
    <3>2. CASE i # 0 /\ i <= n
      <4>1. g[i] = f[i] /\ g[i - 1] = f[i - 1] /\ i \in 0..n
        BY <3>2
      <4> QED
        BY <2>1, <3>2, <4>1 DEF Chosen
    <3>3. CASE i = n + 1
      <4>1. g[i] = Turn(f[n], n + 1, u, hits) /\ i - 1 = n /\ g[n] = f[n]
        BY <3>3
      <4> QED
        BY <3>3, <4>1
    <3> QED
      BY <3>1, <3>2, <3>3
  <2>3. Chosen(g, n + 1, u, hits)
    <3>1. g = [i \in 0..(n + 1) |-> g[i]]
      OBVIOUS
    <3> HIDE DEF g
    <3> QED
      BY <2>2, <3>1 DEF Chosen
  <2> QED
    BY <2>3
<1>3. Nat \subseteq T
  <2> HIDE DEF T
  <2> QED
    BY <1>1, <1>2, Induction
<1> QED
  BY <1>3

\* robot_action() is the action chosen after the last zone.
LEMMA LoopResult ==
  ASSUME NEW u, NEW hits
  PROVE  \E f : Chosen(f, Len(Zones), u, hits) /\ robot_action(u, hits) = f[Len(Zones)]
<1>1. Len(Zones) \in Nat
  BY ZonesAssumption
<1> DEFINE act == CHOOSE f : f = [i \in 0..Len(Zones) |->
                    IF i = 0 THEN [action_type |-> "DO_NOTHING", req_vel |-> u]
                    ELSE LET chosen == f[i - 1]
                         IN  IF chosen.action_type = "STOP" THEN chosen
                             ELSE processZone(chosen, Zones[i], hits[i], u)]
<1>2. robot_action(u, hits) = act[Len(Zones)]
  BY DEF robot_action
<1>3. \E f : Chosen(f, Len(Zones), u, hits)
  BY <1>1, LoopRuns
<1>4. Chosen(act, Len(Zones), u, hits)
  BY <1>3, Zenon DEF Chosen, Turn
<1> QED
  BY <1>2, <1>4

\* Velocities have a size.
LEMMA SizeIsNatural ==
  ASSUME NEW v \in Int \X Int
  PROVE  Size(v) \in Nat
<1>1. v[1] \in Int /\ v[2] \in Int
  OBVIOUS
<1>2. \A x \in Int : x * x \in Int /\ x * x >= 0
  BY SameSide
<1> QED
  BY <1>1, <1>2 DEF Size

\* What a zone that sees something allows is a velocity.
LEMMA SafeVelIsVelocity ==
  ASSUME NEW u \in Int \X Int, NEW hits \in AllHits, NEW i \in 1..Len(Zones), hits[i] # Unseen
  PROVE  safe_vel(Zones[i], hits[i], u) \in Int \X Int
<1>1. Zones[i] \in Zone
  BY ZonesAssumption
<1>2. hits[i] \in Hits(Zones[i])
  BY DEF AllHits
<1>3. u[1] \in Int /\ u[2] \in Int
  OBVIOUS
<1>4. \A x, y \in Int : x * y \in Int
  OBVIOUS
<1>5. \A x \in Int, d \in Nat \ {0} : x \div d \in Int
  OBVIOUS
<1>6. \A x, l \in Int : Bound(x, l) \in Int
  BY DEF Bound
<1>7. \A n \in Int, d \in Nat \ {0} : Scale(u, n, d) \in Int \X Int
  BY <1>3, <1>4, <1>5 DEF Scale
<1>8. CASE Zones[i] \in [type : {"STOP"}]
  BY <1>8 DEF safe_vel, Standing
<1>9. CASE Zones[i] \in [type : {"SLOWDOWN"}, ratio : Int]
  <2>1. Zones[i].type = "SLOWDOWN" /\ Zones[i].ratio \in Int /\ 4 \in Nat \ {0}
    BY <1>9
  <2> QED
    BY <1>7, <2>1 DEF safe_vel
<1>10. CASE Zones[i] \in [type : {"LIMIT"}, linear : Int, angular : Int]
  BY <1>3, <1>6, <1>10 DEF safe_vel
<1>11. CASE Zones[i] \in [type : {"APPROACH"}, time : Nat \ {0}]
  <2>1. hits[i] \in Int
    BY <1>2, <1>11 DEF Hits
  <2> QED
    BY <1>7, <1>11, <2>1 DEF safe_vel
<1> QED
  BY <1>1, <1>8, <1>9, <1>10, <1>11 DEF Zone

\* The zones among the first k that see something.
Triggered(hits, k) == {i \in 1..k : hits[i] # Unseen}

\* The action a chosen after k zones is as small as the smallest that one of them allows.
Smallest(a, k, u, hits) ==
  /\ a.req_vel \in Int \X Int
  /\ a.action_type = "STOP" => a.req_vel = Standing
  /\ Size(a.req_vel) <= Size(u)
  /\ \A i \in Triggered(hits, k) : Size(a.req_vel) <= Size(safe_vel(Zones[i], hits[i], u))
  /\ \/ Size(a.req_vel) = Size(u)
     \/ \E i \in Triggered(hits, k) : Size(a.req_vel) = Size(safe_vel(Zones[i], hits[i], u))

\* A turn of the loop keeps the smallest, although it does nothing after a stop.
LEMMA TurnKeepsSmallest ==
  ASSUME NEW u \in Int \X Int, NEW hits \in AllHits, NEW k \in Nat, k + 1 <= Len(Zones),
         NEW a, Smallest(a, k, u, hits)
  PROVE  Smallest(Turn(a, k + 1, u, hits), k + 1, u, hits)
<1> DEFINE sv(i) == safe_vel(Zones[i], hits[i], u)
           b == Turn(a, k + 1, u, hits)
<1>1. \A i \in Triggered(hits, k + 1) : sv(i) \in Int \X Int /\ Size(sv(i)) \in Nat
  <2> SUFFICES ASSUME NEW i \in Triggered(hits, k + 1)
               PROVE  sv(i) \in Int \X Int /\ Size(sv(i)) \in Nat
    OBVIOUS
  <2>1. i \in 1..Len(Zones) /\ hits[i] # Unseen
    BY ZonesAssumption DEF Triggered
  <2>2. sv(i) \in Int \X Int
    BY <2>1, SafeVelIsVelocity
  <2> HIDE DEF sv
  <2> QED
    BY <2>2, SizeIsNatural
<1>2. Triggered(hits, k + 1) = Triggered(hits, k) \cup (IF hits[k + 1] # Unseen THEN {k + 1} ELSE {})
  BY DEF Triggered
<1>3. Size(u) \in Nat /\ Size(a.req_vel) \in Nat /\ Size(Standing) = 0
  <2>1. Size(Standing) = 0
    BY DEF Size, Standing
  <2> QED
    BY <2>1, SizeIsNatural DEF Smallest
<1>4. CASE a.action_type = "STOP"
  <2>1. b = a /\ Size(a.req_vel) = 0
    BY <1>3, <1>4 DEF Turn, Smallest
  <2> HIDE DEF sv, b
  <2>2. \A i \in Triggered(hits, k + 1) : Size(a.req_vel) <= Size(sv(i))
    BY <1>1, <2>1
  <2> QED
    BY <1>2, <2>1, <2>2 DEF Smallest, sv, b
<1>5. CASE a.action_type # "STOP" /\ hits[k + 1] = Unseen
  <2>1. b = a
    BY <1>5 DEF Turn, processZone
  <2> QED
    BY <1>2, <1>5, <2>1 DEF Smallest
<1>6. CASE a.action_type # "STOP" /\ hits[k + 1] # Unseen
  <2>1. Zones[k + 1].type = "STOP" => sv(k + 1) = Standing
    BY DEF safe_vel
  <2>2. \/ b = a /\ ~(Size(sv(k + 1)) < Size(a.req_vel))
        \/ /\ b = [action_type |-> Zones[k + 1].type, req_vel |-> sv(k + 1)]
           /\ Zones[k + 1].type = "STOP" \/ Size(sv(k + 1)) < Size(a.req_vel)
    BY <1>6 DEF Turn, processZone, safer
  <2>3. sv(k + 1) \in Int \X Int /\ Size(sv(k + 1)) \in Nat
    BY <1>1, <1>2, <1>6
  <2> HIDE DEF sv, b
  <2>4. CASE b = a /\ ~(Size(sv(k + 1)) < Size(a.req_vel))
    <3>1. Size(a.req_vel) <= Size(sv(k + 1))
      BY <1>3, <2>3, <2>4
    <3> QED
      BY <1>2, <1>6, <2>4, <3>1 DEF Smallest, sv, b
  <2>5. CASE /\ b = [action_type |-> Zones[k + 1].type, req_vel |-> sv(k + 1)]
             /\ Zones[k + 1].type = "STOP" \/ Size(sv(k + 1)) < Size(a.req_vel)
    <3>1. Size(sv(k + 1)) <= Size(a.req_vel)
      BY <1>3, <2>1, <2>3, <2>5
    <3>2. \A i \in Triggered(hits, k) : Size(a.req_vel) <= Size(sv(i))
      BY DEF Smallest, sv
    <3>3. \A i \in Triggered(hits, k + 1) : Size(sv(k + 1)) <= Size(sv(i))
      BY <1>1, <1>2, <1>3, <2>3, <3>1, <3>2
    <3>4. Size(sv(k + 1)) <= Size(u)
      BY <1>3, <2>3, <3>1 DEF Smallest
    <3>5. k + 1 \in Triggered(hits, k + 1)
      BY <1>2, <1>6
    <3>6. b.req_vel = sv(k + 1) /\ b.action_type = Zones[k + 1].type
      BY <2>5
    <3>7. b.action_type = "STOP" => b.req_vel = Standing
      BY <2>1, <3>6
    <3> QED
      BY <2>3, <3>3, <3>4, <3>5, <3>6, <3>7 DEF Smallest, sv, b
  <2> QED
    BY <2>2, <2>4, <2>5
<1> QED
  BY <1>4, <1>5, <1>6

\* The loop over all the zones chooses the smallest.
LEMMA LoopChoosesSmallest ==
  ASSUME NEW u \in Int \X Int, NEW hits \in AllHits
  PROVE  Smallest(robot_action(u, hits), Len(Zones), u, hits)
<1> DEFINE N == Len(Zones)
<1>0. N \in Nat
  BY ZonesAssumption
<1>1. PICK f : Chosen(f, N, u, hits) /\ robot_action(u, hits) = f[N]
  BY LoopResult
<1> HIDE DEF N
<1> DEFINE T == {k \in Nat : k <= N => Smallest(f[k], k, u, hits)}
<1>2. 0 \in T
  <2>1. 0 \in 0..N /\ f[0] = [action_type |-> "DO_NOTHING", req_vel |-> u]
    BY <1>0, <1>1 DEF Chosen
  <2>2. Triggered(hits, 0) = {}
    BY DEF Triggered
  <2>3. Size(u) <= Size(u)
    BY SizeIsNatural
  <2> QED
    BY <2>1, <2>2, <2>3 DEF Smallest
<1>3. ASSUME NEW k \in Nat, k \in T PROVE k + 1 \in T
  <2> SUFFICES ASSUME k + 1 <= N PROVE Smallest(f[k + 1], k + 1, u, hits)
    BY <1>0
  <2>1. Smallest(f[k], k, u, hits)
    BY <1>0, <1>3
  <2>2. k + 1 \in 0..N /\ k + 1 # 0 /\ (k + 1) - 1 = k
    BY <1>0
  <2>3. f[k + 1] = Turn(f[k], k + 1, u, hits)
    BY <1>1, <2>2 DEF Chosen
  <2> QED
    BY <2>1, <2>3, TurnKeepsSmallest DEF N
<1>4. Nat \subseteq T
  <2> HIDE DEF T
  <2> QED
    BY <1>2, <1>3, Induction
<1>5. Smallest(f[N], N, u, hits)
  BY <1>0, <1>4
<1> QED
  BY <1>1, <1>5 DEF N

\* "When multiple zones trigger at once, the most aggressive one is used", for every
\* sequence of zones of every kind (process, processStopSlowdownLimit, processApproach).
THEOREM MostAggressiveTheorem == Spec => []MostAggressiveZone
<1>1. ChoosesSmallest
  <2> SUFFICES ASSUME NEW u \in Incoming, NEW hits \in AllHits
               PROVE  Size(robot_action(u, hits).req_vel) =
                        Min({Size(u)} \cup {Size(safe_vel(Zones[i], hits[i], u)) :
                              i \in {j \in 1..Len(Zones) : hits[j] # Unseen}})
    BY DEF ChoosesSmallest
  <2> DEFINE S == {Size(u)} \cup {Size(safe_vel(Zones[i], hits[i], u)) : i \in Triggered(hits, Len(Zones))}
             m == Size(robot_action(u, hits).req_vel)
  <2>1. u \in Int \X Int
    BY ZonesAssumption
  <2>2. Smallest(robot_action(u, hits), Len(Zones), u, hits)
    BY <2>1, LoopChoosesSmallest
  <2>3. m \in S /\ \A y \in S : m <= y
    BY <2>2 DEF Smallest
  <2>4. S \subseteq Nat
    <3>1. Size(u) \in Nat
      BY <2>1, SizeIsNatural
    <3>2. ASSUME NEW i \in Triggered(hits, Len(Zones)) PROVE Size(safe_vel(Zones[i], hits[i], u)) \in Nat
      BY <2>1, SafeVelIsVelocity, SizeIsNatural DEF Triggered
    <3> QED
      BY <3>1, <3>2
  <2>5. Min(S) = m
    <3> HIDE DEF S, m
    <3>1. \A x, y \in Nat : x <= y /\ y <= x => x = y
      OBVIOUS
    <3> QED
      BY <2>3, <2>4, <3>1 DEF Min
  <2> QED
    BY <2>5 DEF Triggered
<1>2. MostAggressiveZone
  BY <1>1 DEF MostAggressiveZone
<1> QED
  BY <1>2, PTL

-----------------------------------------------------------------------------

\* A number whose square is no larger than that of b lies between -b and b.
LEMMA SquareBounds ==
  ASSUME NEW x \in Int, NEW b \in Int, NEW n \in Nat, x * x + n <= b * b
  PROVE  Abs(x) <= Abs(b)
<1> SUFFICES ASSUME Abs(x) > Abs(b) PROVE FALSE
  BY DEF Abs
<1> DEFINE p == Abs(x)  q == Abs(b)
<1>1. p \in Nat /\ q \in Nat /\ p > q
  BY DEF Abs
<1>2. p * p = x * x /\ q * q = b * b
  <2>1. \A y \in Int : (-y) * (-y) = y * y
    BY Z3
  <2> QED
    BY <2>1 DEF Abs
<1> HIDE DEF p, q
<1>3. p * p = q * q + q * (p - q) + (p - q) * p
  BY <1>1, Z3
<1>4. q * (p - q) >= 0 /\ (p - q) * p > 0
  BY <1>1, Z3
<1>5. x * x <= b * b
  BY Z3
<1> QED
  BY <1>1, <1>2, <1>3, <1>4, <1>5, Z3

\* A step of the smoother between two velocities within the limits is within them.
LEMMA StepWithin ==
  ASSUME NEW curr \in Velocity, NEW cmd \in Velocity, NEW v \in applyConstraints(curr, cmd)
  PROVE  v \in Velocity
<1> DEFINE lim == step_limit(curr, cmd)
           full == Clamp(cmd - curr, -lim, lim)
<1>1. lim \in Nat /\ MaxVelocity \in Nat
  BY LimitsAssumption DEF step_limit
<1>2. curr \in Int /\ cmd \in Int
  BY <1>1 DEF Velocity
<1>3. full \in Int /\ (full = 0 \/ (full > 0 /\ curr + full <= cmd)
                             \/ (full < 0 /\ curr + full >= cmd))
  BY <1>1, <1>2 DEF Clamp
<1>4. v \in Int /\ (v = curr \/ (curr < v /\ v <= cmd) \/ (cmd <= v /\ v < curr))
  BY <1>2, <1>3 DEF applyConstraints
<1> QED
  BY <1>1, <1>2, <1>4 DEF Velocity

\* Nothing the smoother or the monitor has sent is faster than max_velocities_.
Bounded ==
  /\ Velocities
  /\ open_loop => last_cmd.v \in Velocity
  /\ cmd_vel_smoothed # None => cmd_vel_smoothed \in Velocity
  /\ cmd_vel_out \in Int \X Int /\ Abs(cmd_vel_out[1]) <= 4 * MaxVelocity

\* What the monitor publishes for a velocity of the smoother.
LEMMA MonitorAllows ==
  ASSUME NEW w \in Velocity, NEW v \in Allowed[<<4 * w, 0>>]
  PROVE  v \in Int \X Int /\ Size(v) <= Size(<<4 * w, 0>>) /\ Abs(v[1]) <= 4 * MaxVelocity
<1> DEFINE u == <<4 * w, 0>>
<1>1. w \in Int /\ Abs(4 * w) <= 4 * MaxVelocity /\ MaxVelocity \in Nat
  BY LimitsAssumption DEF Velocity, Abs
<1>2. u \in Incoming /\ u \in Int \X Int
  BY <1>1, IncomingAssumption
<1>3. PICK hits \in AllHits : v = robot_action(u, hits).req_vel
  <2> HIDE DEF u
  <2> QED
    BY <1>2 DEF Allowed, u
<1>4. v \in Int \X Int /\ Size(v) <= Size(u)
  <2>1. Smallest(robot_action(u, hits), Len(Zones), u, hits)
    <3> HIDE DEF u
    <3> QED
      BY <1>2, LoopChoosesSmallest
  <2> QED
    BY <1>3, <2>1 DEF Smallest
<1>5. Abs(v[1]) <= Abs(4 * w)
  <2>1. v[1] \in Int /\ v[2] \in Int /\ 4 * w \in Int
    BY <1>1, <1>4
  <2>2. v[2] * v[2] \in Nat
    <3>1. v[2] * v[2] \in Int
      BY <2>1
    <3> QED
      BY <2>1, <3>1, SameSide
  <2>3. v[1] * v[1] + v[2] * v[2] <= (4 * w) * (4 * w) + 0 * 0
    BY <1>4 DEF Size
  <2> DEFINE a == v[1]  b == 4 * w  n == v[2] * v[2]
  <2>4. a * a \in Int /\ b * b \in Int
    BY <2>1
  <2>5. a * a + n <= b * b
    <3> DEFINE aa == a * a  bb == b * b
    <3> HIDE DEF a, b, n
    <3>1. aa + n <= bb + 0 * 0
      BY <2>3 DEF a, b, n
    <3> HIDE DEF aa, bb
    <3>2. aa \in Int /\ bb \in Int /\ n \in Nat
      BY <2>2, <2>4 DEF aa, bb, n
    <3>3. aa + n <= bb
      BY <3>1, <3>2
    <3> QED
      BY <3>3 DEF aa, bb
  <2> HIDE DEF a, b, n
  <2>6. Abs(a) <= Abs(b)
    BY <2>1, <2>2, <2>5, SquareBounds DEF a, b, n
  <2> QED
    BY <2>6 DEF a, b
<1>6. Abs(v[1]) \in Int /\ Abs(4 * w) \in Int
  BY <1>1, <1>4 DEF Abs
<1> QED
  BY <1>1, <1>4, <1>5, <1>6

\* A step of the timer stays within max_velocities_, with either feedback.
LEMMA TimerWithin ==
  ASSUME Bounded, Velocities', smoothes, UNCHANGED open_loop
  PROVE  Bounded'
<1> DEFINE curr == IF open_loop THEN last_cmd.v ELSE odom
<1>0. MaxVelocity \in Nat
  BY LimitsAssumption
<1>1. curr \in Velocity
  <2>1. ASSUME NEW c \in Int, Abs(c) <= 4 * MaxVelocity
        PROVE  (IF c < 0 THEN -((-c) \div 4) ELSE c \div 4) \in Velocity
    BY <1>0, <2>1 DEF Abs, Velocity
  <2> QED
    BY <2>1 DEF Bounded, odom
<1>2. smootherTimer(curr) /\ UNCHANGED monitorVars
  BY DEF smoothes
<1>3. CASE UNCHANGED <<last_cmd, cmd_vel_smoothed>>
  BY <1>2, <1>3 DEF Bounded, monitorVars
<1>4. CASE smoothen(curr)
  <2>1. command \in [v : Int, stamp : BOOLEAN]
    BY <1>2 DEF smootherTimer, Bounded, Velocities
  <2>2. command'.v \in Velocity
    <3> DEFINE c == timed_out(command)
    <3>1. c \in [v : Int, stamp : BOOLEAN]
      BY <2>1 DEF timed_out, Zero
    <3>2. Clamp(c.v, -MaxVelocity, MaxVelocity) \in Velocity
      BY <1>0, <3>1 DEF Clamp, Velocity
    <3>3. command' = [c EXCEPT !.v = Clamp(c.v, -MaxVelocity, MaxVelocity)]
      BY <1>4 DEF smoothen
    <3> HIDE DEF c
    <3> QED
      BY <3>1, <3>2, <3>3
  <2>3. PICK v \in applyConstraints(curr, command'.v) :
          /\ last_cmd' = [v |-> v, stamp |-> command.stamp]
          /\ cmd_vel_smoothed' = IF Abs(v) < Deadband THEN 0 ELSE v
    BY <1>4 DEF smoothen
  <2>4. v \in Velocity /\ 0 \in Velocity
    <3>1. 0 \in Velocity
      BY <1>0 DEF Velocity
    <3> HIDE DEF curr
    <3> QED
      BY <1>1, <2>2, <2>3, <3>1, StepWithin
  <2> QED
    BY <1>2, <2>3, <2>4 DEF Bounded, monitorVars
<1> QED
  BY <1>2, <1>3, <1>4 DEF smootherTimer

\* The monitor publishes nothing, a stop, or what the zones allow.
LEMMA MonitorStep ==
  ASSUME Bounded, cmdVelInCallbackStamped
  PROVE  /\ cmd_vel_out' \in Int \X Int /\ Abs(cmd_vel_out'[1]) <= 4 * MaxVelocity
         /\ cmd_vel_out' # cmd_vel_out /\ cmd_vel_out' # Standing =>
              sourcesValid /\ Size(cmd_vel_out') <= Size(<<4 * cmd_vel_smoothed, 0>>)
<1>1. cmd_vel_smoothed \in Velocity
  BY DEF cmdVelInCallbackStamped, Bounded
<1>2. CASE UNCHANGED cmd_vel_out
  BY <1>2 DEF Bounded
<1>3. CASE cmd_vel_out' = Standing
  BY <1>3, LimitsAssumption DEF Standing, Abs
<1>4. CASE sourcesValid /\ cmd_vel_out' \in Allowed[<<4 * cmd_vel_smoothed, 0>>]
  BY <1>1, <1>4, MonitorAllows
<1>5. ASSUME NEW v, publishVelocity(v) PROVE cmd_vel_out' = cmd_vel_out \/ cmd_vel_out' = v
  BY <1>5 DEF publishVelocity
<1> QED
  BY <1>2, <1>3, <1>4, <1>5, Zenon DEF cmdVelInCallbackStamped, process

\* Bounded is inductive.
LEMMA BoundedStep ==
  ASSUME Bounded, Next
  PROVE  Bounded'
<1>0. Velocities' /\ UNCHANGED open_loop
  BY VelocitiesStep DEF Bounded, Next
<1>1. CASE smoothes
  BY <1>0, <1>1, TimerWithin
<1>2. CASE cmdVelInCallbackStamped
  BY <1>0, <1>2, MonitorStep DEF Bounded, cmdVelInCallbackStamped
<1>3. CASE UNCHANGED <<last_cmd, cmd_vel_smoothed, cmd_vel_out>>
  BY <1>0, <1>3 DEF Bounded
<1>4. CASE Surroundings
  BY <1>3, <1>4 DEF Surroundings, stop_pub_timeout, dataCallback, sourceExpires, smootherVars
<1>5. CASE Transitions
  BY <1>3, <1>5 DEF Transitions, VelocitySmoother_on_activate, VelocitySmoother_on_deactivate,
       CollisionMonitor_on_activate, CollisionMonitor_on_deactivate, smootherVars, monitorVars
<1>6. CASE commands \/ fallsSilent \/ commandAges
  BY <1>3, <1>6 DEF commands, inputCommandStampedCallback, fallsSilent, commandAges, timeout,
       smootherVars, monitorVars
<1> QED
  BY <1>1, <1>2, <1>4, <1>5, <1>6 DEF Next

\* A robot is never set in motion blind (process), whatever the limits, the zones and
\* the sources, and what it is sent is never larger than what came in.  That the
\* zones are looked at needs what comes in to be a velocity the smoother may send.
THEOREM NeverBlindTheorem == Spec => NeverBlind
<1>1. Init => Bounded
  BY LimitsAssumption
  DEF Init, SmootherInit, MonitorInit, Bounded, Velocities, Zero, Velocity, Standing, Abs
<1>2. Bounded /\ [Next]_vars => Bounded'
  <2>1. ASSUME Bounded, UNCHANGED vars PROVE Bounded'
    BY <2>1 DEF vars, smootherVars, monitorVars, Bounded, Velocities
  <2> QED
    BY <2>1, BoundedStep
<1> DEFINE A == cmd_vel_out' # cmd_vel_out /\ cmd_vel_out' # Standing =>
                  /\ Source \ Untimed \subseteq valid
                  /\ Size(cmd_vel_out') <= Size(<<4 * cmd_vel_smoothed, 0>>)
<1>3. Bounded /\ [Next]_vars => [A]_vars
  <2> SUFFICES ASSUME Bounded, Next PROVE A
    OBVIOUS
  <2>1. CASE cmdVelInCallbackStamped
    BY <2>1, MonitorStep DEF sourcesValid
  <2>2. CASE UNCHANGED cmd_vel_out
    BY <2>2
  <2> QED
    BY <2>1, <2>2
    DEF Next, commands, fallsSilent, commandAges, smoothes, Surroundings, stop_pub_timeout,
        dataCallback, sourceExpires, Transitions, CollisionMonitor_on_activate,
        CollisionMonitor_on_deactivate, monitorVars
<1> QED
  BY <1>1, <1>2, <1>3, PTL DEF Spec, NeverBlind

=============================================================================
