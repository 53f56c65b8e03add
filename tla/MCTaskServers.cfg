SPECIFICATION MCSpec
CONSTANTS
 Goal = {g1, g2}
 NoGoal = NoGoal
 Worker = {w1}
 NoWorker = NoWorker
 Controllers = {c1, c2}
 Unknown = Unknown
 MaxPoses = 2
 NavGoal = {n1, n2}
 NoNav = NoNav
 MaxWaypoints = 2
INVARIANTS LeavesRobotStanding FollowsItsGoal ReachedIsItsOwn 
PROPERTIES ImplementsServer 
CHECK_DEADLOCK FALSE
