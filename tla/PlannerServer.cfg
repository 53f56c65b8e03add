SPECIFICATION PlannerSpec
CONSTANTS
 Goal = {g1, g2}
 NoGoal = NoGoal
 Worker = {w1}
 NoWorker = NoWorker
 MaxPoses = 2
PROPERTY PlanIsForItsGoal
CHECK_DEADLOCK FALSE
