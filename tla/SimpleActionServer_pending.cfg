SPECIFICATION Spec
CONSTANTS
  Goal = {g1, g2, g3}
  NoGoal = NoGoal
  Worker = {w1, w2}
  NoWorker = NoWorker
INVARIANT NoPendingWithoutCurrent
