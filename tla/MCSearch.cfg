SPECIFICATION Spec
CONSTANTS
  Width = 3
  Height = 3
  Start <- MCStart
  Goal <- MCGoal
  Tolerances = {0, 120}
  Costmaps <- MCCostmaps
  Origins <- MCOrigins
  MaxIterations = 8
  MaxApproach = 2
  PRIORITYBUFSIZE = 9
INVARIANTS  ThetaParentsLeadToStart NavFnHasNoLocalMinimum 
CHECK_DEADLOCK FALSE
