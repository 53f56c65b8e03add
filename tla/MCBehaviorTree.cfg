SPECIFICATION FairSpec
CONSTANTS
  Trees <- MCTrees
  CanSkip <- MCCanSkip
  Goals = {1, 2}
  Lengths = {1, 3}
  Retries = 1
INVARIANTS RunningBelowRunning GivesUpAfterRetries
PROPERTIES RoundRobinTriesAll TickReturns 
