SPECIFICATION FairSpec
CONSTANTS
  N = 2
  BondEnabled = TRUE
  AttemptRespawn = TRUE

INVARIANTS
  ActiveIsWatched
  FailureIsVisible
  NoBondLeftOver

PROPERTIES
  FailureIsNoticed
