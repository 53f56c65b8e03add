SPECIFICATION FairSpec
CONSTANTS
  N = 2
  BondEnabled = TRUE
  AttemptRespawn = TRUE

PROPERTY HardChangeContinues
