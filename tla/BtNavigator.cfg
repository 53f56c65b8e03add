SPECIFICATION FairSpec
CONSTANTS
  N = 2
  MaxGoals = 3

INVARIANTS
  
  LiveGoalsAreHeld

PROPERTIES
  NavigatorsComeToRest
