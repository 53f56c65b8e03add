SPECIFICATION Spec
CONSTANTS
  MaxVelocity = 2
  MaxAccel = 1
  MaxDecel = 2
  Deadband = 0
  Source = {s1}
  Untimed = {}
  Command <- MCCommand
  Zones <- MCZones
  Incoming <- MCIncoming
  None = None
  Unseen = Unseen
INVARIANTS MostAggressiveZone StopIsSent
PROPERTIES   SilentRobotStops
CHECK_DEADLOCK FALSE
