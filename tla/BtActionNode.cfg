SPECIFICATION NodeFairSpec
CONSTANT MaxSent = 3

INVARIANTS
  HandleIsSet
  ReportsLastGoal
  NoForgottenGoal

PROPERTY NodeCompletes

\* All goals of the bound may have been sent and ended.
CHECK_DEADLOCK FALSE
