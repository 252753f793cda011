CONSTANTS
  Callers = {c1, c2}
  NoCaller = none
  Branches = {b1}
  MaxSessions = 2
  MaxProcs = 4
SPECIFICATION Spec
SYMMETRY CallerSymmetry
INVARIANTS TurnConserved SerialExecution NoOrphanProcess
PROPERTY ReopenSparesHealthy
CHECK_DEADLOCK FALSE
