SPECIFICATION Spec
CONSTANTS
  Sessions = {s1, s2}
  NoSession = NoSession
  ArmLabel = "workflow.v1"
  DialNames = {"workflow.v1", "deploy"}
  Ends = {"failure"}
  MaxRuns = 2
  MaxFaults = 2
SYMMETRY SessionSymmetry
INVARIANTS
  OneChildRun
  TrackerIsTrue
  TeardownIsTold
PROPERTY ExitAfterSettle
CHECK_DEADLOCK FALSE
