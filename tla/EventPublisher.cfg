SPECIFICATION FairSpec
CONSTANTS
  e1 = e1
  e2 = e2
  Emitters = {e1, e2}
  MaxEvents = 3
  Buffer = 1
  MaxStreams = 3
  MaxPrior = 1
  Modes = {"apply", "agent", "reattach"}
INVARIANT DrainMeansLogged
PROPERTIES ImplementsRunLog DrainCompletes
CHECK_DEADLOCK FALSE
