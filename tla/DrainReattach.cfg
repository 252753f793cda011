SPECIFICATION Spec
CONSTANTS
  e1 = e1
  e2 = e2
  Emitters = {e1}
  MaxEvents = 2
  Buffer = 1
  MaxStreams = 2
  MaxPrior = 1
  Modes = {"reattach"}
INVARIANT DrainIsNeverEarly
CHECK_DEADLOCK FALSE
