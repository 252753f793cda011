SPECIFICATION FairSpec
CONSTANTS
  Prompts = {p1, p2, px}
  Foreign = {px}
  Loops = {i1, i2}
  Modes = {"apply", "agent"}
  Capacity = 1
  MaxAttempts = 2
  MaxEngines = 2
INVARIANTS
  OneOutcome
  HeldHasLoop
PROPERTY EveryPromptAnswered
CHECK_DEADLOCK FALSE
