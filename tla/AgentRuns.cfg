SPECIFICATION Spec
CONSTANTS
  Runs = {r1, r2}
  None = None
  Length = 1
  MaxLives = 2
  MaxAssigned = 2
  MaxUpsets = 2
SYMMETRY RunSymmetry
INVARIANTS
  HandOffIsSafe
  InterruptedIsResumable
PROPERTY OverIsNotRunAgain
CHECK_DEADLOCK FALSE
