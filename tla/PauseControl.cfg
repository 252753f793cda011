SPECIFICATION FairSpec
CONSTANTS
  work = work
  review = review
  done = done
  approve = approve
  reject = reject
  Steps = {work}
  Gates = {review}
  Terminals = {done}
  Missing = Missing
  None = None
  Starts = {work, Missing}
  Decisions = {approve, reject}
  Succ <- MCSucc
  Target <- MCTarget
  HasResumer = TRUE
  c1 = c1
  c2 = c2
  Calls = {c1, c2}
  MaxCycles = 2
INVARIANTS NoStaleDecision NoOrphanedWaiter AckedPauseIsDurable
PROPERTIES PauseIsAnswered ResumeIsHonoured DecisionReleases
