SPECIFICATION LinkSpec
CONSTANTS
  adA = adA
  adB = adB
  ca = ca
  cb = cb
  wb = wb
  Hosted <- TwoAdapters
  DialOf <- TwoConns
  WantOf <- OneWaiter
  KeepAlive = TRUE
  JournalLimit = 2
  MaxDials = 2
  MaxEvents = 3
  MaxRestarts = 1
INVARIANTS
  WaiterNotForgotten
  NoLeakedSession
  CrashIsReal
  CaughtUpKnows
