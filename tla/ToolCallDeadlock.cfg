CONSTANTS
  agent = agent
  search = search
  shell = shell
  Adapters <- MCAdapters
  Allowed <- MCCyclic
  Concurrent = {agent}
  StepAdapters = {agent}
  MaxDepth = 2
  MaxCalls = 3
  MaxSteps = 1
  MaxFrames = 5
  MaxIssued = 2
  Pausable = {}
SPECIFICATION ToolSpec
INVARIANT NoCircularWait
CHECK_DEADLOCK FALSE
