CONSTANTS
  agent = agent
  search = search
  shell = shell
  Adapters <- MCAdapters
  Allowed <- MCAcyclic
  Concurrent = {agent}
  StepAdapters = {agent}
  MaxDepth = 2
  MaxCalls = 2
  MaxSteps = 1
  MaxFrames = 4
  MaxIssued = 3
  Pausable = {agent}
SPECIFICATION ToolFairSpec
INVARIANTS NoCircularWait AnsweredOnce PausedIsDrained FatalReachesCaller
PROPERTY EveryExecuteEnds
CHECK_DEADLOCK FALSE
