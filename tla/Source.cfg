SPECIFICATION MCFairSpec
CONSTANTS
  Parts = {"prompt", "slow"}
  w1 = w1
  w2 = w2
  NoWorker = NoWorker
  Workers = {w1, w2}
  MaxGen = 3
  Faults = {"crash", "source", "publish", "exception"}
  FaultLimit = 2
  PromptWorkers = TRUE
INVARIANT SourceIsReadable
PROPERTIES SourceOfOwner SourceEnds
CHECK_DEADLOCK FALSE
