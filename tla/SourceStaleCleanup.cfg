SPECIFICATION Spec
CONSTANTS
  w1 = w1
  w2 = w2
  NoWorker = NoWorker
  Workers = {w1, w2}
  MaxGen = 2
  Faults = {"source"}
  FaultLimit = 1
  PromptWorkers = FALSE
SYMMETRY WorkerSymmetry
PROPERTY StaleTouchesNothing
CHECK_DEADLOCK FALSE
