SPECIFICATION MCSpec
CONSTANTS
  Parts = {"image", "texts"}
  text = text
  image = image
  w1 = w1
  w2 = w2
  NoArtifact = NoArtifact
  Artifacts = {text, image}
  Images = {image}
  Captured = {text}
  Batches <- OneBatch
  Length <- BothLength
  Workers = {w1, w2}
  MaxTries = 1
  MaxGen = 3
  Faults = {"crash", "redeliver", "exception"}
  FaultLimit = 2
  PromptWorkers = TRUE
SYMMETRY WorkerSymmetry
INVARIANTS TypeOK CheckpointMatchesEvidence ResultIsCurrent OneOwner FilesWhileNeeded
PROPERTY ImplementsLifecycle
CHECK_DEADLOCK FALSE
