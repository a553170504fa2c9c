SPECIFICATION Spec
CONSTANTS
  text = text
  image = image
  w1 = w1
  w2 = w2
  NoArtifact = NoArtifact
  Artifacts = {image}
  Images = {image}
  Captured = {image}
  Batches <- TwoBatches
  Length <- ImageLength
  Workers = {w1, w2}
  MaxTries = 0
  MaxGen = 2
  Faults = {}
  FaultLimit = 0
  PromptWorkers = FALSE
INVARIANT ImageRestartsClean
CHECK_DEADLOCK FALSE
