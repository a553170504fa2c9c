SPECIFICATION MCFairSpec
CONSTANTS
  Parts = {"pipeline", "source"}
  NoWorker = NoWorker
  text = text
  image = image
  w1 = w1
  w2 = w2
  NoArtifact = NoArtifact
  Artifacts = {text, image}
  Images = {image}
  Captured = {}
  Batches <- OneBatch
  Length <- BothLength
  Workers = {w1, w2}
  MaxTries = 0
  MaxGen = 4
  Faults = {"crash", "exception", "publish"}
  FaultLimit = 1
  PromptWorkers = TRUE
PROPERTIES PipelineEnds SourceFilesGo
CHECK_DEADLOCK FALSE
