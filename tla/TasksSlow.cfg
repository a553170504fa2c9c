SPECIFICATION MCSpec
CONSTANTS
  Parts = {"text", "image"}
  text = text
  image = image
  w1 = w1
  w2 = w2
  NoArtifact = NoArtifact
  Artifacts = {text, image}
  Images = {image}
  Captured = {text, image}
  Batches <- TwoBatches
  Length <- TwoLong
  Workers = {w1, w2}
  MaxTries = 0
  MaxGen = 2
  Faults = {"crash"}
  FaultLimit = 1
  PromptWorkers = FALSE
SYMMETRY WorkerSymmetry
INVARIANTS NoResidue ImageEvidenceOnce
PROPERTIES TerminalIsFinal StaleWorkerIsHarmless
CHECK_DEADLOCK FALSE
