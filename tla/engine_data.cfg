SPECIFICATION EngineFairSpec
CONSTANTS
  Mode = {"generate", "label"}
  Labels <- TwoLabels
  NumSamples = 3
  NumTexts = 4
  GenBatch = 1
  LabelBatch = 2
  Concurrency = {1, 2}
  MaxRetries = 1
  MaxExtra = 1
  Strategy = {"llm", "kd"}
  Datasets <- SmallDatasets
\* The data are ready, or the run has failed.
CHECK_DEADLOCK FALSE
INVARIANTS
  EngineTypeOK
  RequestsBounded
  CorpusFollowsRequests
  StudentFitsCorpus
  ClassesInOrder
  SameClassInEvaluation
PROPERTIES
  DataEnds
