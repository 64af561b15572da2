SPECIFICATION RunSpec
CONSTANTS
  Config <- MCConfig
  Jobs <- MCJobs
  Checkpoint <- MCCheckpoint
  Devices = {"cuda"}
  NoModel = NoModel
  Metric = {1, 2, 3}
  MaxShift = 1
  MaxBatches = 4
  MaxAccum = 5
  MaxEpochs = 4
  MaxSteps = 9
  MaxPatience = 2
  MaxLayers = 6
\* A run ends.
CHECK_DEADLOCK FALSE
INVARIANTS
  RunTypeOK
  NoGradientLost
  RunsItsBudget
  StopsWhenStale
  ShippedIsBest
  ValidationIsEnough
  LayersAligned
  OnlyCompatibleIsShipped
  EveryStepLearns
