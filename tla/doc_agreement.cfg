SPECIFICATION RunSpec
CONSTANTS
  Config <- MCConfig
  Jobs <- MCJobs
  Checkpoint <- MCCheckpoint
  Devices = {"cuda"}
  NoModel = NoModel
  Metric = {1, 2, 3}
  MaxShift = 1
  MaxBatches = 3
  MaxAccum = 1
  MaxEpochs = 2
  MaxSteps = 2
  MaxPatience = 0
  MaxLayers = 1
\* A run ends.
CHECK_DEADLOCK FALSE
INVARIANTS
  AgreementIsPerExample
