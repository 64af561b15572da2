SPECIFICATION FairSpec
CONSTANTS
  Job = {j1}
  Worker = {w1}
  Request = {q1, q2}
  NoJob = NoJob
  Calls = {"create", "cancel", "delete"}
  Backend = "local"
  NumArtifacts = 2
  Directories = {1}
  MaxPercent = 1
  MaxFaults = 1
\* Every request answered and every message consumed: the system may stop.
CHECK_DEADLOCK FALSE
INVARIANTS
  RecordedArtifactsStored
PROPERTIES
  WorkersComeFree
  NothingStaysRunning
