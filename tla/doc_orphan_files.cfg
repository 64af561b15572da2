SPECIFICATION Spec
CONSTANTS
  Job = {j1}
  Worker = {w1}
  Request = {q1, q2, q3}
  NoJob = NoJob
  Calls = {"create", "cancel", "delete"}
  Backend = "s3"
  NumArtifacts = 1
  Directories = {1}
  MaxPercent = 0
  MaxFaults = 0
SYMMETRY Symmetry
\* Every request answered and every message consumed: the system may stop.
CHECK_DEADLOCK FALSE
INVARIANTS
  DeletedLeavesNoFiles
