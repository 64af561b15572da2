SPECIFICATION FairSpec
CONSTANTS
  r1 = r1
  r2 = r2
  k1 = k1
  k2 = k2
  k3 = k3
  Replica = {r1, r2}
  Caller = {c1, c2}
  Email = {alice, system}
  SystemEmail = system
  Prefix = {k1, k2, k3, k4}
  Bootstrap <- Rotation
  NoOne = NoOne
  MaxCrashes = 1
\* All replicas are up, and all calls are answered.
CHECK_DEADLOCK FALSE
INVARIANTS
  TypeOK
  AnswersHold
  SeedIsWhole
  CommonKeysArrive
PROPERTIES
  UnitsOfWorkEnd
