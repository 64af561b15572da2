SPECIFICATION Spec
CONSTANTS
  c1 = c1
  c2 = c2
  Client = {c1, c2}
  Job = {j1, j2}
  NoOne = NoOne
  NoJob = NoJob
  Limit = 1
  Clock = {1, 2}
  Walker = c1
  CorsOrigins = FALSE
  CallsOf <- SomeCalls
  RoleChoice <- SomeRoles
SYMMETRY Symmetry
INVARIANTS
  ErrorsCounted
