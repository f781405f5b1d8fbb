\* Three requests, two hosts, no restart, no failed row write.
CONSTANTS
  r1 = r1
  r2 = r2
  r3 = r3
  Requests = {r1, r2, r3}
  Hosts = {"a", "b"}
  ProtectedHosts = {"b"}
  Kinds <- MCKinds
  Plans <- MCPlans
  Pages <- MCPages
  Errors <- MCErrors
  HasCapSolver = TRUE
  MaxRestarts = 0
  MaxFailedWrites = 0
SPECIFICATION Spec
INVARIANT WrittenThrough
CHECK_DEADLOCK FALSE
