\* Three requests, two hosts, one restart, one failed row write.
CONSTANTS
  r1 = r1
  r2 = r2
  r3 = r3
  Requests = {r1, r2, r3}
  Hosts = {"a", "b"}
  ProtectedHosts = {"b"}
  Kinds <- MCKinds
  Plans <- MCPlans
  Pages <- MCPages
  Errors <- MCErrors
  HasCapSolver = TRUE
  MaxRestarts = 1
  MaxFailedWrites = 1
SPECIFICATION Spec
INVARIANTS
  RefutedStaysForgotten
  CopiesAgree
  LoadersInOrder
  CapacityIsDeferred
PROPERTY EveryRequestReturns
CHECK_DEADLOCK FALSE
