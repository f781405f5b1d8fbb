\* Two callers, two nodes, one identity slot, one pending retirement.
CONSTANTS
  c1 = c1
  c2 = c2
  Callers = {c1, c2}
  NodeCount = 2
  NodeSlots = 1
  Hosts = {"a", "b"}
  IdentitySlots = {0}
  SlotOf <- MCSlotOf
  ProfileNode = 1
  Sticky = TRUE
  MaxPending = 1
  Workloads <- MCWorkloads
  HasSolver = TRUE
SPECIFICATION Spec
INVARIANTS
  RotationsAreEarned
  RetirementsAreKept
  RetiredIsPersisted
  OneGoodNodeServes
  SessionStaysReachable
PROPERTY EveryCallReturns
CHECK_DEADLOCK FALSE
