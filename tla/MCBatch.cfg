SPECIFICATION Spec
CONSTANTS
  Urls = {u1, u2}
  Retriers = {r}
  Procs = {"a", "b"}
  FileRecords = 2
  Workers = {"ah", "ab", "bh"}
  ProcOf <- MCProcOf
  KindOf <- MCKindOf
  Hosts = {"h"}
  Host <- MCHost
  HostLimit = 2
  UntilEmpty = {"a", "b"}
  Overrun = FALSE
  MaxRuns = 2
  MaxCrashes = 1
  MaxRetries = 1
INVARIANTS
  DoneIsStored
  WaitersAreInTheFile
  TotalsCountEachUrlOnce
PROPERTIES
  EmptyMeansFinished
  ImplementsLifecycle
SYMMETRY Symmetry
CHECK_DEADLOCK FALSE
