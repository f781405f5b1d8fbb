SPECIFICATION Spec
CONSTANTS
  Urls = {u1, u2}
  Retriers = {r}
  Procs = {"a", "b"}
  FileRecords = 2
  Workers = {"ah", "ab", "bh"}
  ProcOf <- MCProcOf
  KindOf <- MCKindOf
  Hosts = {"h"}
  Host <- MCHost
  HostLimit = 2
  UntilEmpty = {"a", "b"}
  Overrun = TRUE
  MaxRuns = 2
  MaxCrashes = 1
  MaxRetries = 1
INVARIANT
  TotalsCountEachUrlOnce
SYMMETRY Symmetry
CHECK_DEADLOCK FALSE
