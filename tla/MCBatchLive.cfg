SPECIFICATION FairSpec
CONSTANTS
  Urls = {u1, u2}
  Retriers = {r}
  Procs = {"a"}
  FileRecords = 2
  Workers = {"ah", "ab"}
  ProcOf <- MCProcOf
  KindOf <- MCKindOf
  Hosts = {"h"}
  Host <- MCHost
  HostLimit = 1
  UntilEmpty = {"a"}
  Overrun = FALSE
  MaxRuns = 1
  MaxCrashes = 0
  MaxRetries = 0
PROPERTIES
  ShutdownEnds
  EveryUrlFinishes
CHECK_DEADLOCK FALSE
