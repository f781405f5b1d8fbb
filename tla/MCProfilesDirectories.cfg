SPECIFICATION Spec
CONSTANTS
  Concurrency = 1
  MaxWaiting = 1
  Renders = {r1, r2, r3}
  Sessions = {s1, s2}
  Profiles = {p}
  NoProfile = none
  MaxSessions = 2
INVARIANT NoDirectoryLeft
CHECK_DEADLOCK FALSE
