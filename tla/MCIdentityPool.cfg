SPECIFICATION FairSpec
CONSTANTS
  Keys = {k1, k2}
  Leases = {r1, r2, r3}
  MaxIdentities = 1
  MaxMade = 2
INVARIANTS
  OneChromePerProfile
  ClosedWhenUnused
  NoStrayBrowser
PROPERTIES
  LeasesSettle
  ServiceExits
CHECK_DEADLOCK FALSE
