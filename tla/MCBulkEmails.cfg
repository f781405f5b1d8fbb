SPECIFICATION FairSpec
CONSTANTS
  Sites = {a, b, c}
  Workers = {w1, w2}
  MaxRuns = 2
  NoSite = none
INVARIANTS
  NothingCutIsSaved
  DoneMeansSaved
PROPERTIES
  ImplementsSiteTable
  EveryRunEnds
CHECK_DEADLOCK FALSE
