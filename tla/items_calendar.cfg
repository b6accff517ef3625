SPECIFICATION FairSpec
CONSTANTS
  Users = {1}
  ItemIds = {1}
  Names = {}
  RowIds = {}
  Procs = {p, q}
  SweepMin = 1
  SweepMax = 2
  SweepPeriod = 1
  MaxSweepFailures = 0
  DraftAge = 1
  ExpireAge = 2
INVARIANTS ExpiredIsOld
PROPERTIES PurgeSparesYoung EveryAdvertEnds
