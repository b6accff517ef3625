SPECIFICATION Spec
CONSTANTS
  Users = {1}
  ItemIds = {1}
  Names = {}
  RowIds = {}
  Procs = {p}
  SweepMin = 1
  SweepMax = 2
  SweepPeriod = 1
  MaxSweepFailures = 0
  DraftAge = 0
  ExpireAge = 1
PROPERTIES PurgeRemovesOnlyDrafts
