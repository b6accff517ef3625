SPECIFICATION Spec
CONSTANTS
  Users = {1, 10}
  ItemIds = {1, 10}
  Names = {a}
  RowIds = {1, 2}
  Procs = {p}
  SweepMin = 1
  SweepMax = 2
  SweepPeriod = 1
  MaxSweepFailures = 0
  DraftAge = 0
  ExpireAge = 1
PROPERTIES WipeSparesOthers
