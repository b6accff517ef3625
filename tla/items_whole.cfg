SPECIFICATION Spec
CONSTANTS
  Users = {1}
  ItemIds = {1}
  Names = {a}
  RowIds = {1}
  Procs = {p}
  SweepMin = 1
  SweepMax = 3
  SweepPeriod = 1
  MaxSweepFailures = 1
  DraftAge = 0
  ExpireAge = 1
INVARIANTS TypeOK RelationsHold AbandonedUploadsSwept
