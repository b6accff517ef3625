SPECIFICATION ImagesSpec
CONSTANTS
  Users = {1}
  ItemIds = {1}
  Names = {a}
  RowIds = {1, 2}
  Procs = {p, q}
  SweepMin = 1
  SweepMax = 2
  SweepPeriod = 1
  MaxSweepFailures = 0
  DraftAge = 0
  ExpireAge = 1
SYMMETRY Symmetry
INVARIANTS PromptRowsServed
PROPERTIES KeepsPromise
