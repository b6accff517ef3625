SPECIFICATION Spec
CONSTANTS
  Ids = {c1, c2, c3}
  Titles = {t1, t2, t3}
  Adverts = {a}
  Procs = {p, q}
  CacheLife = 1
  None = None
SYMMETRY Symmetry
INVARIANTS TypeOK RelationsHold TwoLevels TitlesDiffer OldOnlyIfRaced
ACTION_CONSTRAINT NoNewSavesOnceTorn
