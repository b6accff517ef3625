SPECIFICATION Spec
CONSTANTS
  Adverts = {a, b}
  Users = {u}
  Procs = {p, q}
  None = None
  x = x
  y = y
  z = z
  C = C
  R = R
  S = S
  P = P
  Points = {x, y, z}
  Where <- MCWhere
  OnAxis = {x}
  Other = Other
  PerPage = 1
  MaxCities = 2
SYMMETRY Symmetry
CONSTRAINT Bounds
INVARIANTS TypeOK OneRowPerPlace SearchIsWhole PagesMissNone WishesHold
CHECK_DEADLOCK FALSE
