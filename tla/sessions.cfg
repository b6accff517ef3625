SPECIFICATION Spec
CONSTANTS
  Users = {u, v}
  Tokens = {a, b, c}
  Procs = {p, q}
  TokenLife = 2
SYMMETRY Symmetry
INVARIANTS TypeOK RevokedStaysRevoked SessionsTracked
PROPERTIES NoAccessAfterDeletion
