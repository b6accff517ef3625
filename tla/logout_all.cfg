SPECIFICATION Spec
CONSTANTS
  Users = {u}
  Tokens = {a, b}
  Procs = {p, q}
  TokenLife = 1
PROPERTIES LogoutAllRevokesAll
