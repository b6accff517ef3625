SPECIFICATION Spec
CONSTANTS
  None = None
  Ids = {i, j}
  Mails = {e}
  Passwords = {x, y}
  Tokens = {t}
  Procs = {p, q}
SYMMETRY Symmetry
INVARIANTS TypeOK OneAccountPerMail VerifiedHavePhone VerifiedVouched PasswordsNeverRevert TokensWorkOnce
CHECK_DEADLOCK FALSE
