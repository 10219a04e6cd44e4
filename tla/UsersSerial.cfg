CONSTANTS
  p1 = p1  p2 = p2
  u1 = u1
  k1 = k1  k2 = k2
  Accounts = {u1}
  Tokens = {k1, k2}
  Owner <- Owners
  Infos = {x1, x2}
  Passwords = {w1, w2}
  Procs = {p1, p2}
  Work <- WorkAll
  Serial = TRUE
  Faults = FALSE
  None = None
SPECIFICATION FairSpec
INVARIANTS
  Coherent
PROPERTIES
  PasswordKept
  TokenCopyGoes
