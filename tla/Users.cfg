CONSTANTS
  p1 = p1  p2 = p2
  u1 = u1
  k1 = k1  k2 = k2
  Accounts = {u1}
  Tokens = {k1}
  Owner <- OneOwner
  Infos = {x1, x2}
  Passwords = {w1, w2}
  Procs = {p1, p2}
  Work <- WorkOverlap
  Serial = FALSE
  Faults = TRUE
  None = None
SPECIFICATION FairSpec
INVARIANTS
  TypeOK
  CopyHasRow
PROPERTIES
  StaleEntryGoes
