CONSTANTS
  x1 = x1
  t1 = t1  t2 = t2
  Profiles = {x1}
  Names = {n1, n2}
  Procs = {p1, p2}
  None = None
  Tokens = {t1, t2}
  Bound <- BoundTokens
  Servers = {s1}
SPECIFICATION FairSpec
INVARIANTS
  TypeOK
  AskedOnlyWhenMissing
  YesOvershoot
PROPERTIES
  SignedOutGoes
  RequestsEnd
