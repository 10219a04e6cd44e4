CONSTANTS
  u1 = u1  u2 = u2
  f1 = f1  f2 = f2  f3 = f3
  Users = {u1, u2}
  Profiles = {f1, f2, f3}
  Owner <- Mixed
  Tokens = {t1, t2, t3}
  Procs = {p1, p2}
  Max = 1
  Faults = TRUE
  None = None
SPECIFICATION Spec
SYMMETRY SymmetryMixed
CHECK_DEADLOCK FALSE
INVARIANTS
  TypeOK
  RefreshReplaces
  BindingKept
  LimitOvershoot
  SignOutEffective
PROPERTY InvalidFinal
