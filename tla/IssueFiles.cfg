CONSTANTS
  p1 = p1  p2 = p2
  Issues = {i1}
  Types = {t1, t2}
  Files = {f1, f2, f3}
  Texts = {x1, x2}
  Procs = {p1, p2}
  Work <- WorkFiles
  Max = 1
  Faults = FALSE
  None = None
SPECIFICATION Spec
CHECK_DEADLOCK FALSE
SYMMETRY Symmetry
INVARIANTS
  TypeOK
  AttachmentOvershoot
  FilesMatchRows
