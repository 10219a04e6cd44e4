CONSTANTS
  p1 = p1  p2 = p2
  Issues = {i1}
  Types = {t1}
  Files = {f1}
  Texts = {x1, x2}
  Procs = {p1, p2}
  Work <- WorkRows
  Max = 1
  Faults = TRUE
  None = None
SPECIFICATION FairSpec
CHECK_DEADLOCK FALSE
INVARIANTS
  ClosedStamped
  NothingAhead
PROPERTIES
  StatusFollowsTransitions
  StaleCopyGoes
