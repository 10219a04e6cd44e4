CONSTANTS
  p1 = p1  p2 = p2
  Users = {a, b, c}
  Profiles = {x1, x2, x3}
  Names = {n1, n2}
  Skins = {}
  Capes = {}
  Procs = {p1, p2}
  Work <- WorkNames
  Largest = 1
  Deltas = {}
  Faults = TRUE
  None = None
SPECIFICATION Spec
SYMMETRY Symmetry
INVARIANT NameOvershoot
