CONSTANTS
  p1 = p1  p2 = p2
  Users = {a}
  Profiles = {x1, x2, x3}
  Names = {n1, n2}
  Skins = {s1}
  Capes = {}
  Procs = {p1, p2}
  Work <- WorkProfiles
  Largest = 3
  Deltas <- SomeDeltas
  Faults = TRUE
  None = None
SPECIFICATION FairSpec
INVARIANTS
  TypeOK
  WornWasHeld
PROPERTIES
  AccountKept
  RequestsEnd
