CONSTANTS
  u1 = u1  u2 = u2
  p1 = p1  p2 = p2
  s1 = s1  s2 = s2  s3 = s3
  h1 = h1  h2 = h2
  Users = {u1, u2}
  Ids = {s1, s2, s3}
  Hashes = {h1, h2}
  Procs = {p1, p2}
  Work <- WorkAdmin
  PublicTotal = 1
  PrivateTotal = 2
  UpdateHookRejects = FALSE
  Faults = FALSE
  Seeds <- OneSeed
  None = None
SPECIFICATION FairSpec
INVARIANTS
  TypeOK
  LockedReadCurrent
  NormalOnlyByOwner
  BuiltInKept
  LiveFileVerified
PROPERTIES
  LedgerSpec
  RequestsEnd
CHECK_DEADLOCK FALSE
