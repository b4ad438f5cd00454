SPECIFICATION SessionSpec
CONSTANTS
  m1 = m1
  m2 = m2
  s1 = s1
  s2 = s2
  s3 = s3
  Masters = {m1, m2}
  Sessions = {s1, s2}
  Requests = {r1, r2}
  MasterOf <- MCMasterOf
  NoSession = NoSession
  Purgeable = {}
  Faults = {}
INVARIANTS
  OneActivePerMaster
CHECK_DEADLOCK FALSE
