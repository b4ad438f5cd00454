SPECIFICATION ApartSpec
CONSTANTS
  m1 = m1
  m2 = m2
  s1 = s1
  s2 = s2
  s3 = s3
  r1 = r1
  r2 = r2
  Masters = {m1}
  Sessions = {s1, s2}
  Requests = {r1, r2}
  MasterOf <- MCMasterOf
  NoSession = NoSession
  Purgeable = {m1}
  Faults = {"http", "network", "db", "listener", "api", "router"}
SYMMETRY Twins
INVARIANTS
  OneActivePerMaster
  RunningHasListener
PROPERTIES
  StoppedStaysStopped
  DeletedStaysDeleted
  DeleteSparesOthers
