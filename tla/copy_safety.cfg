SPECIFICATION Spec
CONSTANTS
  m1 = m1
  s1 = s1
  s2 = s2
  a1 = a1
  a2 = a2
  a3 = a3
  k1 = k1
  k2 = k2
  t1 = t1
  t2 = t2
  Masters = {m1}
  Sessions = {s1}
  Requests = {r1, r2}
  MasterOf <- MCMasterOf
  NoSession = NoSession
  Purgeable = {m1}
  Faults = {"listener", "http", "network", "db", "api"}
  Acks = {a1, a2}
  AckMaster <- MCAckMaster
  KeyOf <- MCKeyOf
  TradeOf <- MCTradeOf
  Accounts = {c1}
  Removable = {}
  DryRun = FALSE
  NoTrade = NoTrade
  NoAck = NoAck
INVARIANTS
  CopyTypeOK
PROPERTIES
  StoppedMeansQuiet
  SendsOnlyUnrecorded
\* Nothing is left to do once every session is deleted and the acks are out.
CHECK_DEADLOCK FALSE
