SPECIFICATION BoundedSpec
CONSTANTS
  m1 = m1
  s1 = s1
  s2 = s2
  a1 = a1
  a2 = a2
  a3 = a3
  k1 = k1
  k2 = k2
  t1 = t1
  t2 = t2
  Masters = {m1}
  Sessions = {s1}
  Requests = {r1}
  MasterOf <- MCMasterOf
  NoSession = NoSession
  Purgeable = {}
  Faults = {"listener", "network"}
  Acks = {a1, a2, a3}
  AckMaster <- MCAckMaster
  KeyOf <- MCKeyOf
  TradeOf <- MCTradeOf
  c1 = c1
  c2 = c2
  Accounts = {c1, c2}
  Removable = {c1, c2}
  DryRun = FALSE
  NoTrade = NoTrade
  NoAck = NoAck
SYMMETRY AnyAccount
INVARIANTS
  RowsAgree
  RowsTellWhatWasHeard
  AcceptedIsRecorded
  DoublesOnlyAfterRollback
\* Nothing is left to do once every session is deleted and the acks are out.
CHECK_DEADLOCK FALSE
