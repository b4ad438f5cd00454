SPECIFICATION Spec
CONSTANTS
  g1 = g1
  g2 = g2
  c1 = c1
  c2 = c2
  Accounts = {c1, c2}
  Masters = {m1, m2}
  States = {n1, n2}
  NoState = NoState
  NoToken = NoToken
  Requests = {r1, r2}
  MaxCalls = 2
  FirstAccounts = {c1}
  FirstMembers <- MCFirstMembers
  Groups = {g1, g2}
  Rank <- MCRank
  SessionMaster = m1
  Settings = {default, other}
  DefaultSetting = default
  None = None
  Loaders = {l1}
  Editors = {e1, e2}
  TTL = 1
  Lag = 1
SYMMETRY Alike
INVARIANTS
  TypeOK
  TokensFit
  FreshUnlessMissed
PROPERTIES
  BoundedStaleness
\* Nothing is left to do once the bounded edits and calls are used up.
CHECK_DEADLOCK FALSE
