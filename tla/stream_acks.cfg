SPECIFICATION FairSpec
CONSTANTS
  c1 = c1
  c2 = c2
  h1 = h1
  h2 = h2
  x1 = x1
  x2 = x2
  Conns = {c1, c2}
  Handlers = {h1, h2}
  Symbols = {x1}
  NoConn = NoConn
INVARIANTS
  TypeOK
  AckFlagHonest
  NoOrphanStream
  AckFramesBounded
  FeedsReplayed
PROPERTIES
  AcksSubscribed
