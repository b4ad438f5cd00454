SPECIFICATION BoundedSpec
CONSTANTS
  Orders = {o1, o2}
  Details <- MCDetails
  Copiers = {c1}
  Settings <- MCSettings
  Losses = {0, 2}
  Stamps = {t1}
  OrderId = OrderId
  MaxFeed = 2
SYMMETRY OrderSymmetry
INVARIANTS
  TypeOK
  ObeysSettings
  TradesWithinDay
  NeverOvercopied
  RefusedNotCopied
\* Nothing is left to do once the day's orders are closed and reported.
CHECK_DEADLOCK FALSE
