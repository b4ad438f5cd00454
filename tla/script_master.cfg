SPECIFICATION FairSpec
CONSTANTS
  tcs = tcs
  ine = ine
  x1 = x1
  x2 = x2
  odd = odd
  k1 = k1
  ce = ce
  d1 = d1
  eq = eq
  opt = opt
  Exchanges = {nse}
  Home = nse
  Names = {tcs, ine}
  Codes = {x1, x2}
  OddCodes = {odd}
  Expiries = {d1}
  Strikes = {k1}
  Options = {ce}
  Lots = {}
  CashTypes = {eq}
  DerivativeTypes = {opt}
  Missing = Missing
  Answers <- MCAnswers
  Events <- MCEvents
  Tasks = {t1, t2}
  None = None
  TTL = 1
  MaxNow = 1
INVARIANTS
  MemoryMatchesTable
  ResolvedIsExact
PROPERTIES
  TasksReturn
