SPECIFICATION Spec
CONSTANTS
  j1 = j1
  j2 = j2
  j3 = j3
  o1 = o1
  o2 = o2
  c1 = c1
  c2 = c2
  Workers = {w1}
  Jobs = {j1, j2}
  Orders = {o1, o2}
  OrderOf <- MCOrderOf
  Accounts = {c1, c2}
  TargetsOf <- MCTargetsOf
  MaxRetries = 1
  Faults = {}
  NoJob = NoJob
PROPERTIES
  EveryResultStored
\* A worker waits for jobs once all of them are handled.
CHECK_DEADLOCK FALSE
