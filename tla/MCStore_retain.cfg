SPECIFICATION Spec
CONSTANTS
  w1 = w1  d1 = d1  j1 = j1  j2 = j2  b1 = b1  b2 = b2  None = None
  Worker = {w1}
  Device = {d1}
  Job = {j1, j2}
  BootId = {b1, b2}
  WorkerOf <- OneHost
  Holds = {j2}
  Retain = TRUE
  Grace = 1
  UnhealthyAfter = 2
  LeaseTTL = {1}
  RenewWindow = 2
  Redeliver = 1
  StartupGrace = 1
  RecoveryWindow = 1
  RecoveryLimit = 1
SYMMETRY Symmetry
INVARIANTS StoreInv
PROPERTIES WindowJudgesNobody
