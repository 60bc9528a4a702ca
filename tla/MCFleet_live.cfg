SPECIFICATION FairSpec
CONSTANTS
  w1 = w1  d1 = d1  j1 = j1  j2 = j2  None = None
  Worker = {w1}
  Device = {d1}
  Job = {j1}
  BootId = {1}
  WorkerOf <- OneHost
  Holds = {}
  Retain = FALSE
  Grace = 1
  UnhealthyAfter = 2
  LeaseTTL = {1}
  RenewWindow = 1
  Redeliver = 1
  StartupGrace = 0
  RecoveryWindow = 0
  RecoveryLimit = 1
  Faults = {"crash", "shutdown", "lostPoll", "lostReport", "slowSpawn", "slowBeat", "kill"}
  Isolated = TRUE
  MaxRegister = 1
PROPERTIES AbandonedIsReclaimed KillTakesEffect
