SPECIFICATION WorkerSpec
CONSTANTS
  j1 = j1  j2 = j2  j3 = j3  None = None
  Job = {j1, j2, j3}
  MaxStop = 2
  ProbeDevice = {"g", "c"}
  GpuNamed = {"g"}
  Nvidia = Nvidia
  DropIn = {1, 2}
  HostKey = HostKey
  Stranger = Stranger
  Report <- MCReport
  NoSheet = NoSheet
  Unreadable = Unreadable
  MaxUpset = 3
  MaxWire = 2
  Silence = 2
  MaxClock = 2
  MaxInstance = 2
  MaxFailure = 1
  MaxWork = 1
  MaxAnswer = 2
  Leader = leader
  Child = {c1, c2}
INVARIANTS HooksInTurn NoPhantomGap CleanIsTrue LabelIsTrue
PROPERTIES ServiceComesBack OutageKeepsLabels LabelsFollowSources DebtIsPaid RunReturns
CHECK_DEADLOCK FALSE
