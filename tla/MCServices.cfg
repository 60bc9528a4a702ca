SPECIFICATION Spec
CONSTANTS
  MaxSession = 2
  MaxRenew = 1
  MaxAttach = 4
  Follower = {f1}
  Appender = {a1, a2}
  MaxChunk = 3
  Emitter = {e1, e2}
  QueueSize = 2
  Attempts = 2
  MaxEvent = 4
  MaxScheduledPollFailures = 3
  MaxPollFailures = 2
  HasTimeout = TRUE
  ExitCode = {0, 3, 256}
  PollHandler = {h1, h2}
  Poker = {k1, k2}
  NoPoll = NoPoll
  MaxItem = 2
  MaxDrop = 2
  Subscriber = {s1}
  Publisher = {p1, p2}
  Buffer = 2
  MaxVersion = 4
INVARIANTS EndsMeet NothingMissed BlipKillsNothing SaysTheTruth NoLostPoke HandedOutOnce DropIsHarmless
PROPERTIES HalvesLetGo StreamEnds CloseReturns CommandEnds WorkIsTaken NoLeakedStream
CHECK_DEADLOCK FALSE
