SPECIFICATION ServicesSpec
CONSTANTS
  Client = {c1}
  MaxId = 2
  WorktreeMade = {FALSE}
  MaxProcess = 3
  Prober = {p1}
  MaxAsk = 4
  MaxConnection = 2
  Shown = {s1, s2}
  NoShown = NoShown
  MaxSelect = 2
  MaxOutput = 2
  Tui = {t1, t2}
  RingCap = 2
  FlushInterval = 2
  MaxLines = 3
  MaxSent = 5
  RateMax = 3
  RateWindow = 2
  MaxTime = 5
  AgentTool = {bash}
  NoTool = NoTool
  Poller = {q1, q2}
  StateFile = {f1}
  MaxState = 3
INVARIANTS
  NamesUnique
  ServicesTypeOK
  FilesAreOwn
  SavedIsReported
  DoneIsDone
  CaughtUpIsCurrent
  NumbersIncrease
  RateIsBounded
  FileFollowsStatus
  CacheFollowsFiles
  LivePrunedUnseen
PROPERTIES
  ExitIsNoticed
  EndSettles
CHECK_DEADLOCK FALSE
