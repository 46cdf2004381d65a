SPECIFICATION DesktopSpec
CONSTANTS
  MaxNotification = 3
  Char = {a, b}
  Output = {o1, o2}
  MaxTyped = 2
  MaxFailures = 4
  MaxUtterance = 3
  MaxDispatch = 2
  MaxSpeech = 3
  SilenceRequired = 2
  NoStream = NoStream
  Speaker = {s1, s2, s3}
  MaxText = 3
  MaxRequest = 1
  SuppressedMax = 2
  MaxCommand = 3
  MaxTurns = 1
  SessionTimeout = 1
  MaxClock = 2
INVARIANTS
  DesktopTypeOK
  RateLimited
  FallbackIsKept
  IndicatorTrue
  OwnWords
  OneVoice
  TypedIsKept
  HudSettles
  RecentTurnsAreTold
PROPERTIES
  NewestIsShown
  SpokenInOrder
CHECK_DEADLOCK FALSE
