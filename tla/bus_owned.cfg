SPECIFICATION Spec
CONSTANTS
  NoSession = NoSession
  Tool = {t1}
  Content <- PlainContent
  Daemon = {d1}
  External = {}
  Client = {c1}
  Capacity = 1
INVARIANT WatcherSkipsOwned
