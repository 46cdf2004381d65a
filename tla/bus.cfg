SPECIFICATION Spec
CONSTANTS
  NoSession = NoSession
  Tool = {t1}
  Content <- PlainContent
  Daemon = {d1}
  External = {}
  Client = {c1}
  Capacity = 2
INVARIANTS
  LiveIsShown
  GoneIsNotShown
