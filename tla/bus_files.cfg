SPECIFICATION FairSpec
CONSTANTS
  NoSession = NoSession
  Tool = {t1, t2}
  Content <- AnyContent
  Daemon = {}
  External = {x1}
  Client = {c1}
  Capacity = 2
INVARIANT ExternalIsMirrored
PROPERTY LiveIsLearnt
