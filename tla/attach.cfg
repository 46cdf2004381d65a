SPECIFICATION Spec
CONSTANTS
  c1 = c1
  c2 = c2
  s1 = s1
  s2 = s2
  None = None
  Client <- MCClient
  Session <- MCSession
  CountModulus = 4
  Faults = {"strayDetach", "writerStops"}
SYMMETRY Symmetry
INVARIANTS
  TypeOK
  CountIsHolders
  StreamIsRecorded
PROPERTY SizeIsNotStolen
