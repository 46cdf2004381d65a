SPECIFICATION FairSpec
CONSTANTS
  c1 = c1
  c2 = c2
  r1 = r1
  r2 = r2
  cursor = cursor
  size = size
  Client <- MCClient
  Row <- MCRow
  Cursor <- cursor
  Size <- size
  Chunk <- MCChunk
  MaxVersion = 3
  Capacity = 1
INVARIANTS
  QuietScreensAgree
  DamageIsSignalled
PROPERTY ScreensSettle
