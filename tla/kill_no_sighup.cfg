SPECIFICATION FairSpec
CONSTANTS
  c1 = c1
  c2 = c2
  Client <- MCClient
  MaxId = 2
  WorktreeMade = {TRUE, FALSE}
PROPERTY KillHangsUpChild
