SPECIFICATION Spec
CONSTANTS
  c1 = c1
  c2 = c2
  Client <- MCClient
  MaxId = 2
  WorktreeMade = {TRUE, FALSE}
SYMMETRY Symmetry
INVARIANTS
  TypeOK
  EndLeavesNothing
  EndIsAnnounced
  LiveIsKnown
PROPERTY ImplementsTable
