SPECIFICATION Spec
CONSTANTS
  PageWords = 4
  LineWords = 2
  Frames = 2
  VPages = 2
  MaxLen = 3
  Ops <- MCOps
  Kind <- MCKind
  Prog <- MCProg
  Patches <- MCPatches
  Entry <- MCEntry
INVARIANTS TypeOK StartPageCoherent RunsWhatIsMapped MissIsAhead
CHECK_DEADLOCK FALSE
