SPECIFICATION Spec
CONSTANTS
  Entries = 2
  SegPages = 16
  Asids <- MCAsids
  HiVpns <- MCHiVpns
  Los <- MCLos
  Masks <- MCMasks
  WiredValues <- MCWired
  IndexValues <- MCIndices
  Accessed <- MCAccessed
  Pages <- MCPages
INVARIANTS TypeOK TranslatesAsAsked ProbeFindsMapped
CHECK_DEADLOCK FALSE
