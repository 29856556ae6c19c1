SPECIFICATION Spec
CONSTANTS
  Entries = 2
  SegPages = 16
  Asids <- OneAsid
  HiVpns <- MCHiVpns
  Los <- OneLo
  Masks <- OneMask
  WiredValues <- MCWired
  IndexValues <- MCIndices
  Accessed <- MCAccessed
  Pages <- MCPages
INVARIANT EntryHiNamesFault
CHECK_DEADLOCK FALSE
