SPECIFICATION Spec
CONSTANTS
  PhysWords = 6
  LineWords = 2
  MaxLen = 3
  LookupSize = 2
  Ops <- MCOps
  Kind <- MCKind
  Segs <- TinySegs
  Prog <- LongProg
  Patches <- LongPatches
  Entry <- LongEntry
  NoDst = NoDst
  kseg0 = kseg0
  kseg1 = kseg1
PROPERTY RequestedAreGone
