SPECIFICATION Spec
CONSTANTS
  PhysWords = 4
  LineWords = 2
  MaxLen = 4
  LookupSize = 2
  Ops <- MCOps
  Kind <- MCKind
  Segs <- TinySegs
  Prog <- TinyProg
  Patches <- TinyPatches
  Entry <- TinyEntry
  NoDst = NoDst
  kseg0 = kseg0
  kseg1 = kseg1
PROPERTIES ImplementsCodeMemory WorkDone
