SPECIFICATION Spec
CONSTANTS
  PhysWords = 6
  LineWords = 3
  MaxLen = 3
  LookupSize = 2
  Ops <- MCOps
  Kind <- MCKind
  Segs <- MCSegs
  Prog <- MCProg
  Patches <- MCPatches
  Entry <- MCEntry
  NoDst = NoDst
  kseg0 = kseg0
  kseg1 = kseg1
INVARIANTS TypeOK LookupSound WorkFlag HeldAtPc Coherent NoPanic
PROPERTIES RequestedAreGone HeldBlockStable
