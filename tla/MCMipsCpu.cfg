SPECIFICATION Spec
CONSTANTS
  Addr <- MCAddr
  Code <- MCCode
  Starts <- MCStarts
  Vector = 21
  Regs <- MCRegs
  InitRegs = 0
INVARIANTS TypeOK NonBranchOnBd KernelSeesReason
PROPERTIES Transparent BusServed
