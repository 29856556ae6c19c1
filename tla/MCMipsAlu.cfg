SPECIFICATION Spec
CONSTANTS
  Bits = 4
  ImmBits = 2
  Regs <- MCRegs
  Values <- MCValues
  HiLos <- MCHiLos
  MaxInsts = 1
INVARIANTS TypeOK TrapsIffOverflows DivMulExact Canonical
CHECK_DEADLOCK FALSE
