SPECIFICATION Spec
CONSTANTS
  Addr <- SlotAddr
  Code <- SlotCode
  Starts <- SlotStarts
  Vector = 4
  Regs <- MCRegs
  InitRegs = 0
PROPERTY SlotExceptionReturnsToBranch
