SPECIFICATION Spec
CONSTANTS
  Half = 8
  Regs <- MCRegs
  AsSingle <- MCSingle
  AsDouble <- MCDouble
  NaN = NaN
  Open = Open
  Results <- MCResults
  Revision = 11
  Fprs <- MCFiles
  Gprs <- MCGprs
  MaxInsts = 2
INVARIANTS TypeOK ConvertsRight ConditionIsLast ReadsLastWritten
CHECK_DEADLOCK FALSE
