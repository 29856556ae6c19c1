SPECIFICATION Spec
CONSTANTS
  MemBytes = 16
  Mem0 <- MCMem
  Gpr0 <- MCGpr0
  AllowMisaligned = FALSE
  MaxInsts = 2
INVARIANT TypeOK
PROPERTIES UnalignedLoad UnalignedStore HalfRoundTrip
CHECK_DEADLOCK FALSE
