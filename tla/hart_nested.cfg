SPECIFICATION SpecH
CONSTANTS
  AddrSpace = 8
  Entry = 0
  Fetchable <- MCFetchable
  RootGarbage <- Zeroed
  Target = {0}
  Offset <- MCOffset
  Operand <- NestedOperand
  PtrOperand <- NestedPtr
  Stray <- NestedStray
INVARIANTS PreciseException SupervisorFrameKept
PROPERTIES SretUndoesTrap MretRestoresEnable
