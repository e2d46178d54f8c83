SPECIFICATION FairSpec
CONSTANTS
  AddrSpace = 8
  Entry = 0
  Fetchable <- MCFetchable
  RootGarbage <- Garbage
  Target = {0, 2}
  Offset <- MCOffset
  Operand <- WaitOperand
  PtrOperand <- NoPtr
  Stray <- WaitStray
CHECK_DEADLOCK FALSE
INVARIANT PagingCoherent
PROPERTIES SoftwareInterruptServed 
