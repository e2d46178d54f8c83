SPECIFICATION Spec
CONSTANTS
  AddrSpace = 8
  Entry = 0
  Fetchable <- MCFetchable
  RootGarbage <- Zeroed
  Target = {0}
  Offset <- NoOffset
  Operand <- InterruptOperand
  PtrOperand <- InterruptPtr
  Stray <- InterruptStray
INVARIANTS TypeOK ExceptionMasksInterrupts
PROPERTIES TrapNeverLowersPrivilege InterruptDelivery VectoredDispatch
