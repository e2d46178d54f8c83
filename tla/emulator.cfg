SPECIFICATION FairEmuSpec
CONSTANTS
  Modulus = 16
  KERNBASE = 4
  MEMORY_SIZE = 8
  EhdrSize = 1
  PhdrSize = 1
  Files <- MCFiles
  Options = {"-elf", "-xv6", "usage"}
  Stubs = {2}
  Stored <- MCStored
  StoreCells = {7}
  RootGarbage <- MCRootGarbage
  Target = {4}
  Offset = {8}
  Operand <- MCOperand
  PtrOperand <- MCPtrOperand
  Stray <- MCStray
INVARIANTS TypeOK CopiesStayInBounds StartsTheProgram
PROPERTIES FittingProgramRuns LostIsStuck LostNeverPolls
CHECK_DEADLOCK FALSE
