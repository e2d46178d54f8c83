SPECIFICATION CpuSpec
CONSTANTS
  Base <- MCBase
  Extent <- MCExtent
  Vptr = 1
  Buffer = 1
  Lsr = 0
  Space <- MCSpace
  Size = {1, 2}
  StoredByte <- MCStoredByte
  HostStack = 1
  Width = 2
  AddrSpace = 12
  ImmSpan = 18
  AsAddress <- MCAsAddress
  Reg <- MCReg
  Instruction <- MCInstruction
PROPERTY ImplementsIsaMemory
