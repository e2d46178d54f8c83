SPECIFICATION Spec
CONSTANTS
  Base <- MCBase
  Extent <- MCExtent
  Vptr = 1
  Buffer = 2
  Lsr = 1
  Space <- MCSpace
  Size = {1, 2}
  StoredByte <- MCStoredByte
  HostStack = 3
INVARIANT WalkIsPhysical
CHECK_DEADLOCK FALSE
