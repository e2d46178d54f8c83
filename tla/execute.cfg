SPECIFICATION Spec
CONSTANTS
  XLEN = 4
  WORD = 3
  IMM = 3
  JUMP = 4
  Reg <- MCReg
  BitAnd <- MCAnd
  BitOr <- MCOr
  BitXor <- MCXor
  Instruction <- All
PROPERTY ImplementsIsa
CHECK_DEADLOCK FALSE
