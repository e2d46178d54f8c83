SPECIFICATION Spec
CONSTANTS
  XLEN = 3
  WORD = 3
  IMM = 3
  JUMP = 4
  Reg <- MCReg
  BitAnd <- MCAnd
  BitOr <- MCOr
  BitXor <- MCXor
  Instruction <- JalrInPlace
PROPERTY JalrReadsItsBase
CHECK_DEADLOCK FALSE
