SPECIFICATION Spec
CONSTANTS
  Immediates <- MCImmediates
  Background <- MCBackground
INVARIANTS ParsesWhatWasEncoded OperandIsSigned
CHECK_DEADLOCK FALSE
