SPECIFICATION Spec
CONSTANT Words <- MCWords
INVARIANTS TypeOK DecodesTheIsa ReservedWordsTrap OrderIsIrrelevant
CHECK_DEADLOCK FALSE
