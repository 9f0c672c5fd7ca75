SPECIFICATION Spec
CONSTANTS
  LFIELDS_PER_FLUSH = 2
  StackSize = 30
  Programs <- Powers
INVARIANT RunsAsWritten
CHECK_DEADLOCK FALSE
