SPECIFICATION Spec
CONSTANTS
  LFIELDS_PER_FLUSH = 2
  StackSize = 30
  Programs <- MCPrograms
INVARIANTS RunsAsWritten CodeIsChecked StackIsAsCompiled
CHECK_DEADLOCK FALSE
