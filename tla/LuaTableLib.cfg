SPECIFICATION Spec
CONSTANTS
  Key <- MCKey
  Positions <- MCPositions
  Value <- MCValue
  nil = nil
  Tables <- MCTables
  Orders <- MCOrders
INVARIANTS TypeOK TablesAreKept SortsByTheOrder
PROPERTY CallsEnd
CHECK_DEADLOCK FALSE
