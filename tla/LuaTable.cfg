SPECIFICATION Spec
CONSTANTS
  ka = ka
  kb = kb
  MaxInt = 3
  MAX_INT = 4
  Objects = {ka, kb}
  Strings = {kb}
  Hash <- MCHash
  Values = {1}
  Nil = Nil
  None = None
  Off = Off
INVARIANTS TypeOK ChainsReach RehashMakesRoom GetnIsBorder
PROPERTY ImplementsMap
