CONSTANTS
  Container = {c1, c2}
  Name = {1, 2}
  Index <- MCIndex
  FirstCapacity = 1
  SizeRange = 32
  MaxText = 9
  NULL = NULL
SPECIFICATION ValuesSpec
SYMMETRY Symmetry
CHECK_DEADLOCK FALSE
INVARIANTS
  ValuesTypeOK
  TextReadsBack
PROPERTIES
  RefinesContainers
