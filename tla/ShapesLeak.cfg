CONSTANTS
  t1 = t1
  t2 = t2
  Thread <- MCThread
  Name = {a, b}
  Value = {v, w}
  NULL = NULL
  KeyCells <- MCKeyCells
  FirstCapacity = 1
SPECIFICATION ResetSpec
CHECK_DEADLOCK FALSE
PROPERTIES
  NoLeak
