CONSTANTS
  Name = {1, 2, 3, 4}
  LongName = {2, 4}
  HugeName = {4}
  MAX_OBJ_KEYS = 3
  MaxDepth = 2
  MaxSaxDepth = 2
  Hash <- MCHash
  Document <- MCDocument
  MaxSize = 9
  Wider <- MCWider
SPECIFICATION ReadersSpec
CHECK_DEADLOCK FALSE
INVARIANTS
  ParserTypeOK
  Verdict
  KeysOrdered
  ValueRead
  ViewsAgree
  EstimateExact
  SaxVerdict
  EventsTold
  ReadersAgree
PROPERTIES
  ReadersEnd
