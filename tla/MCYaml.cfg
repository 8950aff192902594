CONSTANTS
  Name = {1, 2, 3, 4}
  LongName = {3}
  HugeName = {}
  MAX_OBJ_KEYS = 2
  MaxYamlDepth = 4
  Hash <- MCHash
  Layout <- MCLayout
SPECIFICATION YamlSpec
CHECK_DEADLOCK FALSE
INVARIANTS
  YamlTypeOK
  RegularRead
  YamlViewsAgree
  IndentsOwned
PROPERTIES
  YamlParseEnds
