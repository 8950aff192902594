CONSTANTS
  Name = {1, 2, 3, 4}
  LongName = {}
  HugeName = {}
  MAX_OBJ_KEYS = 4
  MaxYamlDepth = 4
  Hash <- MCHash
  Layout <- MCLayout
SPECIFICATION YamlSpec
CHECK_DEADLOCK FALSE
INVARIANT NestingRead
