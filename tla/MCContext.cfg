CONSTANTS
  BlockId = {b1, b2, b3, b4}
  Word = 4096
  HeapSize = 500
  Configs <- MCConfigs
  Sizes <- MCSizes
  Keeps = {40}
  Doc <- MCDoc
  NULL = NULL
  CtxSize = 40
  NodeSize = 24
  IntSize = 4
  EntrySize = 16
  KeyNodeSize = 12
  PathSize = 60
  ValueSizes <- MCValueSizes
SPECIFICATION CtxSpec
SYMMETRY Symmetry
CHECK_DEADLOCK FALSE
INVARIANTS
  CtxTypeOK
  ContextPreserved
  DocumentUsable
  ErrorsReported
PROPERTIES
  TreeMatchesAst
  ParseContained
