CONSTANTS
  BlockId = {b1, b2, b3}
  Word = 1024
  HeapSize = 400
  Configs <- MCConfigs
  Sizes <- MCSizes
  Keeps <- MCKeeps
SPECIFICATION Spec
SYMMETRY Symmetry
INVARIANTS
  TypeOK
  LivePlaced
  ReservedExact
  ReservedWithinLimit
PROPERTY RefinesRegions
