SPECIFICATION ValidatorSpec
CONSTANTS
  Size <- MCSize
  Matching <- MCMatching
  Broken <- MCBroken
  Conforming <- MCConforming
  Means <- MCMeans
  MaxInt32 = 3
  ItemPath = 2
  Schema <- MCSchema
  Document <- MCDocument
INVARIANT StaysOnCode
