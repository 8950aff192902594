CONSTANTS
  Keyword = {k1, k2}
  TypeName = {t1}
  OtherName = {n1}
  Address = {a1, a2, a3, a4, a5}
  NULL = NULL
SPECIFICATION TablesSpec
SYMMETRY Symmetry
INVARIANTS
  TablesAlive
  KeywordsKnown
