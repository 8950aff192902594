--------------------------- MODULE MCKeywordTables --------------------------
(* Two keywords, one type, another name that is neither, and one address   *)
(* more than there are names, so that what the heap keeps for ever leaves  *)
(* room for some of a second start.                                        *)
EXTENDS KeywordTables, TLC

Symmetry == Permutations(Address)
=============================================================================
