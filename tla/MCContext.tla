----------------------------- MODULE MCContext -----------------------------
(* Context on an arena of 96-byte blocks, where a context and a document   *)
(* share blocks and a second document needs another one, and on one whose  *)
(* blocks are smaller than a context.                                      *)
EXTENDS Context, TLC

MCConfigs ==
  {[default |-> 96, limit |-> 400, shrink |-> 200],
   [default |-> 96, limit |-> 270, shrink |-> 400],
   [default |-> 32, limit |-> 400, shrink |-> 400]}

Document(length, prescan, parser, conforms) ==
  [length |-> length, values |-> length, prescan |-> prescan,
   parser |-> parser, conforms |-> conforms]

\* empty; over a limit; malformed; valid and conforming; valid and not.
MCDoc ==
  {Document(0, "none", "none", FALSE),
   Document(1, "MAXIMUM_VALUES_REACHED", "none", FALSE),
   Document(2, "none", "MALFORMED_JSON", FALSE),
   Document(1, "none", "none", TRUE),
   Document(3, "none", "none", FALSE)}

MCValueSizes == <<40, 12, 64>>

MCSizes == {60, 40} \cup ToSet(MCValueSizes) \cup UNION {ToSet(ParseSizes(d)) : d \in MCDoc}

Symmetry == Permutations(BlockId)
=============================================================================
