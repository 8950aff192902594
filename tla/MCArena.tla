------------------------------ MODULE MCArena ------------------------------
(* Arena on small blocks: 24-byte blocks (not a multiple of 16, like the   *)
(* 1000-byte blocks of tests/arena.test.c), a ceiling that holds three of  *)
(* them, and requests below, above and far above the block size.           *)
EXTENDS Arena, TLC

\* Trims on most resets; keeps every block on reset; refused outright.
MCConfigs ==
  {[default |-> 24, limit |-> 200, shrink |-> 100],
   [default |-> 24, limit |-> 200, shrink |-> 200],
   [default |-> 24, limit |-> 50,  shrink |-> 0],
   [default |-> 1000, limit |-> 1023, shrink |-> 0]}

\* nothing; one unit; a block of its own; larger than the
\* ceiling; header overflow; alignment overflow.
MCSizes == {0, 8, 40, 176, 1000, 1020}

MCKeeps == {0, 12, 20}

Symmetry == Permutations(BlockId)
=============================================================================
