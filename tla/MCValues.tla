------------------------------ MODULE MCValues ------------------------------
(* Two containers of up to three items or two properties, which may hold   *)
(* each other and themselves, and whose cells grow twice: from one to two  *)
(* to four.                                                                *)
EXTENDS Values

MCIndex == {-1, 0, 2}

Symmetry == Permutations(Container)
=============================================================================
