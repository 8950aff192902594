------------------------------ MODULE Doubling ------------------------------
(***************************************************************************)
(* Capacities that double: the loops in obj_ensure_capacity of             *)
(* src/src/shape/obj.c and arr_ensure_capacity of src/src/shape/arr.c, and *)
(* the powers of two of src/src/comm/struct/set.c.                         *)
(***************************************************************************)
EXTENDS Integers

\* The capacity after i doublings of the first, and the first that is enough.
Doublings(first, most) ==
  LET capacity[i \in 0 .. most] == IF i = 0 THEN first ELSE 2 * capacity[i - 1]
  IN  capacity

Doubled(first, needed) ==
  LET capacities == Doublings(first, needed)
      enough     == {i \in 0 .. needed : capacities[i] >= needed}
  IN  capacities[CHOOSE i \in enough : \A j \in enough : i <= j]
=============================================================================
