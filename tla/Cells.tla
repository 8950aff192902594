-------------------------------- MODULE Cells -------------------------------
(***************************************************************************)
(* The arrays of values that objects keep their properties in and arrays   *)
(* their items: obj_ensure_capacity of src/src/shape/obj.c and             *)
(* arr_ensure_capacity of src/src/shape/arr.c, which are the same.         *)
(***************************************************************************)
EXTENDS Doubling, Sequences

CONSTANT FirstCapacity   \* the values there is room for at first: 4 in the code

ASSUME CapacityAssumption == FirstCapacity \in Nat \ {0}

Undefined == "undefined"

Grow_NoCopy(cells, needed) == [i \in 1 .. Doubled(FirstCapacity, needed) |-> Undefined]

(* A larger array with the old values first.                               *)
Grow(cells, needed) ==
  [i \in 1 .. Doubled(FirstCapacity, needed) |-> IF i <= Len(cells) THEN cells[i] ELSE Undefined]

\* The array with room for `needed` values, the same one if it has that.
WithRoom(cells, needed) == IF Len(cells) >= needed THEN cells ELSE Grow(cells, needed)
=============================================================================
