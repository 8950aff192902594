----------------------------- MODULE ObjectMaps -----------------------------
(***************************************************************************)
(* What the objects of src/src/shape promise, with no shapes, slots or     *)
(* locks: each thread's object is a map of its own from names to values,   *)
(* which nothing but the thread's own calls changes.                       *)
(***************************************************************************)
CONSTANTS
  Thread,   \* each with the one object it works on
  Name,     \* the names of properties
  Value,
  NULL      \* no object; a property an object does not have

VARIABLE maps   \* what obj_get returns, for each thread's object

Empty == [n \in Name |-> NULL]

MapsInit == maps = [t \in Thread |-> NULL]

Make(t) ==
  /\ maps[t] = NULL
  /\ maps' = [maps EXCEPT ![t] = Empty]

Put(t, n, v) ==
  /\ maps[t] # NULL
  /\ maps' = [maps EXCEPT ![t][n] = v]

Drop(t) == maps' = [maps EXCEPT ![t] = NULL]

MapsNext ==
  \E t \in Thread :
    \/ Make(t)
    \/ \E n \in Name, v \in Value : Put(t, n, v)
    \/ Drop(t)

MapsSpec == MapsInit /\ [][MapsNext]_maps
=============================================================================
