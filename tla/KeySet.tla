------------------------------- MODULE KeySet -------------------------------
(***************************************************************************)
(* The hash set of src/src/comm/struct/set.c, in which a parse looks up    *)
(* whether an object had a key before: a table that never grows, probed    *)
(* entry by entry from the place a key's hash leads to.                    *)
(*                                                                         *)
(* A key is what the parsers make of it, the number of its object and its  *)
(* name.  A table is a function from 0 .. capacity - 1.                    *)
(***************************************************************************)
EXTENDS Integers

CONSTANT Hash(_)   \* hash_str, any function from keys to natural numbers

Free == <<0, 0>>   \* an entry that is not used; no object has the number 0

EmptyTable(capacity) == [entry \in 0 .. capacity - 1 |-> Free]

Home(capacity, key) == Hash(key) % capacity

(* The entry looked at after i others; behind the last comes the first.    *)
Probe(capacity, home, i) ==
  IF home + i < capacity THEN home + i ELSE home + i - capacity

EntryAt(capacity, key, i) == Probe(capacity, Home(capacity, key), i)

(* The search for a key ends at an unused entry or at the key.             *)
EndsAt(table, capacity, key, i) ==
  /\ table[EntryAt(capacity, key, i)] \in {Free, key}
  /\ \A j \in 0 .. i - 1 : table[EntryAt(capacity, key, j)] \notin {Free, key}

IsFull(table, capacity, key) == \A i \in 0 .. capacity - 1 : ~EndsAt(table, capacity, key, i)

EndOf(table, capacity, key) == CHOOSE i \in 0 .. capacity - 1 : EndsAt(table, capacity, key, i)

(* What set_insert answers for a key that is not too long.                 *)
Answer(table, capacity, key) ==
  IF IsFull(table, capacity, key) THEN "TABLE_IS_FULL"
  ELSE IF table[EntryAt(capacity, key, EndOf(table, capacity, key))] = key THEN "ALREADY_EXIST"
  ELSE "IS_UNIQ"

TableWith_AtHome(table, capacity, key) == [table EXCEPT ![Home(capacity, key)] = key]

(* The table it leaves.                                                    *)
TableWith(table, capacity, key) ==
  IF Answer(table, capacity, key) = "IS_UNIQ"
  THEN [table EXCEPT ![EntryAt(capacity, key, EndOf(table, capacity, key))] = key]
  ELSE table
=============================================================================
