----------------------------- MODULE Containers -----------------------------
(***************************************************************************)
(* What the objects and arrays of src/src/shape promise a host that builds *)
(* a value, with no slots, capacities or reference counts: an object maps  *)
(* names to values, an array is a list, and what is set reads back until   *)
(* it is set again.                                                        *)
(***************************************************************************)
EXTENDS Integers, Sequences

CONSTANTS
  Container,   \* what may become an object or an array
  Name,        \* of properties
  Index,       \* the places of items a host asks for
  Value,       \* what can be put in a container, containers among it
  Undefined,   \* the item nobody set, between two that were
  NULL         \* a container not made yet; the value of a missing property

VARIABLE contents

ContentsInit == contents = [c \in Container |-> NULL]

Make(c, empty) ==
  /\ contents[c] = NULL
  /\ contents' = [contents EXCEPT ![c] = empty]

MakeObject(c) == Make(c, [property |-> [n \in Name |-> NULL]])
MakeArray(c)  == Make(c, [item |-> <<>>])

IsObject(c) == contents[c] # NULL /\ "property" \in DOMAIN contents[c]
IsArray(c)  == contents[c] # NULL /\ "item" \in DOMAIN contents[c]

\* The list with v at a place, counted from 0, and as long as that takes.
WithItem(list, i, v) ==
  [k \in 1 .. (IF i < Len(list) THEN Len(list) ELSE i + 1) |->
     IF k = i + 1 THEN v ELSE IF k <= Len(list) THEN list[k] ELSE Undefined]

\* One property or item set, and everything else as before.
WithProperty(all, o, n, v) == [all EXCEPT ![o].property[n] = v]
WithItemOf(all, a, i, v)   == [all EXCEPT ![a].item = WithItem(@, i, v)]

PutProperty(o) ==
  /\ IsObject(o)
  /\ contents' \in {WithProperty(contents, o, n, v) : n \in Name, v \in Value}

(* Items before a new last one may be undefined.                           *)
PutItem(a) ==
  /\ IsArray(a)
  /\ contents' \in {WithItemOf(contents, a, i, v) : i \in Index \cap Nat, v \in Value}

ContentsNext ==
  \E c \in Container : MakeObject(c) \/ MakeArray(c) \/ PutProperty(c) \/ PutItem(c)

ContentsSpec == ContentsInit /\ [][ContentsNext]_contents
=============================================================================
