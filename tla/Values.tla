------------------------------- MODULE Values -------------------------------
(***************************************************************************)
(* The values of src/src/shape a host builds and reads: objects (obj.c),   *)
(* arrays (arr.c), reference counts (value.c), paths (path.c) and the text *)
(* they are written as (serialize.c).                                      *)
(*                                                                         *)
(* A value is a container, or one of four leaves that stand for all the    *)
(* others: a string, null, a number JSON has no text for (an infinite      *)
(* double or NaN), and undefined.  A shape is the list of its keys, which  *)
(* is what ShapeTree shows of it.  Containers may share others and may     *)
(* contain themselves.                                                     *)
(***************************************************************************)
EXTENDS JsonGrammar, Cells, SequencesExt

CONSTANTS
  Container,   \* the addresses objects and arrays get
  Index,       \* the places a host sets items at
  SizeRange,   \* 2^64: a size_t is less
  MaxText,     \* texts of so many tokens are compared with the grammar's
  NULL

ASSUME ValuesAssumption ==
  Name # {} /\ Index \subseteq Int /\ SizeRange \in Nat \ {0} /\ MaxText \in Nat

VARIABLES
  heap,     \* the containers
  status    \* "running", or how the process ended

valueVars == <<heap, status>>

Leaf  == {"string", "null", "infinite", Undefined}
Value == Container \cup Leaf

\* What a path that leads nowhere gives.
Impossible   == "impossible"
Unresolvable == "unresolvable"

ArrayRecord  == [kind : {"array"}, length : Nat, cells : Seq(Value), refs : Int]
ObjectRecord == [kind : {"object"}, shape : Seq(Name), cells : Seq(Value), refs : Int]

ASSUME AddressAssumption == Container \cap (Leaf \cup {Impossible, Unresolvable}) = {}
ASSUME NullAssumption ==
  /\ NULL \notin ArrayRecord \cup ObjectRecord \cup Value
  /\ NULL \notin [item : Seq(Value)] \cup [property : [Name -> Value \cup {NULL}]]

IsObject(v) == v \in Container /\ heap[v] # NULL /\ heap[v].kind = "object"
IsArray(v)  == v \in Container /\ heap[v] # NULL /\ heap[v].kind = "array"

\* A host has the address of a container once it is made.
Known == {c \in Container : heap[c] # NULL} \cup Leaf

---------------------------------------------------------------------------
(* Reading.                                                                *)

SlotIn(shape, n) == SelectInSeq(shape, LAMBDA key : key = n)

Slot(o, n) == SlotIn(heap[o].shape, n)

Property(n) == [by |-> "s", name |-> n]
Item(i)     == [by |-> "i", index |-> i]

(* One format character of jsonv_value_get_path, with obj_get or arr_get.  *)
Step(v, step) ==
  CASE v = Unresolvable -> v
    [] step.by = "s" /\ IsObject(v) ->
         IF Slot(v, step.name) = 0 THEN Unresolvable ELSE heap[v].cells[Slot(v, step.name)]
    [] step.by = "i" /\ IsArray(v) ->
         IF step.index \in 0 .. heap[v].length - 1 THEN heap[v].cells[step.index + 1] ELSE Unresolvable
    [] OTHER -> Impossible

GetPath(v, path) ==
  LET at[k \in 0 .. Len(path)] == IF k = 0 THEN v ELSE Step(at[k - 1], path[k])
  IN  at[Len(path)]

---------------------------------------------------------------------------
(* Building.                                                               *)

NewContainer(c, empty) ==
  /\ status = "running"
  /\ heap[c] = NULL
  /\ heap' = [heap EXCEPT ![c] = empty]
  /\ UNCHANGED status

NewObject(c) == NewContainer(c, [kind |-> "object", shape |-> <<>>, cells |-> <<>>, refs |-> 0])
NewArray(c)  == NewContainer(c, [kind |-> "array", length |-> 0, cells |-> <<>>, refs |-> 0])

\* value_retain and value_release; what no one refers to is not freed.
Counted(h, v, change) == IF v \in Container THEN [h EXCEPT ![v].refs = @ + change] ELSE h

Exchanged_KeepsOld(h, old, new) == Counted(h, new, 1)

\* The new reference is counted first: the old one may be the same.
Exchanged(h, old, new) == Counted(Counted(h, new, 1), old, -1)

\* The arena has no room for more cells; the code writes behind them.
WritePast ==
  /\ status' = "wrotePast"
  /\ UNCHANGED heap

SetItem_AnyIndex(a, i, v) ==
  LET array == heap[a] IN
    \/ i < 0 /\ UNCHANGED valueVars
    \/ /\ i >= 0
       /\ heap' = Exchanged([heap EXCEPT ![a].cells = [WithRoom(@, i + 1) EXCEPT ![i + 1] = v],
                                         ![a].length = i + 1],
                            WithRoom(array.cells, i + 1)[i + 1], v)
       /\ UNCHANGED status
    \/ i >= 0 /\ Len(array.cells) < i + 1 /\ WritePast

(* arr_set.                                                                *)
SetItem(a, i, v) ==
  LET array == heap[a] IN
    \/ i < 0 /\ UNCHANGED valueVars
    \/ /\ i >= 0
       /\ heap' = Exchanged([heap EXCEPT ![a].cells = [WithRoom(@, i + 1) EXCEPT ![i + 1] = v],
                                         ![a].length = IF i >= @ THEN i + 1 ELSE @],
                            WithRoom(array.cells, i + 1)[i + 1], v)
       /\ UNCHANGED status
    \/ i >= array.length /\ Len(array.cells) < i + 1 /\ WritePast

(* obj_set; without memory for a shape it does nothing.                    *)
SetProperty(o, n, v) ==
  LET object == heap[o]
      slot   == Slot(o, n)
      added  == Len(object.shape) + 1 IN
    \/ /\ slot # 0
       /\ heap' = Exchanged([heap EXCEPT ![o].cells[slot] = v], object.cells[slot], v)
       /\ UNCHANGED status
    \/ /\ slot = 0
       /\ heap' = Counted([heap EXCEPT ![o].shape = Append(@, n),
                                       ![o].cells = [WithRoom(@, added) EXCEPT ![added] = v]], v, 1)
       /\ UNCHANGED status
    \/ slot = 0 /\ UNCHANGED valueVars
    \/ slot = 0 /\ Len(object.cells) < added /\ WritePast

ValuesInit ==
  /\ heap = [c \in Container |-> NULL]
  /\ status = "running"

ValuesNext ==
  \E c \in Container :
    \/ NewObject(c)
    \/ NewArray(c)
    \/ status = "running" /\ IsArray(c) /\ \E i \in Index, v \in Known : SetItem(c, i, v)
    \/ status = "running" /\ IsObject(c) /\ \E n \in Name, v \in Known : SetProperty(c, n, v)

ValuesSpec == ValuesInit /\ [][ValuesNext]_valueVars

---------------------------------------------------------------------------
(* Writing.                                                                *)

Error == Mark("error")

\* All strings read the same.
Text == CHOOSE n \in Name : TRUE

LeafText(v) ==
  CASE v = "string" -> <<String(Text)>>
    [] v = "null" -> <<Scalar>>
    [] OTHER -> <<Error>>

Joined(parts) ==
  FoldLeft(LAMBDA text, part : IF text = <<>> THEN part ELSE text \o <<Mark(",")>> \o part, <<>>, parts)

\* The items of an array; undefined ones are null.
Items(a) == [i \in 1 .. heap[a].length |-> IF heap[a].cells[i] = Undefined THEN "null" ELSE heap[a].cells[i]]

\* The slots of an object that are written.
Defined(o) == SelectSeq([i \in 1 .. Len(heap[o].shape) |-> i], LAMBDA i : heap[o].cells[i] # Undefined)

Written_Once(value) ==
  LET text[v \in Value, visited \in SUBSET Container] ==
        LET part(w) == text[w, visited \cup {v}]
            member(i) == <<String(heap[v].shape[i]), Mark(":")>> \o text[heap[v].cells[i], visited \cup {v}]
        IN  IF v \in Leaf THEN LeafText(v)
            ELSE IF v \in visited THEN <<Scalar>>
            ELSE IF IsArray(v)
              THEN Enclose("[", Joined([i \in DOMAIN Items(v) |-> part(Items(v)[i])]), "]")
            ELSE Enclose("{", Joined([i \in DOMAIN Defined(v) |-> member(Defined(v)[i])]), "}")
  IN  text[value, {}]

(* serialize_val, from the value down: `visited` are the containers around *)
(* v.  After an error nothing more is written and the call returns -1.     *)
Written(value) ==
  LET text[v \in Value, visited \in SUBSET Container] ==
        LET part(w) == text[w, visited \cup {v}]
            member(i) == <<String(heap[v].shape[i]), Mark(":")>> \o text[heap[v].cells[i], visited \cup {v}]
        IN  IF v \in Leaf THEN LeafText(v)
            ELSE IF v \in visited THEN <<Error>>
            ELSE IF IsArray(v)
              THEN Enclose("[", Joined([i \in DOMAIN Items(v) |-> part(Items(v)[i])]), "]")
            ELSE Enclose("{", Joined([i \in DOMAIN Defined(v) |-> member(Defined(v)[i])]), "}")
  IN  text[value, {}]

Fails(text) == Error \in ToSet(text)

(* What jsonv_serialize leaves in a buffer of some size, a token for each  *)
(* character: write_char stops one before the end, size_t wraps around.    *)
Buffer(text, size) ==
  LET kept == SelectSeq([i \in 1 .. Len(text) |-> i], LAMBDA i : i - 1 < (size - 1) % SizeRange)
      end  == IF Len(text) < size THEN Len(text) ELSE size - 1
      all  == [i \in DOMAIN kept |-> text[kept[i]]]
  IN  IF size = 0 THEN all
      ELSE [i \in 1 .. (IF Len(all) > end THEN Len(all) ELSE end + 1) |->
              IF i = end + 1 THEN Mark("NUL") ELSE all[i]]

---------------------------------------------------------------------------
(* Properties.                                                             *)

Born == {c \in Container : heap[c] # NULL}

CellsOf(c) == IF IsArray(c) THEN 1 .. heap[c].length ELSE 1 .. Len(heap[c].shape)

References(v) == UNION {{<<c, i>> : i \in {i \in CellsOf(c) : heap[c].cells[i] = v}} : c \in Born}

(* Every container has its type, room for what it holds, nothing but       *)
(* undefined values behind that, and as many references as are counted.    *)
ValuesTypeOK ==
  /\ status \in {"running", "wrotePast"}
  /\ \A c \in Born :
       /\ heap[c].kind \in {"array", "object"}
       /\ heap[c].cells \in Seq(Known)
       /\ \A i \in CellsOf(c) : i \in DOMAIN heap[c].cells
       /\ \A i \in DOMAIN heap[c].cells \ CellsOf(c) : heap[c].cells[i] = Undefined
       /\ heap[c].refs = Cardinality(References(c))

ContentsOf(c) ==
  IF heap[c] = NULL THEN NULL
  ELSE IF IsArray(c) THEN [item |-> [i \in 1 .. heap[c].length |-> GetPath(c, <<Item(i - 1)>>)]]
  ELSE [property |-> [n \in Name |-> IF Slot(c, n) = 0 THEN NULL ELSE GetPath(c, <<Property(n)>>)]]

Plain == INSTANCE Containers WITH contents <- [c \in Container |-> ContentsOf(c)]

(* Whatever is set, in whatever order and however often the cells grow,    *)
(* every property and item reads back as it was last set.                  *)
RefinesContainers == Plain!ContentsSpec

HeldBy(c) == {heap[c].cells[i] : i \in CellsOf(c)} \cap Born

\* The containers to be found below c.
Below(c) ==
  LET below[k \in 1 .. Cardinality(Born)] ==
        IF k = 1 THEN HeldBy(c) ELSE LET above == below[k - 1] IN above \cup UNION {HeldBy(d) : d \in above}
  IN  below[Cardinality(Born)]

HasTree(c) ==
  \A d \in Below(c) \cup {c} :
    d \notin Below(d) /\ \A i \in CellsOf(d) : heap[d].cells[i] # "infinite"

\* The value a container stands for, with all that it holds.
Tree(c) ==
  LET tree[v \in Value] ==
        IF v = "string" THEN StringValue(Text)
        ELSE IF v \in Leaf THEN ScalarValue
        ELSE IF IsArray(v) THEN Array([i \in CellsOf(v) |-> tree[heap[v].cells[i]]])
        ELSE Object([n \in {n \in Name : GetPath(v, <<Property(n)>>) \notin {Unresolvable, Undefined}}
                       |-> tree[GetPath(v, <<Property(n)>>)]])
  IN  tree[c]

Texts == Json(MaxText)

NoValue == Mark("no value")

\* The part of a JSON value a path leads to.
Part(value, path) ==
  LET step(v, s) ==
        CASE s.by = "s" /\ "map" \in DOMAIN v -> IF s.name \in DOMAIN v.map THEN v.map[s.name] ELSE NoValue
          [] s.by = "i" /\ "items" \in DOMAIN v -> IF s.index + 1 \in DOMAIN v.items THEN v.items[s.index + 1] ELSE NoValue
          [] OTHER -> NoValue
  IN  FoldLeft(step, value, path)

Steps == {Property(n) : n \in Name} \cup {Item(i) : i \in Index}

(* A container is written unless it contains itself or a number JSON does  *)
(* not have, no matter how often it is shared; what is written is a JSON   *)
(* text, and the text of that value, without its undefined properties and  *)
(* with null for its undefined items; the buffer gets as much of it as     *)
(* fits before the null character, and nothing is written behind it; and   *)
(* paths lead to the parts of that value and to nothing else.              *)
TextReadsBack ==
  \A c \in Born :
    LET text == Written(c) IN
      /\ Fails(text) <=> ~HasTree(c)
      /\ HasTree(c) /\ Len(text) <= MaxText => [text |-> text, value |-> Tree(c)] \in Texts
      /\ HasTree(c) => \A size \in 1 .. Len(text) + 2 :
           LET length == IF Len(text) < size THEN Len(text) ELSE size - 1
           IN  Buffer(text, size) = Append(SubSeq(text, 1, length), Mark("NUL"))
      /\ HasTree(c) => \A path \in [1 .. 2 -> Steps] :
           LET found == GetPath(c, path)
               part  == Part(Tree(c), path) IN
             \/ part = NoValue /\ found \in {Undefined, Impossible, Unresolvable}
             \/ part # NoValue /\ Tree(found) = part
=============================================================================
