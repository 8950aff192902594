--------------------------------- MODULE Ast --------------------------------
(***************************************************************************)
(* The syntax tree both parsers build, in one array, with the set that     *)
(* finds duplicate keys (src/src/comm/struct/set.c) and the search tree    *)
(* that keeps the keys of every object in order                            *)
(* (src/src/parser/keytree.c); and the ways the library reads it, in       *)
(* src/src/parser/parser.c.                                                *)
(*                                                                         *)
(* Indices into the array and the key tree start at 1 and 0 is the -1 of   *)
(* the code.  The three integers of a scope are one record.  Stacks have   *)
(* their top at the end.                                                   *)
(***************************************************************************)
EXTENDS JsonGrammar, KeySet, Doubling, SequencesExt

CONSTANTS
  LongName,       \* names that with their prefix exceed MAX_KEY_LEN, or 65535 bytes:
  HugeName,       \* those
  MAX_OBJ_KEYS    \* the keys ast_to_value has room for

ASSUME AstAssumption == HugeName \subseteq LongName /\ LongName \subseteq Name /\ MAX_OBJ_KEYS \in Nat

VARIABLES
  scopes,     \* the open objects and arrays
  nodes,      \* the AST
  keys,       \* the set of scoped keys
  keyTree,    \* the pool of search tree nodes
  capacity    \* of the set and of the pool

astVars == <<scopes, nodes, keys, keyTree, capacity>>

(* set_next_power_of_two of 1.2 times what a prescan counted: one, doubled *)
(* as often as it takes.                                                   *)
set_next_power_of_two(size) == Doubled(1, size)

TableCapacity(estimate) == set_next_power_of_two((estimate * 12) \div 10)

AstInit(estimate) ==
  /\ scopes = <<>>
  /\ nodes = <<>>
  /\ keyTree = <<>>
  /\ capacity = TableCapacity(estimate)
  /\ keys = EmptyTable(capacity)

---------------------------------------------------------------------------
(* The key tree.                                                           *)

KeyName(i) == nodes[i].token.name

KeyNode(i) == [key |-> i, left |-> 0, right |-> 0]

\* Where a key with name n goes below one with name m; equal names go right.
Side(n, m) == IF n < m THEN "left" ELSE "right"

(* The node without a child on the way from r down to the place of n.      *)
Above(r, n) ==
  LET walk[i \in 1 .. Len(keyTree)] ==
        LET child == keyTree[i][Side(n, KeyName(keyTree[i].key))]
        IN  IF child = 0 THEN i ELSE walk[child]
  IN  walk[r]

TreeIsFull == Len(keyTree) >= capacity

(* key_tree_insert of node i with name n: the pool, and the root it        *)
(* returns, which is KEY_TREE_IS_FULL = -1 when there is no room.          *)
Inserted(r, i, n) ==
  IF TreeIsFull THEN keyTree
  ELSE IF r = 0 THEN Append(keyTree, KeyNode(i))
  ELSE LET above == Above(r, n)
           side  == Side(n, KeyName(keyTree[above].key))
       IN  Append([keyTree EXCEPT ![above][side] = Len(keyTree) + 1], KeyNode(i))

RootAfterInsert(r) ==
  IF TreeIsFull THEN 0 ELSE IF r = 0 THEN Len(keyTree) + 1 ELSE r

(* key_tree_get_ordered: the keys of an object in alphabetical order.      *)
Ordered(r) ==
  LET walk[i \in 0 .. Len(keyTree)] ==
        IF i = 0 THEN <<>>
        ELSE walk[keyTree[i].left] \o <<keyTree[i].key>> \o walk[keyTree[i].right]
  IN  walk[r]

---------------------------------------------------------------------------
(* Adding a node: stack_push and link_node_to_scope.                       *)

Node(type, token) ==
  [type |-> type, token |-> token, parent |-> 0, firstChild |-> 0, nextSibling |-> 0, keyTree |-> 0]

InObject == scopes # <<>> /\ nodes[Last(scopes).parent].token.type = "{"
IsKey    == InObject /\ Last(scopes).count % 2 = 0

ScopedKey(name) == <<Last(scopes).parent, name>>

(* set_insert finds a key only among those short enough to be there.       *)
IsDuplicate(name) ==
  IsKey /\ name \notin LongName /\ Answer(keys, capacity, ScopedKey(name)) = "ALREADY_EXIST"

ValueOfSkipped ==
  /\ InObject
  /\ ~IsKey
  /\ Last(scopes).tail # 0
  /\ nodes[Last(scopes).tail].type = "SKIPPED"

LinkedNodes_KeysOnly(type, token, inTree) ==
  LET new   == Len(nodes) + 1
      scope == Last(scopes)
      node  == [Node(type, token) EXCEPT
                 !.parent = IF scopes = <<>> THEN 0 ELSE scope.parent,
                 !.type = IF IsDuplicate(token.name) THEN "SKIPPED" ELSE @]
      linked == IF scopes = <<>> THEN nodes
                ELSE IF scope.tail = 0 THEN [nodes EXCEPT ![scope.parent].firstChild = new]
                ELSE [nodes EXCEPT ![scope.tail].nextSibling = new]
  IN  IF inTree
      THEN Append([linked EXCEPT ![scope.parent].keyTree = RootAfterInsert(@)], node)
      ELSE Append(linked, node)

LinkedNodes(type, token, inTree) ==
  LET new   == Len(nodes) + 1
      scope == Last(scopes)
      node  == [Node(type, token) EXCEPT
                 !.parent = IF scopes = <<>> THEN 0 ELSE scope.parent,
                 !.type = IF IsDuplicate(token.name) \/ ValueOfSkipped THEN "SKIPPED" ELSE @]
      linked == IF scopes = <<>> THEN nodes
                ELSE IF scope.tail = 0 THEN [nodes EXCEPT ![scope.parent].firstChild = new]
                ELSE [nodes EXCEPT ![scope.tail].nextSibling = new]
  IN  IF inTree
      THEN Append([linked EXCEPT ![scope.parent].keyTree = RootAfterInsert(@)], node)
      ELSE Append(linked, node)

(* A new node; the last conjunct of a caller says what becomes of scopes.  *)
(* A long key does not go into the set, and a key the parser leaves out,   *)
(* one of `unlisted`, not into the tree either.                            *)
LinkNode(type, token, unlisted) ==
  LET inTree == IsKey /\ ~IsDuplicate(token.name) /\ token.name \notin unlisted
  IN  /\ nodes' = LinkedNodes(type, token, inTree)
      /\ keys' = IF IsKey /\ token.name \notin LongName THEN TableWith(keys, capacity, ScopedKey(token.name)) ELSE keys
      /\ keyTree' = IF inTree THEN Inserted(nodes[Last(scopes).parent].keyTree, Len(nodes) + 1, token.name)
                    ELSE keyTree
      /\ UNCHANGED capacity

\* A scope with node i as its last child.
Enlarged(scope, i) == [scope EXCEPT !.tail = i, !.count = @ + 1]

\* The scopes once the new node is the last child of the innermost.
Linked == IF scopes = <<>> THEN scopes
          ELSE [scopes EXCEPT ![Len(scopes)] = Enlarged(Last(scopes), Len(nodes) + 1)]

\* The scope of the new node, an object or array without children.
NewScope == [parent |-> Len(nodes) + 1, tail |-> 0, count |-> 0]

---------------------------------------------------------------------------
(* Reading the AST.                                                        *)

\* The first in a chain of siblings that Test holds of, or 0.
FirstFrom(i, Test(_), Step(_)) ==
  LET walk[k \in 0 .. Len(nodes)] ==
        IF k = 0 THEN 0 ELSE IF Test(k) THEN k ELSE walk[Step(k)]
  IN  walk[i]

Sibling(i) == nodes[i].nextSibling

NextKey_Single(k) == Sibling(k)

\* From a key to the next key, past its value; 0 when there is none.
NextKey(k) == IF Sibling(k) = 0 THEN 0 ELSE Sibling(Sibling(k))

(* find_property: the value of name n in object o, 0 when it has none.     *)
FindProperty(o, n) ==
  LET found == FirstFrom(nodes[o].firstChild,
                 LAMBDA k : nodes[k].type # "SKIPPED" /\ KeyName(k) = n, NextKey)
  IN  IF found = 0 THEN 0 ELSE Sibling(found)

ValueOfLeaf(token) ==
  CASE token.type = "string" -> StringValue(token.name)
    [] token.type = "scalar" -> NumberValue(token.name)
    [] OTHER -> LiteralValue(token.type)

\* The items of an array whose first is given, and the pairs of an object with these keys.
ItemsOf(value, first) ==
  LET items[k \in 0 .. Len(nodes)] == IF k = 0 THEN <<>> ELSE <<value[k]>> \o items[Sibling(k)]
  IN  items[first]

MapOf(value, order) ==
  LET map[k \in 0 .. Len(order)] ==
        IF k = 0 THEN EmptyMap ELSE Overlaid(OneName(KeyName(order[k]), value[Sibling(order[k])]), map[k - 1])
  IN  map[Len(order)]

\* More keys than the array of the conversion has room for.
Overruns(o) == Len(Ordered(nodes[o].keyTree)) > MAX_OBJ_KEYS

\* What the conversion then makes: the array is on the stack, so anything.
Anything == [anything |-> TRUE]

(* ast_to_value: the pairs of an object are set in the order of its keys,  *)
(* so of two with one name the later one counts.                           *)
ToValue(root) ==
  LET value[i \in 1 .. Len(nodes)] ==
        CASE nodes[i].type = "OBJECT" ->
               IF Overruns(i) THEN Anything ELSE Object(MapOf(value, Ordered(nodes[i].keyTree)))
          [] nodes[i].type = "ARRAY" -> Array(ItemsOf(value, nodes[i].firstChild))
          [] OTHER -> ValueOfLeaf(nodes[i].token)
  IN  value[root]

(* recursive_path_builder, as the steps after the $: a property name or    *)
(* the number of an item.                                                  *)
PathOf(v) ==
  LET keyOf(o, i) == FirstFrom(nodes[o].firstChild,
                       LAMBDA k : nodes[k].type # "SKIPPED" /\ i \in {k, Sibling(k)}, NextKey)
      number(a, i) == Cardinality({k \in 1 .. i - 1 : nodes[k].parent = a})
      path[i \in 0 .. Len(nodes)] ==
        IF i = 0 \/ nodes[i].parent = 0 THEN <<>>
        ELSE LET p == nodes[i].parent
             IN  path[p] \o
                   CASE nodes[p].type = "OBJECT" /\ keyOf(p, i) # 0 -> <<KeyName(keyOf(p, i))>>
                     [] nodes[p].type = "ARRAY" -> <<number(p, i)>>
                     [] OTHER -> <<>>
  IN  path[v]

---------------------------------------------------------------------------
(* What a tree is made of.                                                 *)

Index == 0 .. Len(nodes)

Children(o) ==
  LET walk[k \in Index] == IF k = 0 THEN <<>> ELSE <<k>> \o walk[Sibling(k)]
  IN  walk[nodes[o].firstChild]

Objects    == {o \in 1 .. Len(nodes) : nodes[o].token.type = "{"}
KeysOf(o)  == {Children(o)[i] : i \in {i \in 1 .. Len(Children(o)) : i % 2 = 1}}
Skipped(i) == nodes[i].type = "SKIPPED"

(* Each open object or array has as many children as its scope counts,     *)
(* linked in order and ending in its tail, whatever opened and closed in   *)
(* between.                                                                *)
ScopesCount ==
  \A s \in 1 .. Len(scopes) :
    LET children == {i \in 1 .. Len(nodes) : nodes[i].parent = scopes[s].parent} IN
      /\ Cardinality(children) = scopes[s].count
      /\ scopes[s].tail = IF children = {} THEN 0
                          ELSE CHOOSE i \in children : \A j \in children : j <= i
      /\ \A i \in children :
           Sibling(i) = IF i = scopes[s].tail THEN 0
                     ELSE CHOOSE j \in children : j > i /\ \A k \in children : k > i => k >= j

(* Walking the tree of an object yields its keys that are not skipped,     *)
(* each once and in alphabetical order, but for those the parser leaves    *)
(* out: the tables, sized before the parse, never fill up and lose one.  A *)
(* key is skipped when its object had it before, unless it is too long for *)
(* the set; a value is skipped when its key is.                            *)
KeysOrdered ==
  \A o \in Objects :
    LET ordered == Ordered(nodes[o].keyTree) IN
      /\ \A k \in KeysOf(o) :
           /\ Skipped(k) <=> /\ KeyName(k) \notin LongName
                             /\ \E before \in KeysOf(o) : before < k /\ KeyName(before) = KeyName(k)
           /\ Sibling(k) # 0 => (Skipped(Sibling(k)) <=> Skipped(k))
      /\ ToSet(ordered) = {k \in KeysOf(o) : ~Skipped(k) /\ KeyName(k) \notin HugeName}
      /\ Len(ordered) = Cardinality(ToSet(ordered))
      /\ \A i \in 1 .. Len(ordered) - 1 :
           \/ KeyName(ordered[i]) < KeyName(ordered[i + 1])
           \/ KeyName(ordered[i]) = KeyName(ordered[i + 1]) /\ KeyName(ordered[i]) \in LongName

\* No object has a long name twice.
LongNamesOnce ==
  \A o \in Objects : \A j, k \in KeysOf(o) :
    KeyName(j) = KeyName(k) /\ KeyName(k) \in LongName => j = k

\* No object has more keys than the conversion has room for.
KeysFit == \A o \in Objects : ~Overruns(o)

\* What the conversion keeps everything of: it has room, and no key is left out.
Convertible ==
  /\ LongNamesOnce
  /\ KeysFit
  /\ \A o \in Objects : \A k \in KeysOf(o) : KeyName(k) \notin HugeName

\* The nodes that stand for a value, outside all skipped pairs.
ValueNodes ==
  LET seen[i \in Index] ==
        i = 0 \/ /\ ~Skipped(i)
                 /\ seen[nodes[i].parent]
                 /\ \A o \in Objects : i \notin KeysOf(o)
  IN  {i \in Index \ {0} : seen[i]}

(* The walk along the children finds every property of an object; its      *)
(* value has the same ones, all but those the parser leaves out.           *)
LookupsAgree(unlisted) ==
  \A o \in ValueNodes \cap Objects :
    LET map == ToValue(o).map IN
      /\ {k \in KeysOf(o) : FindProperty(o, KeyName(k)) # 0} = KeysOf(o)
      /\ DOMAIN map = {KeyName(k) : k \in KeysOf(o)} \ unlisted
      /\ \A n \in DOMAIN map : ToValue(FindProperty(o, n)) = map[n]

\* What a path leads to, 0 when to nothing.
Resolve(path) ==
  FoldLeft(LAMBDA i, step : IF nodes[i].type = "OBJECT" THEN FindProperty(i, step)
                            ELSE IF step < Len(Children(i)) THEN Children(i)[step + 1]
                            ELSE 0, 1, path)

PathsResolve == \A v \in ValueNodes : Resolve(PathOf(v)) = v

\* Every variable has its type, and links stay inside their arrays.
AstTypeOK(tokens) ==
  /\ scopes \in Seq([parent : Index \ {0}, tail : Index, count : Nat])
  /\ nodes \in Seq([type : {"OBJECT", "ARRAY", "LEAF", "SKIPPED"}, token : tokens,
                    parent : Index, firstChild : Index, nextSibling : Index,
                    keyTree : 0 .. Len(keyTree)])
  /\ capacity \in Nat \ {0}
  /\ DOMAIN keys = 0 .. capacity - 1
  /\ \A e \in DOMAIN keys : keys[e] = Free \/ keys[e][1] \in Index \ {0}
  /\ keyTree \in Seq([key : Index \ {0}, left : 0 .. Len(keyTree), right : 0 .. Len(keyTree)])
=============================================================================
