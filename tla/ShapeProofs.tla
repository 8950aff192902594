---------------------------- MODULE ShapeProofs -----------------------------
(***************************************************************************)
(* Proofs about module ShapeTree, for any number of threads, names and     *)
(* keys: the tree stays well formed, and the objects on it implement       *)
(* ObjectMaps.                                                             *)
(*                                                                         *)
(* What a lookup returns is a recursive function of the tree.  That there  *)
(* is such a function is RecursionExists; what holds of it is proved by a  *)
(* least counterexample, LeastNat.  The invariant is stated over rigid     *)
(* trees, so that the lemmas about a step speak of the tree before it and  *)
(* the tree after it alike.                                                *)
(***************************************************************************)
EXTENDS ShapeTree, RecursionLemmas

ShapeRecord ==
  [parent : Nat, key : Cell \cup {NULL}, slot : Int, count : Nat,
   transitions : Seq([key : Cell, next : Nat])]

\* Shapes linked towards a root, each with one key and one slot more.
IsTree(tree) ==
  /\ tree \in Seq(ShapeRecord)
  /\ \A s \in 1 .. Len(tree) :
       /\ tree[s].parent < s
       /\ tree[s].slot = tree[s].count - 1
       /\ tree[s].parent = 0 => tree[s].key = NULL /\ tree[s].count = 0
       /\ tree[s].parent # 0 => /\ tree[s].key \in Cell
                                /\ tree[s].count = tree[tree[s].parent].count + 1

---------------------------------------------------------------------------
(* Looking up a slot.                                                      *)

(* The fields of a shape have their types.                                 *)
LEMMA ShapeFields ==
  ASSUME NEW tree, IsTree(tree)
  PROVE  /\ Len(tree) \in Nat
         /\ \A s \in 1 .. Len(tree) :
              /\ tree[s] \in ShapeRecord
              /\ tree[s].parent \in 0 .. s - 1
              /\ tree[s].slot \in Int /\ tree[s].count \in Nat
              /\ tree[s].key \in Cell \cup {NULL}
              /\ tree[s].transitions \in Seq([key : Cell, next : Nat])
  <1>1. Len(tree) \in Nat /\ \A s \in 1 .. Len(tree) : tree[s] \in ShapeRecord
    BY DEF IsTree
  <1>2. ASSUME NEW s \in 1 .. Len(tree)
        PROVE  /\ tree[s].parent \in Nat /\ tree[s].slot \in Int /\ tree[s].count \in Nat
               /\ tree[s].key \in Cell \cup {NULL}
               /\ tree[s].transitions \in Seq([key : Cell, next : Nat])
    BY <1>1 DEF ShapeRecord
  <1>3. \A s \in 1 .. Len(tree) : tree[s].parent < s
    BY DEF IsTree
  <1>4. \A s \in 1 .. Len(tree) : tree[s].parent \in 0 .. s - 1
    BY <1>1, <1>2, <1>3
  <1> QED
    BY <1>1, <1>2, <1>4

(* A lookup in a tree is what its definition says it is.                   *)
LEMMA SlotsUnfold ==
  ASSUME NEW tree, IsTree(tree), NEW names, NEW n
  PROVE  /\ SlotsIn(tree, names, n) \in [0 .. Len(tree) -> Int]
         /\ SlotsIn(tree, names, n)[0] = -1
         /\ \A s \in 1 .. Len(tree) :
              SlotsIn(tree, names, n)[s] =
                IF tree[s].key = NULL THEN -1
                ELSE IF names[tree[s].key] = n THEN tree[s].slot
                ELSE SlotsIn(tree, names, n)[tree[s].parent]
  <1> DEFINE N == Len(tree)
             Is(f) == f = [i \in 0 .. N |->
                             IF i = 0 \/ tree[i].key = NULL THEN -1
                             ELSE IF names[tree[i].key] = n THEN tree[i].slot
                             ELSE f[tree[i].parent]]
             stop == {i \in 0 .. N : i = 0 \/ tree[i].key = NULL \/ names[tree[i].key] = n}
             up   == [i \in 1 .. N |-> tree[i].parent]
             val  == [i \in 0 .. N |-> IF i = 0 \/ tree[i].key = NULL THEN -1 ELSE tree[i].slot]
             same == [i \in 0 .. N |-> [x \in Int |-> x]]
  <1>1. /\ N \in Nat
        /\ \A s \in 1 .. N : tree[s] \in ShapeRecord /\ tree[s].parent \in 0 .. s - 1
    BY ShapeFields
  <1>2. /\ 0 \in stop
        /\ \A i \in 1 .. N : i \notin stop => up[i] \in 0 .. i - 1
        /\ \A i \in 0 .. N : i \in stop => val[i] \in Int
        /\ \A i \in 0 .. N : same[i] \in [Int -> Int]
    BY <1>1 DEF ShapeRecord
  <1>3. PICK f : Recursion(f, N, stop, val, up, same) /\ f \in [0 .. N -> Int]
    <2>1. /\ N \in Nat
          /\ 0 \in stop
          /\ \A i \in 1 .. N : i \notin stop => up[i] \in 0 .. i - 1
          /\ \A i \in 0 .. N : i \in stop => val[i] \in Int
          /\ \A i \in 0 .. N : same[i] \in [Int -> Int]
      BY <1>1, <1>2
    <2> HIDE DEF N, stop, up, val, same, Is
    <2> QED
      BY <2>1, RecursionExists
  <1>4. Is(f)
    <2>1. ASSUME NEW i \in 0 .. N
          PROVE  f[i] = IF i = 0 \/ tree[i].key = NULL THEN -1
                        ELSE IF names[tree[i].key] = n THEN tree[i].slot
                        ELSE f[tree[i].parent]
      <3>1. f[i] = IF i \in stop THEN val[i] ELSE same[i][f[up[i]]]
        <4> HIDE DEF N, stop, up, val, same
        <4> QED
          BY <1>3 DEF Recursion
      <3>2. CASE i \in stop
        BY <3>1, <3>2
      <3>3. CASE i \notin stop
        <4>1. i \in 1 .. N /\ up[i] = tree[i].parent /\ up[i] \in 0 .. N
          BY <1>1, <1>2, <3>3
        <4>2. f[up[i]] \in Int
          BY <4>1, <1>3
        <4> QED
          BY <3>1, <3>3, <4>1, <4>2
      <3> QED
        BY <3>2, <3>3
    <2>2. f = [i \in 0 .. N |-> f[i]]
      BY <1>3
    <2> HIDE DEF N
    <2> QED
      BY <2>1, <2>2
  <1>5. SlotsIn(tree, names, n) = CHOOSE g : Is(g)
    BY DEF SlotsIn
  <1>6. Is(CHOOSE g : Is(g))
    <2> HIDE DEF Is
    <2> QED
      BY <1>4
  <1> DEFINE slots == SlotsIn(tree, names, n)
  <1>7. Is(slots)
    BY <1>5, <1>6
  <1> HIDE DEF slots
  <1>8. \A i \in 0 .. N : slots[i] = IF i = 0 \/ tree[i].key = NULL THEN -1
                                     ELSE IF names[tree[i].key] = n THEN tree[i].slot
                                     ELSE slots[tree[i].parent]
    BY <1>7
  <1>9. \A i \in 0 .. N : slots[i] \in Int
    <2> DEFINE T == {i \in 0 .. N : slots[i] \notin Int}
    <2> SUFFICES ASSUME T # {} PROVE FALSE
      OBVIOUS
    <2>1. PICK s \in T : \A r \in T : s <= r
      <3>1. T \subseteq Nat
        OBVIOUS
      <3> HIDE DEF T
      <3> QED
        BY <3>1, LeastNat
    <2>2. s \in 1 .. N /\ slots[s] \notin Int
      BY <1>1, <1>8, <2>1
    <2>3. tree[s].parent \in 0 .. N /\ tree[s].parent < s
      BY <1>1, <2>2
    <2>4. slots[tree[s].parent] \in Int
      <3> DEFINE p == tree[s].parent
      <3>1. p \notin T
        <4>1. p < s /\ s \in Nat /\ p \in Int /\ \A r \in T : s <= r
          BY <2>1, <2>2, <2>3
        <4> HIDE DEF T, p
        <4> QED
          BY <4>1
      <3> QED
        BY <2>3, <3>1
    <2>5. tree[s].slot \in Int
      BY <2>2, ShapeFields
    <2>6. slots[s] = IF tree[s].key = NULL THEN -1
                     ELSE IF names[tree[s].key] = n THEN tree[s].slot
                     ELSE slots[tree[s].parent]
      BY <1>1, <1>8, <2>2
    <2> QED
      BY <2>2, <2>4, <2>5, <2>6
  <1>10. slots \in [0 .. N -> Int]
    <2>1. slots = [i \in 0 .. N |-> slots[i]]
      BY <1>7
    <2> QED
      BY <2>1, <1>9
  <1>11. slots[0] = -1 /\ \A s \in 1 .. N :
              slots[s] = IF tree[s].key = NULL THEN -1
                         ELSE IF names[tree[s].key] = n THEN tree[s].slot
                         ELSE slots[tree[s].parent]
    BY <1>8, <1>1
  <1> QED
    BY <1>10, <1>11 DEF slots

(* The slot found is -1 or one of the shape's own.                         *)
LEMMA SlotsBound ==
  ASSUME NEW tree, IsTree(tree), NEW names, NEW n
  PROVE  \A s \in 1 .. Len(tree) :
           SlotsIn(tree, names, n)[s] \in -1 .. tree[s].count - 1
  <1> DEFINE N == Len(tree)
             slots == SlotsIn(tree, names, n)
             T == {s \in 1 .. N : slots[s] \notin -1 .. tree[s].count - 1}
  <1> SUFFICES ASSUME T # {} PROVE FALSE
    OBVIOUS
  <1>1. PICK s \in T : \A r \in T : s <= r
    <2>1. T \subseteq Nat
      OBVIOUS
    <2> HIDE DEF T
    <2> QED
      BY <2>1, LeastNat
  <1>2. /\ s \in 1 .. N /\ s \in Nat
        /\ slots[s] \notin -1 .. tree[s].count - 1
    BY <1>1
  <1> DEFINE p == tree[s].parent
  <1>3. p \in 0 .. N /\ p < s /\ p \notin T
    <2>1. p \in 0 .. N /\ p < s
      BY <1>2, ShapeFields
    <2> HIDE DEF T, p
    <2> QED
      BY <1>1, <1>2, <2>1
  <1>4. slots[s] = IF tree[s].key = NULL THEN -1
                   ELSE IF names[tree[s].key] = n THEN tree[s].slot
                   ELSE slots[p]
    BY <1>2, SlotsUnfold
  <1>5. CASE tree[s].key = NULL \/ names[tree[s].key] = n
    BY <1>2, <1>4, <1>5, ShapeFields DEF IsTree
  <1>6. CASE tree[s].key # NULL /\ names[tree[s].key] # n
    <2>1. p # 0 /\ tree[s].count = tree[p].count + 1 /\ tree[p].count \in Nat
      <3>1. s \in 1 .. N /\ p \in 0 .. N
        BY <1>2, <1>3
      <3> HIDE DEF T, slots
      <3>2. p # 0 /\ tree[s].count = tree[p].count + 1
        BY <1>6, <3>1 DEF IsTree
      <3>3. p \in 1 .. N
        BY <3>1, <3>2
      <3> QED
        BY <3>2, <3>3, ShapeFields
    <2>2. slots[p] \in -1 .. tree[p].count - 1
      BY <1>3, <2>1
    <2> QED
      BY <1>2, <1>4, <1>6, <2>1, <2>2
  <1> QED
    BY <1>5, <1>6

(* Two names a shape has are in two slots.                                 *)
LEMMA SlotsDistinct ==
  ASSUME NEW tree, IsTree(tree), NEW names, NEW n, NEW m, n # m
  PROVE  \A s \in 1 .. Len(tree) :
           SlotsIn(tree, names, n)[s] = SlotsIn(tree, names, m)[s]
             => SlotsIn(tree, names, n)[s] = -1
  <1> DEFINE N == Len(tree)
             sn == SlotsIn(tree, names, n)
             sm == SlotsIn(tree, names, m)
             T  == {s \in 1 .. N : sn[s] = sm[s] /\ sn[s] # -1}
  <1> SUFFICES ASSUME T # {} PROVE FALSE
    OBVIOUS
  <1>1. PICK s \in T : \A r \in T : s <= r
    <2>1. T \subseteq Nat
      OBVIOUS
    <2> HIDE DEF T
    <2> QED
      BY <2>1, LeastNat
  <1>2. s \in 1 .. N /\ s \in Nat /\ sn[s] = sm[s] /\ sn[s] # -1
    BY <1>1
  <1> DEFINE p == tree[s].parent
  <1>3. p \in 0 .. N /\ p < s /\ p \notin T
    <2>1. p \in 0 .. N /\ p < s
      BY <1>2, ShapeFields
    <2> HIDE DEF T, p
    <2> QED
      BY <1>1, <1>2, <2>1
  <1>4. /\ sn[s] = IF tree[s].key = NULL THEN -1
                   ELSE IF names[tree[s].key] = n THEN tree[s].slot ELSE sn[p]
        /\ sm[s] = IF tree[s].key = NULL THEN -1
                   ELSE IF names[tree[s].key] = m THEN tree[s].slot ELSE sm[p]
    BY <1>2, SlotsUnfold
  <1>5. tree[s].key # NULL
    BY <1>2, <1>4
  <1>6. /\ p \in 1 .. N /\ tree[p].count \in Nat
        /\ tree[s].count = tree[p].count + 1
        /\ tree[s].slot = tree[p].count
    <2>1. s \in 1 .. N /\ p \in 0 .. N /\ tree[s].key # NULL
      BY <1>2, <1>3, <1>5
    <2> HIDE DEF T, sn, sm
    <2>2. p # 0
      BY ONLY <2>1, IsTree(tree) DEF IsTree
    <2>3. tree[s].count = tree[p].count + 1 /\ tree[s].slot = tree[s].count - 1
      BY <2>1, <2>2 DEF IsTree
    <2>4. p \in 1 .. N /\ tree[p].count \in Nat
      BY <2>1, <2>2, ShapeFields
    <2> QED
      BY <2>3, <2>4
  <1>7. sn[p] \in -1 .. tree[p].count - 1 /\ sm[p] \in -1 .. tree[p].count - 1
    BY <1>6, SlotsBound
  <1>8. sn[p] = sm[p] => sn[p] = -1
    BY <1>3, <1>6
  <1> HIDE DEF sn, sm, p
  <1> QED
    BY <1>2, <1>4, <1>5, <1>6, <1>7, <1>8

---------------------------------------------------------------------------
(* Looking up a key.                                                       *)

(* The key of a slot is what its definition says it is.                    *)
LEMMA KeysUnfold ==
  ASSUME NEW tree, IsTree(tree), NEW k \in Nat
  PROVE  \A s \in 1 .. Len(tree) :
           KeysIn(tree, k)[s] = IF tree[s].slot = k THEN tree[s].key ELSE KeysIn(tree, k)[tree[s].parent]
  <1> DEFINE N == Len(tree)
             S == Cell \cup {NULL}
             Is(f) == f = [i \in 0 .. N |->
                             IF i = 0 THEN NULL
                             ELSE IF tree[i].slot = k THEN tree[i].key
                             ELSE f[tree[i].parent]]
             stop == {i \in 0 .. N : i = 0 \/ tree[i].slot = k}
             up   == [i \in 1 .. N |-> tree[i].parent]
             val  == [i \in 0 .. N |-> IF i = 0 THEN NULL ELSE tree[i].key]
             same == [i \in 0 .. N |-> [x \in S |-> x]]
  <1>1. /\ N \in Nat
        /\ \A s \in 1 .. N : tree[s].key \in S /\ tree[s].parent \in 0 .. s - 1
    BY ShapeFields
  <1>2. /\ 0 \in stop
        /\ \A i \in 1 .. N : i \notin stop => up[i] \in 0 .. i - 1
        /\ \A i \in 0 .. N : i \in stop => val[i] \in S
        /\ \A i \in 0 .. N : same[i] \in [S -> S]
    BY <1>1
  <1>3. PICK f : Recursion(f, N, stop, val, up, same) /\ f \in [0 .. N -> S]
    <2> HIDE DEF N, S, stop, up, val, same, Is
    <2> QED
      BY <1>1, <1>2, RecursionExists
  <1>4. Is(f)
    <2>1. ASSUME NEW i \in 0 .. N
          PROVE  f[i] = IF i = 0 THEN NULL
                        ELSE IF tree[i].slot = k THEN tree[i].key
                        ELSE f[tree[i].parent]
      <3>1. f[i] = IF i \in stop THEN val[i] ELSE same[i][f[up[i]]]
        <4> HIDE DEF N, S, stop, up, val, same
        <4> QED
          BY <1>3 DEF Recursion
      <3>2. CASE i \in stop
        BY <3>1, <3>2
      <3>3. CASE i \notin stop
        <4>1. i \in 1 .. N /\ up[i] = tree[i].parent /\ up[i] \in 0 .. N
          BY <1>1, <1>2, <3>3
        <4>2. f[up[i]] \in S
          BY <4>1, <1>3
        <4> QED
          BY <3>1, <3>3, <4>1, <4>2
      <3> QED
        BY <3>2, <3>3
    <2>2. f = [i \in 0 .. N |-> f[i]]
      BY <1>3
    <2> HIDE DEF N, S
    <2> QED
      BY <2>1, <2>2
  <1>5. KeysIn(tree, k) = CHOOSE g : Is(g)
    BY DEF KeysIn
  <1>6. Is(CHOOSE g : Is(g))
    <2> HIDE DEF Is
    <2> QED
      BY <1>4
  <1> DEFINE keys == KeysIn(tree, k)
  <1>7. Is(keys)
    BY <1>5, <1>6
  <1> HIDE DEF keys
  <1>8. \A i \in 0 .. N : keys[i] = IF i = 0 THEN NULL
                                    ELSE IF tree[i].slot = k THEN tree[i].key
                                    ELSE keys[tree[i].parent]
    BY <1>7
  <1>9. \A s \in 1 .. N : keys[s] = IF tree[s].slot = k THEN tree[s].key ELSE keys[tree[s].parent]
    BY <1>1, <1>8
  <1> QED
    BY <1>9 DEF keys

(* The second tree has the shapes of the first at the same places, with    *)
(* the same names in their keys.                                           *)
Extends(tree, names, tree2, names2) ==
  /\ Len(tree) <= Len(tree2)
  /\ \A s \in 1 .. Len(tree) :
       /\ tree2[s].parent = tree[s].parent
       /\ tree2[s].slot = tree[s].slot
       /\ tree2[s].count = tree[s].count
       /\ tree2[s].key = tree[s].key
       /\ tree[s].key # NULL => names2[tree[s].key] = names[tree[s].key]

(* A lookup in a tree that was extended finds what it found before.        *)
LEMMA SlotsAgree ==
  ASSUME NEW tree, IsTree(tree), NEW names, NEW tree2, IsTree(tree2), NEW names2,
         Extends(tree, names, tree2, names2), NEW n
  PROVE  \A s \in 0 .. Len(tree) :
           SlotsIn(tree2, names2, n)[s] = SlotsIn(tree, names, n)[s]
  <1> DEFINE N == Len(tree)
             s1 == SlotsIn(tree, names, n)
             s2 == SlotsIn(tree2, names2, n)
             T  == {s \in 0 .. N : s2[s] # s1[s]}
  <1> SUFFICES ASSUME T # {} PROVE FALSE
    OBVIOUS
  <1>1. PICK s \in T : \A r \in T : s <= r
    <2>1. T \subseteq Nat
      OBVIOUS
    <2> HIDE DEF T
    <2> QED
      BY <2>1, LeastNat
  <1>2. s \in 1 .. N /\ s \in Nat /\ s2[s] # s1[s]
    <2>1. s1[0] = -1 /\ s2[0] = -1
      BY SlotsUnfold
    <2>2. N \in Nat
      BY ShapeFields
    <2> HIDE DEF s1, s2, N
    <2>3. s \in 0 .. N /\ s2[s] # s1[s]
      BY <1>1
    <2> QED
      BY <2>1, <2>2, <2>3
  <1> DEFINE p == tree[s].parent
  <1>3. p \in 0 .. N /\ p < s /\ p \notin T
    <2>1. p \in 0 .. N /\ p < s
      BY <1>2, ShapeFields
    <2> HIDE DEF T, p
    <2> QED
      BY <1>1, <1>2, <2>1
  <1>4. s2[p] = s1[p]
    BY <1>3
  <1>5. s \in 1 .. Len(tree2)
    BY <1>2, ShapeFields DEF Extends
  <1>6. s1[s] = IF tree[s].key = NULL THEN -1
                ELSE IF names[tree[s].key] = n THEN tree[s].slot ELSE s1[p]
    BY <1>2, SlotsUnfold
  <1>7. s2[s] = IF tree2[s].key = NULL THEN -1
                ELSE IF names2[tree2[s].key] = n THEN tree2[s].slot
                ELSE s2[tree2[s].parent]
    BY <1>5, SlotsUnfold
  <1> HIDE DEF s1, s2
  <1> QED
    BY <1>2, <1>4, <1>6, <1>7 DEF Extends

---------------------------------------------------------------------------
(* The tree grows.                                                         *)

\* A cell that its arena has handed out.
Written(key, us) == key[2] <= us[key[1]]

\* The keys of a tree are written, each name at most once on a path.
KeysOK(tree, names, us) ==
  \A s \in 1 .. Len(tree) :
    tree[s].parent # 0 =>
      /\ Written(tree[s].key, us)
      /\ SlotsIn(tree, names, names[tree[s].key])[tree[s].parent] = -1

\* A transition leads to the child with the name it is for.
LinksOK(tree, names, us) ==
  \A s \in 1 .. Len(tree) : \A i \in 1 .. Len(tree[s].transitions) :
    LET tr == tree[s].transitions[i] IN
      /\ tr.next \in 1 .. Len(tree)
      /\ tree[tr.next].parent = s
      /\ Written(tr.key, us)
      /\ names[tree[tr.next].key] = names[tr.key]

OnePerName(tree, names) ==
  \A s \in 1 .. Len(tree) : \A i, j \in 1 .. Len(tree[s].transitions) :
    names[tree[s].transitions[i].key] = names[tree[s].transitions[j].key] => i = j

TreeOK(tree, names, us) ==
  IsTree(tree) /\ KeysOK(tree, names, us) /\ LinksOK(tree, names, us) /\ OnePerName(tree, names)

(* Each slot of a shape has a key, which leads back to that slot.          *)
LEMMA KeysLeadBack ==
  ASSUME NEW tree, IsTree(tree), NEW names, NEW us, KeysOK(tree, names, us)
  PROVE  \A s \in 1 .. Len(tree) : \A k \in 0 .. tree[s].count - 1 :
           /\ KeysIn(tree, k)[s] \in Cell
           /\ SlotsIn(tree, names, names[KeysIn(tree, k)[s]])[s] = k
  <1> DEFINE N == Len(tree)
             Back(s, k) == /\ KeysIn(tree, k)[s] \in Cell
                           /\ SlotsIn(tree, names, names[KeysIn(tree, k)[s]])[s] = k
             T == {s \in 1 .. N : \E k \in 0 .. tree[s].count - 1 : ~Back(s, k)}
  <1> SUFFICES ASSUME T # {} PROVE FALSE
    OBVIOUS
  <1>1. PICK s \in T : \A r \in T : s <= r
    <2>1. T \subseteq Nat
      OBVIOUS
    <2> HIDE DEF T
    <2> QED
      BY <2>1, LeastNat
  <1>2. s \in 1 .. N /\ s \in Nat /\ \E k \in 0 .. tree[s].count - 1 : ~Back(s, k)
    BY <1>1
  <1>3. PICK k \in 0 .. tree[s].count - 1 : ~Back(s, k)
    BY <1>2
  <1> DEFINE p == tree[s].parent
  <1>4. p \in 0 .. N /\ p < s /\ p \notin T /\ tree[s].count \in Nat /\ tree[s].key \in Cell \cup {NULL}
    <2>1. p \in 0 .. N /\ p < s /\ tree[s].count \in Nat /\ tree[s].key \in Cell \cup {NULL}
      BY <1>2, ShapeFields
    <2> HIDE DEF T, p
    <2> QED
      BY <1>1, <1>2, <2>1
  <1> HIDE DEF T, Back
  <1>5. /\ k \in Nat /\ p \in 1 .. N /\ tree[s].key \in Cell /\ tree[s].slot = tree[s].count - 1
        /\ tree[s].count = tree[p].count + 1 /\ tree[p].count \in Nat
    <2>1. k \in Nat /\ tree[s].count # 0
      BY <1>3, <1>4
    <2>2. p # 0
      BY <1>2, <2>1 DEF IsTree
    <2>3. tree[s].key \in Cell /\ tree[s].slot = tree[s].count - 1 /\ tree[s].count = tree[p].count + 1
      BY <1>2, <2>2 DEF IsTree
    <2>4. p \in 1 .. N
      BY <1>4, <2>2
    <2>5. tree[p].count \in Nat
      BY <2>4, ShapeFields
    <2> QED
      BY <2>1, <2>3, <2>4, <2>5
  <1>6. tree[s].key # NULL
    BY <1>5, NullPointerAssumption
  <1>7. KeysIn(tree, k)[s] = IF tree[s].slot = k THEN tree[s].key ELSE KeysIn(tree, k)[p]
    BY <1>2, <1>5, KeysUnfold
  <1>8. \A n : SlotsIn(tree, names, n)[s] = IF names[tree[s].key] = n THEN tree[s].slot ELSE SlotsIn(tree, names, n)[p]
    BY <1>2, <1>6, SlotsUnfold
  <1>9. SlotsIn(tree, names, names[tree[s].key])[p] = -1
    <2>1. p # 0
      BY <1>5
    <2> QED
      BY <1>2, <2>1 DEF KeysOK
  <1>10. CASE tree[s].slot = k
    BY <1>3, <1>5, <1>7, <1>8, <1>10 DEF Back
  <1>11. CASE tree[s].slot # k
    <2>1. k \in 0 .. tree[p].count - 1
      BY <1>3, <1>5, <1>11
    <2>2. Back(p, k)
      BY <1>4, <1>5, <2>1 DEF T
    <2> DEFINE q == KeysIn(tree, k)[p]
    <2>3. q \in Cell /\ SlotsIn(tree, names, names[q])[p] = k /\ KeysIn(tree, k)[s] = q
      BY <1>7, <1>11, <2>2 DEF Back
    <2> HIDE DEF q
    <2>4. names[tree[s].key] # names[q]
      BY <1>5, <1>9, <2>3
    <2>5. SlotsIn(tree, names, names[q])[s] = k
      BY <1>8, <2>3, <2>4
    <2> QED
      BY <1>3, <2>3, <2>5 DEF Back
  <1> QED
    BY <1>10, <1>11

\* A shape that nothing leads on from yet.
NewShape(tree, p, key) ==
  LET count == IF p = 0 THEN 0 ELSE tree[p].count + 1 IN
    [parent |-> p, key |-> key, slot |-> count - 1, count |-> count, transitions |-> <<>>]

(* A new shape, below one that lacks its name or the root of a tree.       *)
LEMMA TreeGrows ==
  ASSUME NEW tree, NEW names, NEW us, TreeOK(tree, names, us),
         NEW p \in 0 .. Len(tree), NEW key,
         p = 0 => key = NULL,
         p # 0 => /\ key \in Cell /\ Written(key, us)
                  /\ SlotsIn(tree, names, names[key])[p] = -1
  PROVE  LET tree2 == Append(tree, NewShape(tree, p, key)) IN
           TreeOK(tree2, names, us) /\ Extends(tree, names, tree2, names)
  <1> DEFINE new   == NewShape(tree, p, key)
             tree2 == Append(tree, new)
             N     == Len(tree)
  <1>1. N \in Nat /\ IsTree(tree) /\ tree \in Seq(ShapeRecord)
    BY ShapeFields DEF TreeOK, IsTree
  <1>2. new \in ShapeRecord
    <2>1. p # 0 => tree[p].count \in Nat
      BY ShapeFields, <1>1
    <2> DEFINE count == IF p = 0 THEN 0 ELSE tree[p].count + 1
    <2>2. count \in Nat /\ count - 1 \in Int
      BY <2>1
    <2>3. p \in Nat /\ key \in Cell \cup {NULL}
      BY <1>1
    <2>4. <<>> \in Seq([key : Cell, next : Nat])
      OBVIOUS
    <2>5. new = [parent |-> p, key |-> key, slot |-> count - 1, count |-> count,
                 transitions |-> <<>>]
      BY DEF NewShape
    <2> HIDE DEF new, count
    <2> QED
      BY <2>2, <2>3, <2>4, <2>5 DEF ShapeRecord
  <1> HIDE DEF new
  <1>3. /\ tree2 \in Seq(ShapeRecord) /\ Len(tree2) = N + 1
        /\ \A s \in 1 .. N : tree2[s] = tree[s]
        /\ tree2[N + 1] = new
    BY <1>1, <1>2
  <1>4. /\ new.parent = p /\ new.key = key /\ new.transitions = <<>>
        /\ new.slot = new.count - 1
        /\ p = 0 => new.count = 0
        /\ p # 0 => new.count = tree[p].count + 1
    BY DEF new, NewShape
  <1> HIDE DEF tree2, N
  <1>5. \A s \in 1 .. N + 1 : s \in 1 .. N \/ s = N + 1
    BY <1>1
  <1>6. p # 0 => p \in 1 .. N
    BY <1>1 DEF N
  <1>7. IsTree(tree2)
    <2> SUFFICES ASSUME NEW s \in 1 .. N + 1
                 PROVE  /\ tree2[s].parent < s
                        /\ tree2[s].slot = tree2[s].count - 1
                        /\ tree2[s].parent = 0 => tree2[s].key = NULL /\ tree2[s].count = 0
                        /\ tree2[s].parent # 0 =>
                             /\ tree2[s].key \in Cell
                             /\ tree2[s].count = tree2[tree2[s].parent].count + 1
      BY <1>3 DEF IsTree
    <2>1. CASE s \in 1 .. N
      <3>1. tree2[s] = tree[s] /\ tree[s].parent \in 0 .. s - 1
        BY <1>1, <1>3, <2>1, ShapeFields DEF N
      <3>2. tree[s].parent # 0 => tree2[tree[s].parent] = tree[tree[s].parent]
        BY <1>1, <1>3, <2>1, <3>1
      <3> QED
        BY <1>1, <2>1, <3>1, <3>2 DEF IsTree, N
    <2>2. CASE s = N + 1
      <3>1. tree2[s] = new /\ p < s /\ (p # 0 => tree2[p] = tree[p])
        BY <1>1, <1>3, <1>6, <2>2 DEF N
      <3> QED
        BY <1>4, <3>1
    <2> QED
      BY <1>5, <2>1, <2>2
  <1>8. Extends(tree, names, tree2, names)
    BY <1>1, <1>3 DEF Extends, N
  <1>9. \A n : \A s \in 0 .. N : SlotsIn(tree2, names, n)[s] = SlotsIn(tree, names, n)[s]
    BY <1>1, <1>7, <1>8, SlotsAgree DEF N
  <1>10. ASSUME NEW s \in 1 .. N + 1, tree2[s].parent # 0
         PROVE  /\ Written(tree2[s].key, us)
                /\ SlotsIn(tree2, names, names[tree2[s].key])[tree2[s].parent] = -1
    <2>1. CASE s \in 1 .. N
      <3>1. tree2[s] = tree[s] /\ tree[s].parent \in 0 .. N
        BY <1>1, <1>3, <2>1, ShapeFields DEF N
      <3> QED
        BY <1>9, <1>10, <2>1, <3>1 DEF TreeOK, KeysOK, N
    <2>2. CASE s = N + 1
      BY <1>3, <1>4, <1>9, <1>10, <2>2 DEF N
    <2> QED
      BY <1>5, <2>1, <2>2
  <1>11. ASSUME NEW s \in 1 .. N + 1, NEW i \in 1 .. Len(tree2[s].transitions)
         PROVE  /\ s \in 1 .. N /\ tree2[s] = tree[s]
                /\ i \in 1 .. Len(tree[s].transitions)
    BY <1>3, <1>4, <1>5
  <1>12. ASSUME NEW s \in 1 .. N + 1, NEW i \in 1 .. Len(tree2[s].transitions)
         PROVE  LET tr == tree2[s].transitions[i] IN
                  /\ tr.next \in 1 .. N + 1
                  /\ tree2[tr.next].parent = s
                  /\ Written(tr.key, us)
                  /\ names[tree2[tr.next].key] = names[tr.key]
    <2> DEFINE tr == tree[s].transitions[i]
    <2>1. /\ tr.next \in 1 .. N /\ tree[tr.next].parent = s
          /\ Written(tr.key, us) /\ names[tree[tr.next].key] = names[tr.key]
      BY <1>11, <1>12 DEF TreeOK, LinksOK, N
    <2>2. tree2[tr.next] = tree[tr.next]
      BY <1>3, <2>1
    <2>3. tree2[s].transitions[i] = tr
      BY <1>11, <1>12
    <2> HIDE DEF tr
    <2> QED
      BY <1>1, <2>1, <2>2, <2>3
  <1>13. ASSUME NEW s \in 1 .. N + 1, NEW i \in 1 .. Len(tree2[s].transitions),
                NEW j \in 1 .. Len(tree2[s].transitions),
                names[tree2[s].transitions[i].key] = names[tree2[s].transitions[j].key]
         PROVE  i = j
    <2>1. /\ s \in 1 .. N /\ i \in 1 .. Len(tree[s].transitions) /\ j \in 1 .. Len(tree[s].transitions)
          /\ tree2[s] = tree[s]
      BY <1>11, <1>13
    <2>2. names[tree[s].transitions[i].key] = names[tree[s].transitions[j].key]
      BY <1>13, <2>1
    <2> QED
      BY <2>1, <2>2 DEF TreeOK, OnePerName, N
  <1>14. TreeOK(tree2, names, us)
    <2>1. Len(tree2) = N + 1
      BY <1>3
    <2>2. KeysOK(tree2, names, us)
      BY <2>1, <1>10 DEF KeysOK
    <2>3. LinksOK(tree2, names, us)
      BY <2>1, <1>12 DEF LinksOK
    <2>4. OnePerName(tree2, names)
      BY <2>1, <1>13 DEF OnePerName
    <2> QED
      BY <1>7, <2>2, <2>3, <2>4 DEF TreeOK
  <1> QED
    BY <1>8, <1>14 DEF tree2, new

(* A transition to a child, from a shape that had none for its name.       *)
LEMMA TreeLinks ==
  ASSUME NEW tree, NEW names, NEW us, TreeOK(tree, names, us),
         NEW p \in 1 .. Len(tree), NEW c \in 1 .. Len(tree), tree[c].parent = p,
         NEW key \in Cell, Written(key, us), names[tree[c].key] = names[key],
         \A i \in 1 .. Len(tree[p].transitions) :
           names[tree[p].transitions[i].key] # names[key]
  PROVE  LET tree2 == [tree EXCEPT ![p].transitions = <<[key |-> key, next |-> c]>> \o @] IN
           TreeOK(tree2, names, us) /\ Extends(tree, names, tree2, names)
  <1> DEFINE N     == Len(tree)
             tr    == [key |-> key, next |-> c]
             ts    == tree[p].transitions
             ts2   == <<tr>> \o ts
             tree2 == [tree EXCEPT ![p].transitions = <<[key |-> key, next |-> c]>> \o @]
  <1>1. /\ N \in Nat /\ IsTree(tree) /\ tree \in Seq(ShapeRecord)
        /\ \A s \in 1 .. N : tree[s] \in ShapeRecord
        /\ ts \in Seq([key : Cell, next : Nat])
    <2>1. IsTree(tree)
      BY DEF TreeOK
    <2> QED
      BY <2>1, ShapeFields DEF IsTree
  <1>2. /\ ts2 \in Seq([key : Cell, next : Nat])
        /\ Len(ts2) = Len(ts) + 1
        /\ ts2[1] = tr
        /\ \A i \in 1 .. Len(ts2) : i # 1 => i - 1 \in 1 .. Len(ts) /\ ts2[i] = ts[i - 1]
    <2>1. <<tr>> \in Seq([key : Cell, next : Nat]) /\ Len(<<tr>>) = 1 /\ <<tr>>[1] = tr
      BY <1>1
    <2> DEFINE one == <<tr>>
    <2> HIDE DEF one, ts, tr
    <2> QED
      BY <1>1, <2>1 DEF one
  <1>3. /\ DOMAIN tree2 = 1 .. N
        /\ \A s \in 1 .. N : s # p => tree2[s] = tree[s]
        /\ tree2[p] = [tree[p] EXCEPT !.transitions = ts2]
    <2>1. tree2 = [tree EXCEPT ![p] = [tree[p] EXCEPT !.transitions = ts2]]
      OBVIOUS
    <2>2. DOMAIN tree = 1 .. N
      BY <1>1
    <2> HIDE DEF tree2, ts2, N
    <2>3. p \in 1 .. N
      BY DEF N
    <2> QED
      BY <2>1, <2>2, <2>3
  <1>3a. /\ \A s \in 1 .. N : \A i \in 1 .. Len(tree[s].transitions) :
              /\ tree[s].transitions[i].next \in 1 .. N
              /\ tree[tree[s].transitions[i].next].parent = s
              /\ Written(tree[s].transitions[i].key, us)
              /\ names[tree[tree[s].transitions[i].next].key] = names[tree[s].transitions[i].key]
         /\ \A s \in 1 .. N : \A i, j \in 1 .. Len(tree[s].transitions) :
              names[tree[s].transitions[i].key] = names[tree[s].transitions[j].key] => i = j
    <2>1. LinksOK(tree, names, us) /\ OnePerName(tree, names)
      BY DEF TreeOK
    <2> HIDE DEF ts, tr
    <2> QED
      BY <2>1 DEF LinksOK, OnePerName
  <1> HIDE DEF tree2, ts2, ts
  <1>4. /\ \A s \in 1 .. N : /\ tree2[s] \in ShapeRecord
                             /\ tree2[s].parent = tree[s].parent
                             /\ tree2[s].key = tree[s].key
                             /\ tree2[s].slot = tree[s].slot
                             /\ tree2[s].count = tree[s].count
                             /\ s # p => tree2[s].transitions = tree[s].transitions
        /\ tree2[p].transitions = ts2
    <2>1. /\ tree2[p] \in ShapeRecord /\ tree2[p].transitions = ts2
          /\ tree2[p].parent = tree[p].parent /\ tree2[p].key = tree[p].key
          /\ tree2[p].slot = tree[p].slot /\ tree2[p].count = tree[p].count
      <3>1. tree[p] \in ShapeRecord
        BY <1>1
      <3> QED
        BY <3>1, <1>2, <1>3 DEF ShapeRecord
    <2> QED
      BY <1>1, <1>3, <2>1
  <1>5. tree2 \in Seq(ShapeRecord) /\ Len(tree2) = N
    <2>1. tree2 = [s \in 1 .. N |-> tree2[s]]
      BY <1>3 DEF tree2
    <2>2. tree2 \in [1 .. N -> ShapeRecord]
      BY <2>1, <1>4
    <2> QED
      BY <1>1, <2>2
  <1>6. IsTree(tree2)
    <2> SUFFICES ASSUME NEW s \in 1 .. N
                 PROVE  /\ tree2[s].parent < s
                        /\ tree2[s].slot = tree2[s].count - 1
                        /\ tree2[s].parent = 0 => tree2[s].key = NULL /\ tree2[s].count = 0
                        /\ tree2[s].parent # 0 =>
                             /\ tree2[s].key \in Cell
                             /\ tree2[s].count = tree2[tree2[s].parent].count + 1
      BY <1>5 DEF IsTree
    <2>1. tree[s].parent \in 0 .. s - 1 /\ (tree[s].parent # 0 => tree[s].parent \in 1 .. N)
      <3>1. tree[s].parent \in 0 .. s - 1
        BY <1>1, ShapeFields DEF N
      <3> QED
        BY <1>1, <3>1
    <2>2. tree[s].parent # 0 => tree2[tree[s].parent].count = tree[tree[s].parent].count
      BY <1>4, <2>1
    <2> QED
      BY <1>1, <1>4, <2>2 DEF IsTree, N
  <1>7. Extends(tree, names, tree2, names)
    BY <1>1, <1>4, <1>5 DEF Extends, N
  <1>8. \A n : \A s \in 0 .. N : SlotsIn(tree2, names, n)[s] = SlotsIn(tree, names, n)[s]
    BY <1>1, <1>6, <1>7, SlotsAgree DEF N
  <1>9. ASSUME NEW s \in 1 .. N, tree2[s].parent # 0
        PROVE  /\ Written(tree2[s].key, us)
               /\ SlotsIn(tree2, names, names[tree2[s].key])[tree2[s].parent] = -1
    <2>1. tree[s].parent \in 0 .. N
      BY <1>1, ShapeFields DEF N
    <2> QED
      <3>1. /\ Written(tree[s].key, us)
            /\ SlotsIn(tree, names, names[tree[s].key])[tree[s].parent] = -1
        BY <1>4, <1>9 DEF TreeOK, KeysOK, N
      <3>2. tree2[s].key = tree[s].key /\ tree2[s].parent = tree[s].parent
        BY <1>4
      <3>3. SlotsIn(tree2, names, names[tree[s].key])[tree[s].parent] = -1
        BY <1>8, <2>1, <3>1
      <3> QED
        BY <3>1, <3>2, <3>3
  <1>10. ASSUME NEW s \in 1 .. N, NEW i \in 1 .. Len(tree2[s].transitions)
         PROVE  \/ s = p /\ i = 1 /\ tree2[s].transitions[i] = tr
                \/ s = p /\ i # 1 /\ i - 1 \in 1 .. Len(ts) /\ tree2[s].transitions[i] = ts[i - 1]
                \/ /\ s # p /\ i \in 1 .. Len(tree[s].transitions)
                   /\ tree2[s].transitions[i] = tree[s].transitions[i]
    BY <1>2, <1>4
  <1>11. ASSUME NEW s \in 1 .. N, NEW i \in 1 .. Len(tree2[s].transitions)
         PROVE  LET t2 == tree2[s].transitions[i] IN
                  /\ t2.next \in 1 .. N
                  /\ tree2[t2.next].parent = s
                  /\ Written(t2.key, us)
                  /\ names[tree2[t2.next].key] = names[t2.key]
    <2> DEFINE t2 == tree2[s].transitions[i]
    <2>1. /\ t2.next \in 1 .. N /\ tree[t2.next].parent = s
          /\ Written(t2.key, us) /\ names[tree[t2.next].key] = names[t2.key]
      <3>1. CASE s = p /\ i = 1 /\ t2 = tr
        BY <3>1
      <3>2. CASE s = p /\ i # 1 /\ i - 1 \in 1 .. Len(ts) /\ t2 = ts[i - 1]
        <4>1. /\ t2.next \in 1 .. N /\ tree[t2.next].parent = p
              /\ Written(t2.key, us) /\ names[tree[t2.next].key] = names[t2.key]
          <5> HIDE DEF t2, N
          <5> QED
            BY <1>3a, <3>2 DEF ts
        <4> QED
          BY <3>2, <4>1
      <3>3. CASE /\ s # p /\ i \in 1 .. Len(tree[s].transitions)
                 /\ t2 = tree[s].transitions[i]
        <4> HIDE DEF t2, N
        <4> QED
          BY <1>3a, <3>3
      <3> QED
        BY <1>10, <1>11, <3>1, <3>2, <3>3
    <2> HIDE DEF t2
    <2>2. tree2[t2.next].parent = tree[t2.next].parent /\ tree2[t2.next].key = tree[t2.next].key
      BY <1>4, <2>1
    <2> QED
      BY <2>1, <2>2 DEF t2
  <1>12. ASSUME NEW s \in 1 .. N, NEW i \in 1 .. Len(tree2[s].transitions),
                NEW j \in 1 .. Len(tree2[s].transitions),
                names[tree2[s].transitions[i].key] = names[tree2[s].transitions[j].key]
         PROVE  i = j
    <2>1. CASE s # p
      <3>1. tree2[s].transitions = tree[s].transitions
        BY <1>4, <2>1
      <3>2. /\ i \in 1 .. Len(tree[s].transitions) /\ j \in 1 .. Len(tree[s].transitions)
            /\ names[tree[s].transitions[i].key] = names[tree[s].transitions[j].key]
        BY <1>12, <3>1
      <3> HIDE DEF N
      <3> QED
        BY <1>3a, <3>2
    <2>2. CASE s = p
      <3>1. \A k \in 1 .. Len(ts) : names[ts[k].key] # names[key]
        BY DEF ts
      <3>2. /\ i \in 1 .. Len(ts2) /\ j \in 1 .. Len(ts2)
            /\ names[ts2[i].key] = names[ts2[j].key]
        BY <1>4, <1>12, <2>2
      <3>3. tr.key = key
        OBVIOUS
      <3>4. CASE i = 1 \/ j = 1
        <4> HIDE DEF tr
        <4>1. \A k \in 1 .. Len(ts2) : k # 1 => names[ts2[k].key] # names[ts2[1].key]
          BY <1>2, <3>1, <3>3
        <4> QED
          BY <3>2, <3>4, <4>1
      <3>5. CASE i # 1 /\ j # 1
        <4>1. /\ i - 1 \in 1 .. Len(ts) /\ j - 1 \in 1 .. Len(ts)
              /\ names[ts[i - 1].key] = names[ts[j - 1].key]
          BY <1>2, <3>2, <3>5
        <4>2. i - 1 = j - 1
          <5>1. \A a, b \in 1 .. Len(ts) : names[ts[a].key] = names[ts[b].key] => a = b
            BY <1>3a DEF ts, N
          <5> QED
            BY <4>1, <5>1
        <4>3. i \in Nat /\ j \in Nat
          BY <1>2, <3>2
        <4> QED
          BY <4>2, <4>3
      <3> QED
        BY <3>4, <3>5
    <2> QED
      BY <2>1, <2>2
  <1>13. TreeOK(tree2, names, us)
    <2>1. KeysOK(tree2, names, us)
      BY <1>5, <1>9 DEF KeysOK
    <2>2. LinksOK(tree2, names, us)
      BY <1>5, <1>11 DEF LinksOK
    <2>3. OnePerName(tree2, names)
      BY <1>5, <1>12 DEF OnePerName
    <2> QED
      BY <1>6, <2>1, <2>2, <2>3 DEF TreeOK
  <1> QED
    BY <1>7, <1>13 DEF tree2

(* A cell is written that no key is in yet.                                *)
LEMMA TreeKeepsNames ==
  ASSUME NEW tree, NEW names, NEW us, TreeOK(tree, names, us),
         NEW names2, NEW us2,
         \A k \in Cell : Written(k, us) => Written(k, us2) /\ names2[k] = names[k]
  PROVE  TreeOK(tree, names2, us2) /\ Extends(tree, names, tree, names2)
  <1> DEFINE N == Len(tree)
  <1>1. IsTree(tree) /\ N \in Nat
    BY ShapeFields DEF TreeOK
  <1> HIDE DEF N
  <1>2. /\ \A s \in 1 .. N : tree[s].key # NULL =>
             /\ tree[s].parent # 0
             /\ tree[s].key \in Cell /\ Written(tree[s].key, us)
        /\ \A s \in 1 .. N : tree[s].parent # 0 => tree[s].key # NULL
    BY <1>1, NullPointerAssumption, ShapeFields DEF IsTree, TreeOK, KeysOK, N
  <1>3. Extends(tree, names, tree, names2)
    BY <1>1, <1>2 DEF Extends, N
  <1>4. \A n : \A s \in 0 .. N : SlotsIn(tree, names2, n)[s] = SlotsIn(tree, names, n)[s]
    BY <1>1, <1>3, SlotsAgree DEF N
  <1>5. ASSUME NEW s \in 1 .. N, tree[s].parent # 0
        PROVE  /\ Written(tree[s].key, us2)
               /\ SlotsIn(tree, names2, names2[tree[s].key])[tree[s].parent] = -1
    <2>1. tree[s].parent \in 0 .. N
      <3>1. tree[s].parent \in 0 .. s - 1
        BY <1>1, ShapeFields DEF N
      <3> QED
        BY <1>1, <3>1
    <2>2. /\ Written(tree[s].key, us) /\ tree[s].key \in Cell
          /\ SlotsIn(tree, names, names[tree[s].key])[tree[s].parent] = -1
      BY <1>2, <1>5 DEF TreeOK, KeysOK, N
    <2> QED
      BY <1>4, <2>1, <2>2
  <1>6. ASSUME NEW s \in 1 .. N, NEW i \in 1 .. Len(tree[s].transitions)
        PROVE  LET tr == tree[s].transitions[i] IN
                 /\ tr.next \in 1 .. N
                 /\ tree[tr.next].parent = s
                 /\ Written(tr.key, us2)
                 /\ names2[tree[tr.next].key] = names2[tr.key]
                 /\ names2[tr.key] = names[tr.key]
    <2> DEFINE tr == tree[s].transitions[i]
    <2>1. /\ tr.next \in 1 .. N /\ tree[tr.next].parent = s
          /\ Written(tr.key, us) /\ names[tree[tr.next].key] = names[tr.key]
      BY <1>6 DEF TreeOK, LinksOK, N
    <2>2. tr.key \in Cell
      <3> DEFINE ts == tree[s].transitions
                 Transition == [key : Cell, next : Nat]
      <3>1. ts \in Seq(Transition)
        BY <1>1, ShapeFields DEF N
      <3>2. i \in 1 .. Len(ts) /\ tr = ts[i]
        BY <1>6
      <3> HIDE DEF ts, tr
      <3>3. tr \in Transition
        <4> HIDE DEF Transition
        <4> QED
          BY <3>1, <3>2
      <3> QED
        BY <3>3
    <2> HIDE DEF tr
    <2>3. tree[tr.next].key \in Cell /\ Written(tree[tr.next].key, us)
      BY <1>1, <1>2, <2>1
    <2> QED
      BY <2>1, <2>2, <2>3 DEF tr
  <1>7. ASSUME NEW s \in 1 .. N, NEW i \in 1 .. Len(tree[s].transitions),
               NEW j \in 1 .. Len(tree[s].transitions),
               names2[tree[s].transitions[i].key] = names2[tree[s].transitions[j].key]
        PROVE  i = j
    <2>1. names[tree[s].transitions[i].key] = names[tree[s].transitions[j].key]
      BY <1>6, <1>7
    <2> QED
      BY <1>7, <2>1 DEF TreeOK, OnePerName, N
  <1> QED
    <2>1. KeysOK(tree, names2, us2)
      BY <1>5 DEF KeysOK, N
    <2>2. LinksOK(tree, names2, us2)
      BY <1>6 DEF LinksOK, N
    <2>3. OnePerName(tree, names2)
      BY <1>7 DEF OnePerName, N
    <2> QED
      BY <1>1, <1>3, <2>1, <2>2, <2>3 DEF TreeOK

---------------------------------------------------------------------------
(* Growing arrays.                                                         *)

(* An object that grows has room then, and what was there is still there.  *)
LEMMA RoomKeeps ==
  ASSUME NEW cells \in Seq(Value \cup {Undefined}), NEW needed \in Nat
  PROVE  /\ WithRoom(cells, needed) \in Seq(Value \cup {Undefined})
         /\ Len(WithRoom(cells, needed)) >= needed
         /\ Len(WithRoom(cells, needed)) >= Len(cells)
         /\ \A i \in 1 .. Len(cells) : WithRoom(cells, needed)[i] = cells[i]
  <1>1. CASE Len(cells) >= needed
    BY <1>1 DEF WithRoom
  <1>2. CASE Len(cells) < needed
    <2> DEFINE d == Doubled(FirstCapacity, needed)
               w == WithRoom(cells, needed)
    <2>1. d \in Nat /\ d >= needed
      BY CapacityAssumption, DoubledEnough
    <2> HIDE DEF d
    <2>2. w = [i \in 1 .. d |-> IF i <= Len(cells) THEN cells[i] ELSE Undefined]
      BY <1>2 DEF WithRoom, Grow, d
    <2>3. Undefined \in Value \cup {Undefined}
      OBVIOUS
    <2> HIDE DEF Undefined
    <2> HIDE DEF w
    <2>4. /\ w \in Seq(Value \cup {Undefined})
          /\ Len(w) >= needed
          /\ Len(w) >= Len(cells)
          /\ \A k \in 1 .. Len(cells) : w[k] = cells[k]
          /\ \A k \in Len(cells) + 1 .. Len(w) : w[k] = Undefined
      BY <1>2, <2>1, <2>2, <2>3, RoomMade
    <2> QED
      BY <2>4 DEF w
  <1> QED
    BY <1>1, <1>2

---------------------------------------------------------------------------
(* The invariant.                                                          *)

Call ==
  [step : {"idle", "lockRoot", "inRoot", "gotRoot", "lockSet", "inSet", "gotShape"},
   key : Cell \cup {NULL}, value : Value \cup {NULL}, shape : Nat]

\* An object has a slot for each key of its shape.
ObjectOK(tree, o) ==
  o # NULL => /\ o.shape \in 0 .. Len(tree)
              /\ o.shape # 0 => tree[o.shape].count <= Len(o.slots)

\* A thread that makes an object has none; one that adds a property to its
\* object has written a key the object lacks, and gets a child for it.
CallOK(tree, names, us, o, c) ==
  /\ c.step \in {"lockRoot", "inRoot", "gotRoot"} => o = NULL
  /\ c.step \in {"lockSet", "inSet", "gotShape"} =>
       /\ o # NULL
       /\ c.key \in Cell /\ Written(c.key, us)
       /\ names[c.key] \in Name /\ c.value \in Value
       /\ SlotsIn(tree, names, names[c.key])[o.shape] = -1
  /\ c.step = "gotShape" =>
       /\ o.shape # 0
       /\ c.shape \in 1 .. Len(tree)
       /\ tree[c.shape].parent = o.shape
       /\ names[tree[c.shape].key] = names[c.key]

Inv(tree, top, names, us, objects, calls) ==
  /\ TreeOK(tree, names, us)
  /\ top \in 0 .. Len(tree)
  /\ top # 0 => tree[top].parent = 0
  /\ names \in [Cell -> Name \cup {NULL}]
  /\ us \in [Thread -> Nat]
  /\ objects \in [Thread -> Object \cup {NULL}]
  /\ calls \in [Thread -> Call]
  /\ \A t \in Thread : /\ ObjectOK(tree, objects[t])
                       /\ CallOK(tree, names, us, objects[t], calls[t])

ShapeInv == Inv(shapes, root, content, used, obj, call)

\* A later tree, with the names of written keys unchanged.
Grows(tree, names, us, tree2, names2, us2) ==
  /\ Extends(tree, names, tree2, names2)
  /\ \A k \in Cell : Written(k, us) => Written(k, us2) /\ names2[k] = names[k]

(* Objects and calls a step does not touch are as right after it.          *)
LEMMA ThreadKept ==
  ASSUME NEW tree, IsTree(tree), NEW names, NEW us,
         NEW tree2, IsTree(tree2), NEW names2, NEW us2,
         Grows(tree, names, us, tree2, names2, us2),
         NEW o \in Object \cup {NULL}, NEW c \in Call,
         ObjectOK(tree, o), CallOK(tree, names, us, o, c)
  PROVE  ObjectOK(tree2, o) /\ CallOK(tree2, names2, us2, o, c)
  <1>1. /\ Len(tree) \in Nat /\ Len(tree2) \in Nat /\ Len(tree) <= Len(tree2)
        /\ \A s \in 1 .. Len(tree) : tree2[s].count = tree[s].count
                                   /\ tree2[s].parent = tree[s].parent
                                   /\ tree2[s].key = tree[s].key
        /\ \A k \in Cell : Written(k, us) => Written(k, us2) /\ names2[k] = names[k]
        /\ Extends(tree, names, tree2, names2)
    BY ShapeFields DEF Grows, Extends
  <1>2. \A n : \A s \in 0 .. Len(tree) : SlotsIn(tree2, names2, n)[s] = SlotsIn(tree, names, n)[s]
    <2>1. Extends(tree, names, tree2, names2)
      BY <1>1
    <2> TAKE n
    <2> QED
      BY <2>1, SlotsAgree
  <1>3. ObjectOK(tree2, o)
    BY <1>1 DEF ObjectOK
  <1>4. ASSUME c.step \in {"lockSet", "inSet", "gotShape"}
        PROVE  /\ o # NULL
               /\ c.key \in Cell /\ Written(c.key, us2)
               /\ names2[c.key] = names[c.key]
               /\ names2[c.key] \in Name /\ c.value \in Value
               /\ SlotsIn(tree2, names2, names2[c.key])[o.shape] = -1
    BY <1>1, <1>2, <1>4 DEF CallOK, ObjectOK
  <1>5. ASSUME c.step = "gotShape"
        PROVE  /\ o.shape # 0
               /\ c.shape \in 1 .. Len(tree2)
               /\ tree2[c.shape].parent = o.shape
               /\ names2[tree2[c.shape].key] = names2[c.key]
    <2>1. /\ c.shape \in 1 .. Len(tree) /\ tree[c.shape].parent = o.shape /\ o.shape # 0
          /\ names[tree[c.shape].key] = names[c.key]
          /\ names2[c.key] = names[c.key]
      BY <1>4, <1>5 DEF CallOK
    <2>2. names2[tree[c.shape].key] = names[tree[c.shape].key]
      BY <2>1, NullPointerAssumption DEF IsTree, Grows, Extends
    <2> QED
      BY <1>1, <2>1, <2>2
  <1> QED
    BY <1>3, <1>4, <1>5 DEF CallOK

(* A step of one thread keeps the invariant if it leaves a tree that grew  *)
(* from the one before and its own object and call as they should be.      *)
LEMMA StepOf ==
  ASSUME NEW tree, NEW top, NEW names, NEW us, NEW objects, NEW calls,
         Inv(tree, top, names, us, objects, calls),
         NEW tree2, NEW top2, NEW names2, NEW us2, NEW objects2, NEW calls2,
         TreeOK(tree2, names2, us2),
         Grows(tree, names, us, tree2, names2, us2),
         top2 \in 0 .. Len(tree2), top2 # 0 => tree2[top2].parent = 0,
         names2 \in [Cell -> Name \cup {NULL}], us2 \in [Thread -> Nat],
         objects2 \in [Thread -> Object \cup {NULL}], calls2 \in [Thread -> Call],
         NEW t \in Thread,
         \A r \in Thread : r # t => objects2[r] = objects[r] /\ calls2[r] = calls[r],
         ObjectOK(tree2, objects2[t]), CallOK(tree2, names2, us2, objects2[t], calls2[t])
  PROVE  Inv(tree2, top2, names2, us2, objects2, calls2)
  <1>1. ASSUME NEW r \in Thread, r # t
        PROVE  /\ ObjectOK(tree2, objects2[r])
               /\ CallOK(tree2, names2, us2, objects2[r], calls2[r])
    <2>1. /\ objects[r] \in Object \cup {NULL} /\ calls[r] \in Call
          /\ ObjectOK(tree, objects[r]) /\ CallOK(tree, names, us, objects[r], calls[r])
          /\ IsTree(tree) /\ IsTree(tree2)
      BY DEF Inv, TreeOK
    <2>2. /\ ObjectOK(tree2, objects[r])
          /\ CallOK(tree2, names2, us2, objects[r], calls[r])
      BY <2>1, ThreadKept
    <2> QED
      BY <1>1, <2>2
  <1> QED
    BY <1>1 DEF Inv

(* A tree that does not change grows.                                      *)
LEMMA GrowsNot ==
  ASSUME NEW tree, IsTree(tree), NEW names, NEW us
  PROVE  Grows(tree, names, us, tree, names, us)
  BY ShapeFields DEF Grows, Extends

(* The same for a step that leaves the tree and the keys alone.            *)
LEMMA QuietStepOf ==
  ASSUME ShapeInv, UNCHANGED <<shapes, root, content, used>>,
         obj' \in [Thread -> Object \cup {NULL}], call' \in [Thread -> Call],
         NEW t \in Thread,
         \A r \in Thread : r # t => obj'[r] = obj[r] /\ call'[r] = call[r],
         ObjectOK(shapes, obj'[t]), CallOK(shapes, content, used, obj'[t], call'[t])
  PROVE  ShapeInv'
  <1>1. Inv(shapes, root, content, used, obj, call)
    BY DEF ShapeInv
  <1>2. /\ TreeOK(shapes, content, used) /\ IsTree(shapes)
        /\ root \in 0 .. Len(shapes) /\ (root # 0 => shapes[root].parent = 0)
        /\ content \in [Cell -> Name \cup {NULL}] /\ used \in [Thread -> Nat]
    BY <1>1 DEF Inv, TreeOK
  <1>3. Grows(shapes, content, used, shapes, content, used)
    BY <1>2, GrowsNot
  <1>4. Inv(shapes, root, content, used, obj', call')
    BY <1>1, <1>2, <1>3, StepOf
  <1> QED
    BY <1>4 DEF ShapeInv

---------------------------------------------------------------------------
(* Each step keeps the invariant.                                          *)

(* The types of what a thread has, and what is known of it.                *)
LEMMA InvFacts ==
  ASSUME ShapeInv, NEW t \in Thread
  PROVE  /\ TreeOK(shapes, content, used) /\ IsTree(shapes) /\ Len(shapes) \in Nat
         /\ root \in 0 .. Len(shapes) /\ (root # 0 => shapes[root].parent = 0)
         /\ content \in [Cell -> Name \cup {NULL}] /\ used \in [Thread -> Nat]
         /\ obj \in [Thread -> Object \cup {NULL}] /\ call \in [Thread -> Call]
         /\ obj[t] \in Object \cup {NULL} /\ call[t] \in Call
         /\ ObjectOK(shapes, obj[t]) /\ CallOK(shapes, content, used, obj[t], call[t])
  BY ShapeFields DEF ShapeInv, Inv, TreeOK

(* Before its call and after it a thread promises nothing.                 *)
LEMMA IdleOK ==
  /\ IdleCall \in Call
  /\ \A tree, names, us, o : CallOK(tree, names, us, o, IdleCall)
  BY DEF IdleCall, Call, CallOK

(* A thread that begins to make an object has none.                        *)
LEMMA NewObjectStep ==
  ASSUME ShapeInv, NEW t \in Thread, NewObject(t)
  PROVE  ShapeInv'
  <1>1. /\ obj[t] = NULL /\ UNCHANGED <<shapes, root, content, used, obj>>
        /\ call' = [call EXCEPT ![t].step = "lockRoot"]
    BY DEF NewObject, Goto
  <1>2. call' \in [Thread -> Call] /\ call'[t].step = "lockRoot"
    <2>1. call[t] \in Call /\ call \in [Thread -> Call]
      BY InvFacts
    <2>2. [call[t] EXCEPT !.step = "lockRoot"] \in Call
      BY <2>1 DEF Call
    <2> QED
      BY <1>1, <2>1, <2>2
  <1>3. CallOK(shapes, content, used, obj'[t], call'[t])
    BY <1>1, <1>2 DEF CallOK
  <1> QED
    BY <1>1, <1>2, <1>3, InvFacts, QuietStepOf

(* A thread gets the mutex.                                                *)
LEMMA LockStep ==
  ASSUME ShapeInv, NEW t \in Thread, NEW from, NEW to, Lock(t, from, to),
         <<from, to>> \in {<<"lockRoot", "inRoot">>, <<"lockSet", "inSet">>}
  PROVE  ShapeInv'
  <1>1. /\ call[t].step = from /\ UNCHANGED <<shapes, root, content, used, obj>>
        /\ call' = [call EXCEPT ![t].step = to]
        /\ \/ from = "lockRoot" /\ to = "inRoot"
           \/ from = "lockSet" /\ to = "inSet"
    BY DEF Lock, Goto, At
  <1>2. call' \in [Thread -> Call] /\ call'[t] = [call[t] EXCEPT !.step = to]
    BY <1>1, InvFacts DEF Call
  <1>3. CallOK(shapes, content, used, obj'[t], call'[t])
    BY <1>1, <1>2, InvFacts DEF CallOK, Call
  <1> QED
    BY <1>1, <1>2, <1>3, InvFacts, QuietStepOf

(* A thread gives up its call, with or without the mutex.                  *)
LEMMA ReturnStep ==
  ASSUME ShapeInv, NEW t \in Thread, Return(t), UNCHANGED <<shapes, root, content, used, obj>>
  PROVE  ShapeInv'
  <1>1. call' \in [Thread -> Call] /\ call'[t] = IdleCall
    BY InvFacts, IdleOK DEF Return
  <1>2. \A r \in Thread : r # t => obj'[r] = obj[r] /\ call'[r] = call[r]
    BY InvFacts DEF Return
  <1> QED
    BY <1>1, <1>2, IdleOK, InvFacts, QuietStepOf

(* A call ends and the thread has no object any more.                      *)
LEMMA DropStep ==
  ASSUME ShapeInv, NEW t \in Thread, UNCHANGED <<shapes, root, content, used>>,
         obj' = [obj EXCEPT ![t] = NULL],
         Return(t) \/ (call[t].step = "idle" /\ call' = call)
  PROVE  ShapeInv'
  <1>1. /\ obj' \in [Thread -> Object \cup {NULL}] /\ obj'[t] = NULL
        /\ \A r \in Thread : r # t => obj'[r] = obj[r]
    BY InvFacts
  <1>2. /\ call' \in [Thread -> Call] /\ \A r \in Thread : r # t => call'[r] = call[r]
        /\ call'[t] = IdleCall \/ call'[t].step = "idle"
    BY InvFacts, IdleOK DEF Return
  <1>3. CallOK(shapes, content, used, obj'[t], call'[t])
    BY <1>2, IdleOK DEF CallOK
  <1>4. ObjectOK(shapes, obj'[t])
    BY <1>1 DEF ObjectOK
  <1> QED
    BY <1>1, <1>2, <1>3, <1>4, QuietStepOf

(* Inside the mutex the root is there, is made, or is not to be had.       *)
LEMMA RootSectionStep ==
  ASSUME ShapeInv, NEW t \in Thread, RootSection(t)
  PROVE  ShapeInv'
  <1>1. CASE UNCHANGED <<shapes, root>> /\ Goto(t, "gotRoot") /\ UNCHANGED <<content, used, obj>>
    <2>1. call' \in [Thread -> Call] /\ call'[t] = [call[t] EXCEPT !.step = "gotRoot"]
      BY <1>1, InvFacts DEF Goto, Call
    <2>2. call[t].step = "inRoot"
      BY DEF RootSection, At
    <2>3. CallOK(shapes, content, used, obj'[t], call'[t])
      BY <1>1, <2>1, <2>2, InvFacts DEF CallOK, Call
    <2>4. \A r \in Thread : r # t => obj'[r] = obj[r] /\ call'[r] = call[r]
      BY <1>1, InvFacts DEF Goto
    <2> QED
      BY <1>1, <2>1, <2>3, <2>4, InvFacts, QuietStepOf
  <1>2. CASE /\ shapes' = Append(shapes, RootShape) /\ root' = Len(shapes')
             /\ Goto(t, "gotRoot") /\ UNCHANGED <<content, used, obj>>
    <2> DEFINE tree2 == Append(shapes, NewShape(shapes, 0, NULL))
    <2>1. RootShape = NewShape(shapes, 0, NULL)
      BY DEF RootShape, NewShape
    <2>2. TreeOK(tree2, content, used) /\ Extends(shapes, content, tree2, content)
      BY InvFacts, TreeGrows
    <2>3. Grows(shapes, content, used, tree2, content, used)
      BY <2>2 DEF Grows
    <2>4. Len(tree2) \in Nat /\ Len(tree2) # 0 /\ tree2[Len(tree2)].parent = 0
      BY InvFacts DEF IsTree, NewShape
    <2>5. call' \in [Thread -> Call] /\ call'[t] = [call[t] EXCEPT !.step = "gotRoot"]
      BY <1>2, InvFacts DEF Goto, Call
    <2>6. call[t].step = "inRoot"
      BY DEF RootSection, At
    <2>7. CallOK(shapes, content, used, obj[t], call'[t])
      BY <2>5, <2>6, InvFacts DEF CallOK, Call
    <2>8. /\ ObjectOK(tree2, obj[t])
          /\ CallOK(tree2, content, used, obj[t], call'[t])
      <3>1. IsTree(tree2)
        BY <2>2 DEF TreeOK
      <3>2. call'[t] \in Call
        BY <2>5
      <3> HIDE DEF tree2
      <3> QED
        BY <2>3, <2>7, <3>1, <3>2, InvFacts, ThreadKept
    <2>9. \A r \in Thread : r # t => obj[r] = obj[r] /\ call'[r] = call[r]
      BY <1>2, InvFacts DEF Goto
    <2>10. Len(tree2) \in 0 .. Len(tree2)
      BY <2>4
    <2> HIDE DEF tree2
    <2>11. Inv(tree2, Len(tree2), content, used, obj, call')
      <3>1. Inv(shapes, root, content, used, obj, call)
        BY DEF ShapeInv
      <3> DEFINE top2 == Len(tree2)
                 calls2 == call'
      <3>2. /\ content \in [Cell -> Name \cup {NULL}] /\ used \in [Thread -> Nat]
            /\ obj \in [Thread -> Object \cup {NULL}] /\ calls2 \in [Thread -> Call]
            /\ \A r \in Thread : r # t => obj[r] = obj[r] /\ calls2[r] = call[r]
        BY <2>5, <2>9, InvFacts
      <3>3. /\ top2 \in 0 .. Len(tree2) /\ (top2 # 0 => tree2[top2].parent = 0)
            /\ ObjectOK(tree2, obj[t]) /\ CallOK(tree2, content, used, obj[t], calls2[t])
        BY <2>4, <2>8, <2>10
      <3> HIDE DEF top2, calls2
      <3>4. Inv(tree2, top2, content, used, obj, calls2)
        BY <2>2, <2>3, <3>1, <3>2, <3>3, StepOf, SMTT(30)
      <3> QED
        BY <3>4 DEF top2, calls2
    <2>12. shapes' = tree2 /\ root' = Len(tree2)
      BY <1>2, <2>1 DEF tree2
    <2> QED
      BY <1>2, <2>11, <2>12 DEF ShapeInv
  <1>3. CASE RaiseInLock(t)
    BY <1>3, InvFacts, ReturnStep DEF RaiseInLock, RootSection
  <1> QED
    BY <1>1, <1>2, <1>3 DEF RootSection

(* The new object has whatever root there is now, and no slot.             *)
LEMMA ReadRootStep ==
  ASSUME ShapeInv, NEW t \in Thread, ReadRoot(t)
  PROVE  ShapeInv'
  <1> DEFINE o == [shape |-> root, slots |-> <<>>]
  <1>1. /\ UNCHANGED <<shapes, root, content, used>>
        /\ obj' = [obj EXCEPT ![t] = o] /\ call' = [call EXCEPT ![t] = IdleCall]
    BY DEF ReadRoot, Return
  <1>2. o \in Object
    BY InvFacts DEF Object
  <1>3. ObjectOK(shapes, o)
    BY InvFacts DEF ObjectOK, IsTree
  <1> HIDE DEF o
  <1>4. /\ obj' \in [Thread -> Object \cup {NULL}] /\ obj'[t] = o
        /\ call' \in [Thread -> Call] /\ call'[t] = IdleCall
        /\ \A r \in Thread : r # t => obj'[r] = obj[r] /\ call'[r] = call[r]
    BY <1>1, <1>2, InvFacts, IdleOK
  <1> QED
    BY <1>1, <1>3, <1>4, IdleOK, QuietStepOf

(* The cell the next key of a thread goes to is one no key is in.          *)
LEMMA FreshKey ==
  ASSUME ShapeInv, NEW t \in Thread, used[t] < KeyCells[t],
         NEW n \in Name
  PROVE  LET key    == <<t, used[t] + 1>>
             names2 == [content EXCEPT ![key] = n]
             us2    == [used EXCEPT ![t] = @ + 1]
         IN  /\ key \in Cell /\ Written(key, us2) /\ names2[key] = n
             /\ names2 \in [Cell -> Name \cup {NULL}] /\ us2 \in [Thread -> Nat]
             /\ TreeOK(shapes, names2, us2)
             /\ Grows(shapes, content, used, shapes, names2, us2)
  <1> DEFINE key    == <<t, used[t] + 1>>
             names2 == [content EXCEPT ![key] = n]
             us2    == [used EXCEPT ![t] = @ + 1]
  <1>1. used[t] \in Nat /\ used \in [Thread -> Nat] /\ content \in [Cell -> Name \cup {NULL}]
    BY InvFacts
  <1>2. key \in Cell
    <2>1. used[t] + 1 \in 1 .. KeyCells[t]
      BY <1>1, KeyCellsAssumption
    <2> QED
      BY <2>1 DEF Cell
  <1>3. key[1] = t /\ key[2] = used[t] + 1 /\ us2[t] = used[t] + 1
    BY <1>1
  <1>4. names2[key] = n /\ names2 \in [Cell -> Name \cup {NULL}] /\ us2 \in [Thread -> Nat]
    BY <1>1, <1>2
  <1>5. Written(key, us2)
    BY <1>1, <1>3 DEF Written
  <1>6. ASSUME NEW k \in Cell, Written(k, used)
        PROVE  Written(k, us2) /\ names2[k] = content[k]
    <2>1. k[1] \in Thread /\ k[2] \in Nat
      BY <1>6, KeyCellsAssumption DEF Cell
    <2>2. used[k[1]] \in Nat /\ us2[k[1]] = IF k[1] = t THEN used[t] + 1 ELSE used[k[1]]
      BY <1>1, <2>1
    <2>3. k # key
      <3>1. k[2] <= used[k[1]]
        BY <1>6 DEF Written
      <3> HIDE DEF key
      <3> QED
        BY <1>1, <1>3, <2>1, <2>2, <3>1
    <2>4. Written(k, us2)
      BY <1>6, <2>1, <2>2 DEF Written
    <2>5. names2[k] = content[k]
      BY <1>1, <2>3
    <2> QED
      BY <2>4, <2>5
  <1> HIDE DEF key, names2, us2
  <1>7. TreeOK(shapes, names2, us2) /\ Extends(shapes, content, shapes, names2)
    BY <1>6, InvFacts, TreeKeepsNames
  <1> QED
    BY <1>2, <1>4, <1>5, <1>6, <1>7 DEF Grows, key, names2, us2

(* Overwriting a value leaves an array as long as it was.                  *)
LEMMA SlotWritten ==
  ASSUME NEW cells \in Seq(Value \cup {Undefined}), NEW i, NEW v \in Value
  PROVE  /\ [cells EXCEPT ![i] = v] \in Seq(Value \cup {Undefined})
         /\ Len([cells EXCEPT ![i] = v]) = Len(cells)
         /\ i \in 1 .. Len(cells) => [cells EXCEPT ![i] = v][i] = v
         /\ \A j \in 1 .. Len(cells) : j # i => [cells EXCEPT ![i] = v][j] = cells[j]
  <1> DEFINE N == Len(cells)
             V == Value \cup {Undefined}
             cells2 == [cells EXCEPT ![i] = v]
  <1>1. N \in Nat /\ cells \in [1 .. N -> V] /\ v \in V
    OBVIOUS
  <1> HIDE DEF N, V
  <1>2. cells2 \in [1 .. N -> V]
    BY <1>1
  <1>3. /\ i \in 1 .. N => cells2[i] = v
        /\ \A j \in 1 .. N : j # i => cells2[j] = cells[j]
    BY <1>1
  <1> HIDE DEF cells2
  <1>4. cells2 \in Seq(V) /\ Len(cells2) = N
    BY <1>1, <1>2
  <1> QED
    BY <1>3, <1>4 DEF N, V, cells2

(* A key is copied; what the object has is overwritten.                    *)
LEMMA SetPropertyStep ==
  ASSUME ShapeInv, NEW t \in Thread, NEW n \in Name, NEW v \in Value, SetProperty(t, n, v)
  PROVE  ShapeInv'
  <1> DEFINE key    == <<t, used[t] + 1>>
             names2 == [content EXCEPT ![key] = n]
             us2    == [used EXCEPT ![t] = @ + 1]
             slot   == SlotsIn(shapes, names2, n)[obj[t].shape]
             c      == [step |-> "lockSet", key |-> key, value |-> v, shape |-> 0]
  <1>1. /\ call[t].step = "idle" /\ obj[t] # NULL
        /\ used' = us2 /\ content' = names2 /\ UNCHANGED <<shapes, root>>
        /\ \/ slot = -1 /\ call' = [call EXCEPT ![t] = c] /\ obj' = obj
           \/ /\ slot # -1 /\ obj' = [obj EXCEPT ![t].slots[slot + 1] = v] /\ call' = call
    BY DEF SetProperty, At, LookupSlot
  <1>2. /\ key \in Cell /\ Written(key, us2) /\ names2[key] = n
        /\ names2 \in [Cell -> Name \cup {NULL}] /\ us2 \in [Thread -> Nat]
        /\ TreeOK(shapes, names2, us2)
        /\ Grows(shapes, content, used, shapes, names2, us2)
    <2>1. used[t] < KeyCells[t]
      BY DEF SetProperty
    <2> QED
      BY <2>1, FreshKey
  <1>3. c \in Call
    BY <1>2 DEF Call
  <1>4. /\ obj[t] \in Object /\ ObjectOK(shapes, obj[t])
    BY <1>1, InvFacts
  <1>5. ASSUME slot # -1
        PROVE  [obj[t] EXCEPT !.slots[slot + 1] = v] \in Object
    <2> HIDE DEF slot
    <2>1. obj[t].slots \in Seq(Value \cup {Undefined})
      BY <1>4 DEF Object
    <2>2. [obj[t].slots EXCEPT ![slot + 1] = v] \in Seq(Value \cup {Undefined})
      BY <2>1, SlotWritten
    <2> QED
      BY <1>4, <2>2 DEF Object
  <1>6. /\ obj' \in [Thread -> Object \cup {NULL}] /\ call' \in [Thread -> Call]
        /\ \A r \in Thread : r # t => obj'[r] = obj[r] /\ call'[r] = call[r]
        /\ \/ slot = -1 /\ obj'[t] = obj[t] /\ call'[t] = c
           \/ obj'[t] = [obj[t] EXCEPT !.slots[slot + 1] = v] /\ call'[t] = call[t]
    <2> HIDE DEF c, slot
    <2> QED
      BY <1>1, <1>3, <1>5, InvFacts
  <1>7. ObjectOK(shapes, obj'[t])
    <2>1. CASE obj'[t] = obj[t]
      BY <1>4, <2>1
    <2>2. CASE obj'[t] = [obj[t] EXCEPT !.slots[slot + 1] = v]
      <3>1. obj'[t].shape = obj[t].shape /\ Len(obj'[t].slots) = Len(obj[t].slots)
        <4> HIDE DEF slot
        <4> QED
          BY <1>4, <2>2 DEF Object
      <3> QED
        BY <1>1, <1>4, <3>1 DEF ObjectOK
    <2> QED
      BY <1>6, <2>1, <2>2
  <1>8. CallOK(shapes, names2, us2, obj'[t], call'[t])
    <2>1. CASE slot = -1 /\ obj'[t] = obj[t] /\ call'[t] = c
      BY <1>1, <1>2, <2>1 DEF CallOK
    <2>2. CASE call'[t] = call[t]
      BY <1>1, <2>2 DEF CallOK
    <2> QED
      BY <1>6, <2>1, <2>2
  <1> HIDE DEF names2, us2, key, slot, c
  <1>9. Inv(shapes, root, names2, us2, obj', call')
    <2> DEFINE objects2 == obj'
               calls2   == call'
    <2>1. /\ Inv(shapes, root, content, used, obj, call)
          /\ root \in 0 .. Len(shapes) /\ (root # 0 => shapes[root].parent = 0)
      BY InvFacts DEF ShapeInv
    <2>2. /\ objects2 \in [Thread -> Object \cup {NULL}] /\ calls2 \in [Thread -> Call]
          /\ \A r \in Thread : r # t => objects2[r] = obj[r] /\ calls2[r] = call[r]
          /\ ObjectOK(shapes, objects2[t]) /\ CallOK(shapes, names2, us2, objects2[t], calls2[t])
      BY <1>6, <1>7, <1>8
    <2> HIDE DEF objects2, calls2
    <2>3. Inv(shapes, root, names2, us2, objects2, calls2)
      BY <1>2, <2>1, <2>2, StepOf
    <2> QED
      BY <2>3 DEF objects2, calls2
  <1> QED
    BY <1>1, <1>9 DEF ShapeInv

(* Which shape a thread gets inside the mutex: the one that is there for   *)
(* the name of its key, or a new child.                                    *)
LEMMA TransitionTree ==
  ASSUME ShapeInv, NEW t \in Thread, TransitionAdd(t), call'[t].step = "gotShape"
  PROVE  LET s == obj[t].shape
             c == call'[t].shape
             k == call[t].key
         IN  /\ s \in 1 .. Len(shapes) /\ c \in 1 .. Len(shapes')
             /\ TreeOK(shapes', content, used)
             /\ Grows(shapes, content, used, shapes', content, used)
             /\ shapes'[c].parent = s /\ content[shapes'[c].key] = content[k]
             /\ call' = [call EXCEPT ![t].step = "gotShape", ![t].shape = c]
             /\ UNCHANGED <<root, content, used, obj>>
  <1> DEFINE s     == obj[t].shape
             k     == call[t].key
             child == Len(shapes) + 1
             tree  == Append(shapes, ChildOf(s, k))
  <1>1. /\ call[t].step = "inSet" /\ call[t] \in Call /\ call \in [Thread -> Call]
        /\ obj[t] \in Object
        /\ k \in Cell /\ Written(k, used) /\ SlotsIn(shapes, content, content[k])[s] = -1
        /\ TreeOK(shapes, content, used) /\ IsTree(shapes) /\ Len(shapes) \in Nat
        /\ s \in 0 .. Len(shapes)
    BY InvFacts DEF TransitionAdd, At, CallOK, ObjectOK
  <1>2. call'[t].step # call[t].step
    BY <1>1
  <1>3. \/ /\ s # 0 /\ Follow(s, content[k]) # 0
           /\ Added(t, Follow(s, content[k])) /\ UNCHANGED shapes
        \/ s # 0 /\ Follow(s, content[k]) = 0 /\ MakeChild(t, s, k)
    <2>1. ~ Return(t)
      BY <1>1 DEF Return, IdleCall
    <2> QED
      BY <1>2, <2>1 DEF TransitionAdd, Crash, NotAdded, RaiseInLock
  <1>4. s \in 1 .. Len(shapes)
    BY <1>1, <1>3
  <1>5. \A c : Added(t, c) => /\ call'[t].shape = c /\ UNCHANGED <<root, content, used, obj>>
                             /\ call' = [call EXCEPT ![t].step = "gotShape", ![t].shape = c]
    BY <1>1 DEF Added, Call
  <1> DEFINE ts      == shapes[s].transitions
             matches == {i \in 1 .. Len(ts) : content[ts[i].key] = content[k]}
  <1>6. \A i \in 1 .. Len(ts) : /\ ts[i].next \in 1 .. Len(shapes)
                                /\ shapes[ts[i].next].parent = s
                                /\ content[shapes[ts[i].next].key] = content[ts[i].key]
    <2>1. \A i \in 1 .. Len(shapes[s].transitions) :
            /\ shapes[s].transitions[i].next \in 1 .. Len(shapes)
            /\ shapes[shapes[s].transitions[i].next].parent = s
            /\ content[shapes[shapes[s].transitions[i].next].key] = content[shapes[s].transitions[i].key]
      <3> HIDE DEF s
      <3> QED
        BY <1>1, <1>4 DEF TreeOK, LinksOK
    <2> QED
      BY <2>1
  <1>7. Follow(s, content[k]) = IF matches = {} THEN 0 ELSE ts[Min(matches)].next
    BY DEF Follow
  <1>8. matches # {} => Min(matches) \in matches
    <2>1. matches \subseteq Nat
      OBVIOUS
    <2> DEFINE Least(i) == i \in matches /\ \A j \in matches : i <= j
    <2>2. Min(matches) = CHOOSE i \in matches : \A j \in matches : i <= j
      BY DEF Min
    <2> HIDE DEF matches
    <2>3. matches # {} => \E i \in matches : \A j \in matches : i <= j
      BY <2>1, LeastNat
    <2> QED
      BY <2>2, <2>3
  <1>9. CASE /\ Follow(s, content[k]) # 0
             /\ Added(t, Follow(s, content[k])) /\ UNCHANGED shapes
    <2>1. /\ Follow(s, content[k]) \in 1 .. Len(shapes)
          /\ shapes[Follow(s, content[k])].parent = s
          /\ content[shapes[Follow(s, content[k])].key] = content[k]
      BY <1>6, <1>7, <1>8, <1>9
    <2>2. Grows(shapes, content, used, shapes, content, used)
      BY <1>1, GrowsNot
    <2>3. call'[t].shape = Follow(s, content[k])
      BY <1>5, <1>9
    <2>4. TreeOK(shapes', content, used) /\ Grows(shapes, content, used, shapes', content, used)
      BY <1>1, <1>9, <2>2
    <2> QED
      BY <1>4, <1>5, <1>9, <2>1, <2>3, <2>4
  <1>10. CASE Follow(s, content[k]) = 0 /\ MakeChild(t, s, k)
    <2>1. matches = {}
      <3> DEFINE i == Min(matches)
      <3> SUFFICES ASSUME matches # {} PROVE FALSE
        OBVIOUS
      <3>1. i \in 1 .. Len(ts) /\ ts[i].next = 0
        BY <1>7, <1>8, <1>10
      <3> HIDE DEF i, ts
      <3> QED
        BY <1>6, <3>1
    <2>2. ChildOf(s, k) = NewShape(shapes, s, k)
      <3>1. shapes[s].count \in Nat
        BY <1>1, <1>4, ShapeFields
      <3> QED
        BY <1>4, <3>1 DEF ChildOf, NewShape
    <2>3. TreeOK(tree, content, used) /\ Extends(shapes, content, tree, content)
      BY <1>1, <1>4, <2>2, TreeGrows
    <2>4. /\ tree[child].parent = s /\ tree[child].key = k
          /\ Len(tree) = child /\ child \in 1 .. Len(tree)
          /\ s \in 1 .. Len(tree) /\ tree[s] = shapes[s]
      BY <1>1, <1>4 DEF IsTree, ChildOf
    <2> DEFINE tree2 == Linked(tree, s, k, child)
    <2>5. TreeOK(tree2, content, used) /\ Extends(tree, content, tree2, content)
      <3>1. \A i \in 1 .. Len(tree[s].transitions) :
              content[tree[s].transitions[i].key] # content[k]
        BY <2>1, <2>4
      <3> HIDE DEF tree, child
      <3> QED
        BY <1>1, <2>3, <2>4, <3>1, TreeLinks DEF Linked
    <2>6. shapes' \in {tree, tree2} /\ Added(t, child)
      BY <1>10 DEF MakeChild
    <2> HIDE DEF tree, tree2, child
    <2>7. /\ TreeOK(shapes', content, used) /\ Extends(shapes, content, shapes', content)
          /\ child \in 1 .. Len(shapes')
          /\ shapes'[child].parent = s /\ shapes'[child].key = k
      <3>1. CASE shapes' = tree
        BY <2>3, <2>4, <3>1
      <3>2. CASE shapes' = tree2
        <4>1. /\ Len(tree) <= Len(tree2) /\ Len(tree2) \in Nat /\ Len(tree) \in Nat
              /\ tree2[child].parent = s /\ tree2[child].key = k
              /\ \A i \in 1 .. Len(tree) : /\ tree2[i].parent = tree[i].parent
                                           /\ tree2[i].slot = tree[i].slot
                                           /\ tree2[i].count = tree[i].count
                                           /\ tree2[i].key = tree[i].key
          BY <2>3, <2>4, <2>5, ShapeFields DEF Extends, TreeOK
        <4>2. Extends(shapes, content, tree2, content)
          BY <1>1, <2>3, <4>1 DEF Extends
        <4> QED
          BY <2>4, <2>5, <3>2, <4>1, <4>2
      <3> QED
        BY <2>6, <3>1, <3>2
    <2>8. Grows(shapes, content, used, shapes', content, used)
      BY <2>7 DEF Grows
    <2> QED
      BY <1>4, <1>5, <2>6, <2>7, <2>8
  <1> QED
    BY <1>3, <1>9, <1>10

(* The process ends where it is.                                           *)
LEMMA CrashStep ==
  ASSUME ShapeInv, NEW how, Crash(how)
  PROVE  ShapeInv'
  BY DEF Crash, ShapeInv

(* A transition is followed or made, or there is no memory for it.         *)
LEMMA TransitionAddStep ==
  ASSUME ShapeInv, NEW t \in Thread, TransitionAdd(t)
  PROVE  ShapeInv'
  <1>1. CASE call'[t].step = "gotShape"
    <2> DEFINE s == obj[t].shape
               k == call[t].key
               c == call'[t].shape
               tree2  == shapes'
               calls2 == call'
    <2>1. /\ s \in 1 .. Len(shapes) /\ c \in 1 .. Len(tree2)
          /\ TreeOK(tree2, content, used)
          /\ Grows(shapes, content, used, tree2, content, used)
          /\ tree2[c].parent = s /\ content[tree2[c].key] = content[k]
          /\ calls2 = [call EXCEPT ![t].step = "gotShape", ![t].shape = c]
          /\ UNCHANGED <<root, content, used, obj>>
      BY <1>1, TransitionTree
    <2>2. /\ Inv(shapes, root, content, used, obj, call)
          /\ call \in [Thread -> Call] /\ obj[t] \in Object \cup {NULL}
          /\ root \in 0 .. Len(shapes) /\ (root # 0 => shapes[root].parent = 0)
          /\ obj \in [Thread -> Object \cup {NULL}]
          /\ content \in [Cell -> Name \cup {NULL}] /\ used \in [Thread -> Nat]
          /\ IsTree(shapes) /\ Len(shapes) \in Nat
          /\ ObjectOK(shapes, obj[t]) /\ CallOK(shapes, content, used, obj[t], call[t])
      BY InvFacts DEF ShapeInv
    <2>3. call[t].step = "inSet" /\ call[t] \in Call
      BY <2>2 DEF TransitionAdd, At
    <2> HIDE DEF c, tree2, calls2
    <2>4. Len(tree2) \in Nat /\ IsTree(tree2) /\ Len(shapes) <= Len(tree2)
      BY <2>1, ShapeFields DEF TreeOK, Grows, Extends
    <2>5. root \in 0 .. Len(tree2) /\ (root # 0 => tree2[root].parent = 0)
      BY <2>1, <2>2, <2>4 DEF Grows, Extends
    <2>6. /\ calls2 \in [Thread -> Call]
          /\ calls2[t] = [call[t] EXCEPT !.step = "gotShape", !.shape = c]
          /\ \A r \in Thread : r # t => obj[r] = obj[r] /\ calls2[r] = call[r]
      <3> DEFINE new == [call[t] EXCEPT !.step = "gotShape", !.shape = c]
      <3>1. calls2 = [call EXCEPT ![t] = new]
        BY <2>1, <2>2
      <3>2. c \in Nat
        BY <2>1, <2>4
      <3>3. new \in Call
        BY <2>3, <3>2 DEF Call
      <3> HIDE DEF new
      <3>4. /\ calls2 \in [Thread -> Call] /\ calls2[t] = new
            /\ \A r \in Thread : r # t => calls2[r] = call[r]
        BY <2>2, <3>1, <3>3
      <3> QED
        BY <3>4 DEF new
    <2>7. ObjectOK(tree2, obj[t]) /\ CallOK(tree2, content, used, obj[t], call[t])
      BY <2>1, <2>2, <2>3, <2>4, ThreadKept
    <2>8. CallOK(tree2, content, used, obj[t], calls2[t])
      BY <2>1, <2>3, <2>6, <2>7 DEF CallOK, Call
    <2>9. Inv(tree2, root, content, used, obj, calls2)
      <3>1. /\ Inv(shapes, root, content, used, obj, call)
            /\ TreeOK(tree2, content, used)
            /\ Grows(shapes, content, used, tree2, content, used)
            /\ content \in [Cell -> Name \cup {NULL}] /\ used \in [Thread -> Nat]
            /\ obj \in [Thread -> Object \cup {NULL}]
        BY <2>1, <2>2
      <3> QED
        BY <2>5, <2>6, <2>7, <2>8, <3>1, StepOf, SMTT(30)
    <2> QED
      BY <2>1, <2>9 DEF ShapeInv, tree2, calls2
  <1>2. CASE Return(t) /\ UNCHANGED <<shapes, root, content, used, obj>>
    BY <1>2, ReturnStep
  <1>3. CASE Crash("nullRead")
    BY <1>3, CrashStep
  <1>4. \A c : Added(t, c) => call'[t].step = "gotShape"
    BY InvFacts DEF Added, Call
  <1> QED
    BY <1>1, <1>2, <1>3, <1>4 DEF TransitionAdd, MakeChild, NotAdded, RaiseInLock

(* What an object is once its new value is in its new slot.                *)
SetTo(t) ==
  LET needed == shapes[call[t].shape].count IN
    [shape |-> call[t].shape,
     slots |-> [WithRoom(obj[t].slots, needed) EXCEPT ![needed] = call[t].value]]

(* It has room for the new value, and what was there is where it was.      *)
LEMMA SetToOK ==
  ASSUME ShapeInv, NEW t \in Thread, call[t].step = "gotShape"
  PROVE  LET needed == shapes[call[t].shape].count
             slots  == obj[t].slots
         IN  /\ SetTo(t) \in Object /\ ObjectOK(shapes, SetTo(t))
             /\ call[t].shape \in 1 .. Len(shapes) /\ obj[t] \in Object
             /\ obj[t].shape \in 1 .. Len(shapes) /\ shapes[call[t].shape].parent = obj[t].shape
             /\ needed \in Nat /\ needed = shapes[obj[t].shape].count + 1
             /\ shapes[obj[t].shape].count \in Nat /\ shapes[obj[t].shape].count <= Len(slots)
             /\ slots \in Seq(Value \cup {Undefined})
             /\ SetTo(t).shape = call[t].shape
             /\ SetTo(t).slots[needed] = call[t].value
             /\ \A i \in 1 .. Len(slots) : i # needed => SetTo(t).slots[i] = slots[i]
  <1> DEFINE needed == shapes[call[t].shape].count
             slots  == obj[t].slots
             room   == WithRoom(slots, needed)
             V      == Value \cup {Undefined}
  <1>1. /\ call[t].shape \in 1 .. Len(shapes) /\ call[t].value \in Value
        /\ obj[t] \in Object /\ obj[t].shape # 0 /\ obj[t].shape \in 0 .. Len(shapes)
        /\ shapes[call[t].shape].parent = obj[t].shape
        /\ shapes[obj[t].shape].count <= Len(slots)
        /\ IsTree(shapes) /\ Len(shapes) \in Nat
    BY InvFacts DEF CallOK, ObjectOK
  <1>2. obj[t].shape \in 1 .. Len(shapes)
    BY <1>1
  <1>3. /\ needed \in Nat /\ needed = shapes[obj[t].shape].count + 1
        /\ shapes[obj[t].shape].count \in Nat
    <2>1. needed \in Nat /\ shapes[obj[t].shape].count \in Nat
      BY <1>1, <1>2, ShapeFields
    <2>2. needed = shapes[shapes[call[t].shape].parent].count + 1
      BY <1>1 DEF IsTree
    <2> QED
      BY <1>1, <2>1, <2>2
  <1>4. slots \in Seq(V)
    BY <1>1 DEF Object
  <1> HIDE DEF needed
  <1>5. /\ room \in Seq(V) /\ Len(room) >= needed /\ Len(room) >= Len(slots)
        /\ \A i \in 1 .. Len(slots) : room[i] = slots[i]
    BY <1>3, <1>4, RoomKeeps
  <1> HIDE DEF room, slots
  <1> DEFINE filled == [room EXCEPT ![needed] = call[t].value]
  <1>6. /\ filled \in Seq(V) /\ Len(filled) = Len(room)
        /\ needed \in 1 .. Len(room) => filled[needed] = call[t].value
        /\ \A i \in 1 .. Len(room) : i # needed => filled[i] = room[i]
    <2> HIDE DEF filled
    <2> QED
      BY <1>1, <1>5, SlotWritten DEF filled
  <1>7. SetTo(t) = [shape |-> call[t].shape, slots |-> filled]
    BY DEF SetTo, room, needed, slots
  <1> HIDE DEF filled, V
  <1>8. Len(room) \in Nat /\ Len(slots) \in Nat
    BY <1>4, <1>5
  <1>9. needed \in 1 .. Len(room)
    BY <1>3, <1>5, <1>8
  <1>10. SetTo(t) \in Object
    <2>1. call[t].shape \in Nat
      BY <1>1
    <2> QED
      BY <1>6, <1>7, <2>1 DEF Object, V
  <1>11. ObjectOK(shapes, SetTo(t))
    BY <1>1, <1>5, <1>6, <1>7 DEF ObjectOK, needed
  <1>12. \A i \in 1 .. Len(slots) : i # needed => filled[i] = slots[i]
    BY <1>5, <1>6, <1>8
  <1> QED
    BY <1>1, <1>2, <1>3, <1>4, <1>6, <1>7, <1>9, <1>10, <1>11, <1>12 DEF needed, slots, V

(* The object takes its shape and its value, or there is no memory for it. *)
LEMMA SetSlotStep ==
  ASSUME ShapeInv, NEW t \in Thread, SetSlot(t)
  PROVE  ShapeInv'
  <1>1. CASE /\ obj' = [obj EXCEPT ![t] = SetTo(t)] /\ Return(t)
             /\ UNCHANGED <<shapes, root, content, used>>
    <2>1. SetTo(t) \in Object /\ ObjectOK(shapes, SetTo(t))
      BY SetToOK DEF SetSlot, At
    <2>2. /\ obj' \in [Thread -> Object \cup {NULL}] /\ obj'[t] = SetTo(t)
          /\ call' \in [Thread -> Call] /\ call'[t] = IdleCall
          /\ \A r \in Thread : r # t => obj'[r] = obj[r] /\ call'[r] = call[r]
      BY <1>1, <2>1, InvFacts, IdleOK DEF Return
    <2> QED
      BY <1>1, <2>1, <2>2, IdleOK, QuietStepOf
  <1>2. CASE Crash("writePastSlots")
    BY <1>2, CrashStep
  <1>3. CASE /\ obj' = [obj EXCEPT ![t] = NULL] /\ Return(t)
             /\ UNCHANGED <<shapes, root, content, used>>
    <2>1. Return(t) \/ (call[t].step = "idle" /\ call' = call)
      BY <1>3
    <2>2. UNCHANGED <<shapes, root, content, used>>
      BY <1>3
    <2>3. obj' = [obj EXCEPT ![t] = NULL]
      BY <1>3
    <2> QED
      BY <2>1, <2>2, <2>3, DropStep
  <1> QED
    BY <1>1, <1>2, <1>3 DEF SetSlot, SetTo

(* The tree is cleared when no object needs it.                            *)
LEMMA ClearShapesStep ==
  ASSUME ShapeInv, ClearShapes
  PROVE  ShapeInv'
  <1>1. /\ shapes' = <<>> /\ root' = 0 /\ UNCHANGED <<content, used, obj, call>>
        /\ \A t \in Thread : obj[t] = NULL /\ call[t].step = "idle"
    BY DEF ClearShapes
  <1>2. TreeOK(<<>>, content, used)
    BY DEF TreeOK, IsTree, KeysOK, LinksOK, OnePerName
  <1>3. \A t \in Thread : /\ ObjectOK(<<>>, obj[t])
                           /\ CallOK(<<>>, content, used, obj[t], call[t])
    BY <1>1 DEF ObjectOK, CallOK
  <1>4. /\ content \in [Cell -> Name \cup {NULL}] /\ used \in [Thread -> Nat]
        /\ obj \in [Thread -> Object \cup {NULL}] /\ call \in [Thread -> Call]
    BY DEF ShapeInv, Inv
  <1>5. Inv(<<>>, 0, content, used, obj, call)
    BY <1>2, <1>3, <1>4 DEF Inv
  <1> QED
    BY <1>1, <1>5 DEF ShapeInv

(* At first nothing is made.                                               *)
LEMMA InitShapeInv == ShapeInit => ShapeInv
  <1> SUFFICES ASSUME ShapeInit PROVE ShapeInv
    OBVIOUS
  <1>1. TreeOK(<<>>, content, used)
    BY DEF TreeOK, IsTree, KeysOK, LinksOK, OnePerName
  <1>2. /\ content \in [Cell -> Name \cup {NULL}] /\ used \in [Thread -> Nat]
        /\ obj \in [Thread -> Object \cup {NULL}] /\ call \in [Thread -> Call]
    BY IdleOK DEF ShapeInit
  <1>3. \A t \in Thread : /\ ObjectOK(<<>>, obj[t])
                           /\ CallOK(<<>>, content, used, obj[t], call[t])
    BY IdleOK DEF ShapeInit, ObjectOK
  <1> QED
    BY <1>1, <1>2, <1>3 DEF ShapeInit, ShapeInv, Inv

(* No step of any thread breaks the invariant.                             *)
LEMMA NextShapeInv == ShapeInv /\ [ShapeNext]_shapeVars => ShapeInv'
  <1> SUFFICES ASSUME ShapeInv, [ShapeNext]_shapeVars
               PROVE  ShapeInv'
    OBVIOUS
  <1>1. CASE UNCHANGED shapeVars
    BY <1>1 DEF shapeVars, ShapeInv
  <1>2. ASSUME NEW t \in Thread, NewObject(t) PROVE ShapeInv'
    BY <1>2, NewObjectStep
  <1>3. ASSUME NEW t \in Thread, NEW n \in Name, NEW v \in Value, SetProperty(t, n, v)
        PROVE  ShapeInv'
    BY <1>3, SetPropertyStep
  <1>4. ASSUME NEW t \in Thread, Step(t)
        PROVE  ShapeInv'
    <2>1. CASE Lock(t, "lockRoot", "inRoot")
      BY <2>1, LockStep
    <2>2. CASE RootSection(t)
      BY <2>2, RootSectionStep
    <2>3. CASE ReadRoot(t)
      BY <2>3, ReadRootStep
    <2>4. CASE Lock(t, "lockSet", "inSet")
      BY <2>4, LockStep
    <2>5. CASE TransitionAdd(t)
      BY <2>5, TransitionAddStep
    <2>6. CASE SetSlot(t)
      BY <2>6, SetSlotStep
    <2> QED
      BY <1>4, <2>1, <2>2, <2>3, <2>4, <2>5, <2>6 DEF Step
  <1>5. ASSUME NEW t \in Thread, DropObject(t) PROVE ShapeInv'
    <2>1. /\ UNCHANGED <<shapes, root, content, used>>
          /\ obj' = [obj EXCEPT ![t] = NULL]
          /\ call[t].step = "idle" /\ call' = call
      BY <1>5 DEF DropObject, At
    <2> QED
      BY <2>1, DropStep
  <1>6. CASE ClearShapes
    BY <1>6, ClearShapesStep
  <1> QED
    BY <1>1, <1>2, <1>3, <1>4, <1>5, <1>6 DEF ShapeNext

(* The invariant holds at any time.                                        *)
THEOREM InvariantHolds == ShapeSpec => []ShapeInv
  <1> QED
    BY InitShapeInv, NextShapeInv, PTL DEF ShapeSpec

(* The invariant says all the property does.                               *)
LEMMA InvImpliesWellFormed == ShapeInv => TreeWellFormed
  <1> SUFFICES ASSUME ShapeInv, NEW s \in 1 .. Len(shapes)
               PROVE  LET ts == shapes[s].transitions
                          p  == shapes[s].parent
                      IN  /\ \A i, j \in 1 .. Len(ts) : content[ts[i].key] = content[ts[j].key] => i = j
                          /\ p < s
                          /\ shapes[s].slot = shapes[s].count - 1
                          /\ p # 0 => /\ shapes[s].count = shapes[p].count + 1
                                      /\ SlotOf(p, content[shapes[s].key]) = -1
                          /\ \A i \in 1 .. Len(ts) : shapes[ts[i].next].parent = s
                          /\ \A k \in 0 .. shapes[s].count - 1 :
                               KeyAt(s, k) \in Cell /\ SlotOf(s, content[KeyAt(s, k)]) = k
    BY DEF TreeWellFormed
  <1>1. TreeOK(shapes, content, used) /\ IsTree(shapes)
    BY DEF ShapeInv, Inv, TreeOK
  <1>2. /\ shapes[s].parent < s
        /\ shapes[s].slot = shapes[s].count - 1
        /\ shapes[s].parent # 0 => shapes[s].count = shapes[shapes[s].parent].count + 1
    BY <1>1 DEF IsTree
  <1>3. shapes[s].parent # 0 => SlotOf(shapes[s].parent, content[shapes[s].key]) = -1
    BY <1>1 DEF TreeOK, KeysOK, SlotOf, LookupSlot
  <1>4. \A i \in 1 .. Len(shapes[s].transitions) : shapes[shapes[s].transitions[i].next].parent = s
    BY <1>1 DEF TreeOK, LinksOK
  <1>5. \A i, j \in 1 .. Len(shapes[s].transitions) :
          content[shapes[s].transitions[i].key] = content[shapes[s].transitions[j].key] => i = j
    BY <1>1 DEF TreeOK, OnePerName
  <1>6. \A k \in 0 .. shapes[s].count - 1 : KeyAt(s, k) \in Cell /\ SlotOf(s, content[KeyAt(s, k)]) = k
    BY <1>1, KeysLeadBack DEF TreeOK, KeyAt, SlotOf, LookupSlot
  <1> QED
    BY <1>2, <1>3, <1>4, <1>5, <1>6

(* However the threads interleave and whichever allocations fail, no shape *)
(* ever has two transitions for one name, and the slots along a path are   *)
(* 0, 1, 2, ... with distinct names: the critical section of               *)
(* shape_transition_add is enough for that.                                *)
THEOREM TreeStaysWellFormed == ShapeSpec => []TreeWellFormed
  <1> QED
    BY InvariantHolds, InvImpliesWellFormed, PTL

---------------------------------------------------------------------------
(* Objects as maps.                                                        *)

\* What an object reads as.
View(tree, names, o) ==
  [n \in Name |-> IF SlotsIn(tree, names, n)[o.shape] = -1 THEN NULL
                  ELSE o.slots[SlotsIn(tree, names, n)[o.shape] + 1]]

MapOf(tree, names, o) == IF o = NULL THEN NULL ELSE View(tree, names, o)

MapsOf(tree, names, objects) == [t \in Thread |-> MapOf(tree, names, objects[t])]

(* The maps of the abstract specification, over rigid trees.               *)
LEMMA MapsAre == Maps!MapsInit <=> MapsOf(shapes, content, obj) = [t \in Thread |-> NULL]
  <1>1. MapsOf(shapes, content, obj) =
          [t \in Thread |-> IF obj[t] = NULL THEN NULL ELSE [n \in Name |-> Get(obj[t], n)]]
    BY DEF MapsOf, MapOf, View, Get, SlotOf, LookupSlot
  <1> QED
    BY <1>1 DEF Maps!MapsInit

(* A slot an object looks up is one it has.                                *)
LEMMA SlotThere ==
  ASSUME NEW tree, IsTree(tree), NEW names, NEW o \in Object, ObjectOK(tree, o), o # NULL, NEW n
  PROVE  LET slot == SlotsIn(tree, names, n)[o.shape] IN
           slot # -1 => /\ o.shape \in 1 .. Len(tree)
                        /\ slot \in 0 .. tree[o.shape].count - 1
                        /\ tree[o.shape].count \in Nat
                        /\ slot + 1 \in 1 .. Len(o.slots)
  <1> DEFINE slot == SlotsIn(tree, names, n)[o.shape]
  <1> SUFFICES ASSUME slot # -1
               PROVE  /\ o.shape \in 1 .. Len(tree) /\ slot \in 0 .. tree[o.shape].count - 1
                      /\ tree[o.shape].count \in Nat
                      /\ slot + 1 \in 1 .. Len(o.slots)
    OBVIOUS
  <1>1. o.shape \in 0 .. Len(tree) /\ Len(tree) \in Nat /\ o.shape # 0
    BY SlotsUnfold, ShapeFields DEF ObjectOK
  <1>2. o.shape \in 1 .. Len(tree)
    BY <1>1
  <1>3. slot \in -1 .. tree[o.shape].count - 1 /\ tree[o.shape].count \in Nat
    BY <1>2, SlotsBound, ShapeFields
  <1>4. tree[o.shape].count <= Len(o.slots) /\ Len(o.slots) \in Nat
    BY <1>1 DEF ObjectOK, Object
  <1> HIDE DEF slot
  <1> QED
    BY <1>2, <1>3, <1>4

(* What an object reads as is a map, not the null pointer.                 *)
LEMMA ViewIsMap ==
  ASSUME NEW tree, IsTree(tree), NEW names, NEW o \in Object, ObjectOK(tree, o), o # NULL
  PROVE  View(tree, names, o) # NULL
  <1>1. ASSUME NEW n \in Name, SlotsIn(tree, names, n)[o.shape] # -1
        PROVE  o.slots[SlotsIn(tree, names, n)[o.shape] + 1] \in Value \cup {Undefined}
    <2>1. SlotsIn(tree, names, n)[o.shape] + 1 \in 1 .. Len(o.slots)
      BY <1>1, SlotThere
    <2>2. o.slots \in Seq(Value \cup {Undefined})
      BY DEF Object
    <2> QED
      BY <2>1, <2>2
  <1>2. View(tree, names, o) \in [Name -> Value \cup {Undefined, NULL}]
    BY <1>1 DEF View
  <1> QED
    BY <1>2, NullPointerAssumption

(* An object no step touched reads as it did.                              *)
LEMMA ViewKept ==
  ASSUME NEW tree, IsTree(tree), NEW names, NEW tree2, IsTree(tree2), NEW names2,
         Extends(tree, names, tree2, names2), NEW o, o # NULL, ObjectOK(tree, o)
  PROVE  View(tree2, names2, o) = View(tree, names, o)
  <1>1. \A n : SlotsIn(tree2, names2, n)[o.shape] = SlotsIn(tree, names, n)[o.shape]
    <2>1. o.shape \in 0 .. Len(tree)
      BY DEF ObjectOK
    <2>2. \A n : \A s \in 0 .. Len(tree) :
            SlotsIn(tree2, names2, n)[s] = SlotsIn(tree, names, n)[s]
      BY SlotsAgree
    <2> QED
      BY <2>1, <2>2
  <1> QED
    BY <1>1 DEF View

(* A step of one thread changes at most its own map.                       *)
LEMMA MapsChange ==
  ASSUME NEW tree, NEW top, NEW names, NEW us, NEW objects, NEW calls,
         Inv(tree, top, names, us, objects, calls),
         NEW tree2, IsTree(tree2), NEW names2, Extends(tree, names, tree2, names2),
         NEW t \in Thread, NEW objects2,
         \A r \in Thread : r # t => objects2[r] = objects[r]
  PROVE  MapsOf(tree2, names2, objects2)
           = [MapsOf(tree, names, objects) EXCEPT ![t] = MapOf(tree2, names2, objects2[t])]
  <1>1. ASSUME NEW r \in Thread, r # t
        PROVE  MapOf(tree2, names2, objects2[r]) = MapOf(tree, names, objects[r])
    <2>1. IsTree(tree) /\ ObjectOK(tree, objects[r])
      BY DEF Inv, TreeOK
    <2> QED
      BY <1>1, <2>1, ViewKept DEF MapOf
  <1> QED
    BY <1>1 DEF MapsOf

(* Overwriting the slot of a name is a change of that name.                *)
LEMMA ViewOverwritten ==
  ASSUME NEW tree, IsTree(tree), NEW names, NEW o \in Object, ObjectOK(tree, o), o # NULL,
         NEW n \in Name, NEW v \in Value, SlotsIn(tree, names, n)[o.shape] # -1
  PROVE  View(tree, names, [o EXCEPT !.slots[SlotsIn(tree, names, n)[o.shape] + 1] = v])
           = [View(tree, names, o) EXCEPT ![n] = v]
  <1> DEFINE slot(m) == SlotsIn(tree, names, m)[o.shape]
             o2 == [o EXCEPT !.slots[slot(n) + 1] = v]
             cells == o.slots
  <1>1. cells \in Seq(Value \cup {Undefined}) /\ o2.shape = o.shape
        /\ o2.slots = [cells EXCEPT ![slot(n) + 1] = v]
    BY DEF Object
  <1>2. \A m : slot(m) # -1 => /\ slot(m) + 1 \in 1 .. Len(cells) /\ slot(m) \in Int
                              /\ o.shape \in 1 .. Len(tree)
    BY SlotThere, ShapeFields
  <1>3. \A m : m # n /\ slot(m) # -1 => slot(m) # slot(n)
    <2>1. o.shape \in 1 .. Len(tree)
      BY <1>2
    <2> QED
      BY <2>1, SlotsDistinct
  <1> HIDE DEF slot, cells, o2
  <1>4. ASSUME NEW m \in Name
        PROVE  (IF slot(m) = -1 THEN NULL ELSE o2.slots[slot(m) + 1])
                 = (IF m = n THEN v ELSE IF slot(m) = -1 THEN NULL ELSE cells[slot(m) + 1])
    <2>1. CASE m = n
      BY <1>1, <1>2, <2>1, SlotWritten DEF slot
    <2>2. CASE m # n /\ slot(m) # -1
      <3>1. slot(m) + 1 # slot(n) + 1
        BY <1>2, <1>3, <2>2 DEF slot
      <3> QED
        BY <1>1, <1>2, <2>2, <3>1, SlotWritten
    <2>3. CASE m # n /\ slot(m) = -1
      BY <2>3
    <2> QED
      BY <2>1, <2>2, <2>3
  <1>5. View(tree, names, o2) = [m \in Name |-> IF slot(m) = -1 THEN NULL ELSE o2.slots[slot(m) + 1]]
    BY <1>1 DEF View, slot
  <1>6. View(tree, names, o) = [m \in Name |-> IF slot(m) = -1 THEN NULL ELSE cells[slot(m) + 1]]
    BY DEF View, slot, cells
  <1>7. [View(tree, names, o) EXCEPT ![n] = v]
          = [m \in Name |-> IF m = n THEN v ELSE IF slot(m) = -1 THEN NULL ELSE cells[slot(m) + 1]]
    BY <1>6
  <1>8. View(tree, names, o2) = [View(tree, names, o) EXCEPT ![n] = v]
    BY <1>4, <1>5, <1>7
  <1> QED
    BY <1>8 DEF o2, slot

(* So is the value in the slot of a key that is new.                       *)
LEMMA ViewExtended ==
  ASSUME ShapeInv, NEW t \in Thread, call[t].step = "gotShape"
  PROVE  /\ View(shapes, content, SetTo(t))
               = [View(shapes, content, obj[t]) EXCEPT ![content[call[t].key]] = call[t].value]
         /\ content[call[t].key] \in Name /\ call[t].value \in Value
  <1> DEFINE n      == content[call[t].key]
             v      == call[t].value
             o      == obj[t]
             c      == call[t].shape
             needed == shapes[c].count
             slot(m)  == SlotsIn(shapes, content, m)[o.shape]
             slot2(m) == SlotsIn(shapes, content, m)[c]
  <1>1. /\ n \in Name /\ v \in Value /\ slot(n) = -1 /\ o # NULL /\ o \in Object
        /\ ObjectOK(shapes, o) /\ IsTree(shapes)
        /\ content[shapes[c].key] = n
    BY InvFacts DEF CallOK
  <1>2. /\ c \in 1 .. Len(shapes) /\ o.shape \in 1 .. Len(shapes) /\ shapes[c].parent = o.shape
        /\ needed \in Nat /\ needed = shapes[o.shape].count + 1
        /\ SetTo(t).shape = c /\ SetTo(t).slots[needed] = v
        /\ \A i \in 1 .. Len(o.slots) : i # needed => SetTo(t).slots[i] = o.slots[i]
        /\ shapes[o.shape].count \in Nat
    BY SetToOK
  <1>3. shapes[c].key # NULL /\ shapes[c].slot = needed - 1
    <2>1. shapes[c].parent # 0
      BY <1>1, <1>2, ShapeFields
    <2> HIDE DEF c
    <2>2. shapes[c].key \in Cell /\ shapes[c].slot = shapes[c].count - 1
      BY <1>1, <1>2, <2>1 DEF IsTree
    <2> QED
      BY <2>2, NullPointerAssumption
  <1>4. \A m : slot2(m) = IF m = n THEN needed - 1 ELSE slot(m)
    <2>1. ASSUME NEW m
          PROVE  slot2(m) = IF m = n THEN needed - 1 ELSE slot(m)
      <3>1. slot2(m) = IF shapes[c].key = NULL THEN -1
                       ELSE IF content[shapes[c].key] = m THEN shapes[c].slot
                       ELSE SlotsIn(shapes, content, m)[shapes[c].parent]
        BY <1>1, <1>2, SlotsUnfold
      <3> QED
        BY <1>1, <1>2, <1>3, <3>1
    <2> QED
      BY <2>1
  <1>5. \A m : slot(m) # -1 => /\ slot(m) + 1 \in 1 .. Len(o.slots)
                              /\ slot(m) + 1 # needed
    <2>1. ASSUME NEW m, slot(m) # -1
          PROVE  slot(m) + 1 \in 1 .. Len(o.slots) /\ slot(m) + 1 # needed
      <3>1. slot(m) + 1 \in 1 .. Len(o.slots) /\ slot(m) \in 0 .. shapes[o.shape].count - 1
        BY <1>1, <2>1, SlotThere
      <3> HIDE DEF slot, needed
      <3> QED
        BY <1>2, <3>1
    <2> QED
      BY <2>1
  <1> HIDE DEF n, v, o, c, needed, slot, slot2
  <1>6. ASSUME NEW m \in Name
        PROVE  (IF slot2(m) = -1 THEN NULL ELSE SetTo(t).slots[slot2(m) + 1])
                 = (IF m = n THEN v ELSE IF slot(m) = -1 THEN NULL ELSE o.slots[slot(m) + 1])
    <2>1. CASE m = n
      <3>1. slot2(m) = needed - 1 /\ needed - 1 # -1 /\ needed - 1 + 1 = needed
        <4>1. needed # 0
          BY <1>2
        <4> QED
          BY <1>2, <1>4, <2>1, <4>1
      <3> QED
        BY <1>2, <2>1, <3>1
    <2>2. CASE m # n
      BY <1>2, <1>4, <1>5, <2>2
    <2> QED
      BY <2>1, <2>2
  <1>7. View(shapes, content, SetTo(t))
          = [m \in Name |-> IF slot2(m) = -1 THEN NULL ELSE SetTo(t).slots[slot2(m) + 1]]
    BY <1>2 DEF View, slot2
  <1>8. View(shapes, content, o) = [m \in Name |-> IF slot(m) = -1 THEN NULL ELSE o.slots[slot(m) + 1]]
    BY DEF View, slot
  <1>9. [View(shapes, content, o) EXCEPT ![n] = v]
          = [m \in Name |-> IF m = n THEN v ELSE IF slot(m) = -1 THEN NULL ELSE o.slots[slot(m) + 1]]
    BY <1>8
  <1>10. View(shapes, content, SetTo(t)) = [View(shapes, content, o) EXCEPT ![n] = v]
    BY <1>6, <1>7, <1>9
  <1> QED
    BY <1>1, <1>10 DEF n, v, o

(* Each step is a step of the maps, or one they do not see.                *)
LEMMA NextIsMapsStep ==
  ShapeInv /\ [ShapeNext]_shapeVars
    => \/ MapsOf(shapes, content, obj)' = MapsOf(shapes, content, obj)
       \/ Maps!MapsNext
  <1> DEFINE m  == MapsOf(shapes, content, obj)
             m2 == MapsOf(shapes', content', obj')
  <1> SUFFICES ASSUME ShapeInv, [ShapeNext]_shapeVars
               PROVE  m2 = m \/ Maps!MapsNext
    BY DEF MapsOf, MapOf, View
  <1>1. /\ Inv(shapes, root, content, used, obj, call)
        /\ IsTree(shapes) /\ TreeOK(shapes, content, used)
        /\ \A r \in Thread : /\ obj[r] \in Object \cup {NULL} /\ ObjectOK(shapes, obj[r])
                             /\ call[r] \in Call
    BY DEF ShapeInv, Inv, TreeOK
  <1>2. IsTree(shapes')
    <2>1. ShapeInv'
      BY NextShapeInv
    <2> QED
      BY <2>1 DEF ShapeInv, Inv, TreeOK
  <1>3. Extends(shapes, content, shapes, content)
    BY <1>1, ShapeFields DEF Extends
  <1>4. \A r \in Thread : m[r] = MapOf(shapes, content, obj[r])
    BY DEF MapsOf
  <1>5. \A r \in Thread : obj[r] # NULL => m[r] # NULL
    BY <1>1, <1>4, ViewIsMap DEF MapOf
  (* What the maps make of a step of one thread. *)
  <1>6. ASSUME NEW t \in Thread, Extends(shapes, content, shapes', content'),
               \A r \in Thread : r # t => obj'[r] = obj[r]
        PROVE  m2 = [m EXCEPT ![t] = MapOf(shapes', content', obj'[t])]
    BY <1>1, <1>2, <1>6, MapsChange
  <1>7. ASSUME Extends(shapes, content, shapes', content'), obj' = obj
        PROVE  m2 = m
    <2>1. ASSUME NEW r \in Thread
          PROVE  MapOf(shapes', content', obj'[r]) = MapOf(shapes, content, obj[r])
      BY <1>1, <1>2, <1>7, ViewKept DEF MapOf
    <2> QED
      BY <2>1 DEF MapsOf
  <1>8. m = [t \in Thread |-> IF obj[t] = NULL THEN NULL ELSE [n \in Name |-> Get(obj[t], n)]]
    BY DEF MapsOf, MapOf, View, Get, SlotOf, LookupSlot
  <1>9. m2 = [t \in Thread |-> IF obj[t] = NULL THEN NULL ELSE [n \in Name |-> Get(obj[t], n)]]'
    BY DEF MapsOf, MapOf, View, Get, SlotOf, LookupSlot
  <1> HIDE DEF m, m2
  <1>10. ASSUME NEW t \in Thread, m[t] = NULL, m2 = [m EXCEPT ![t] = [n \in Name |-> NULL]]
         PROVE  Maps!MapsNext
    BY <1>8, <1>9, <1>10 DEF Maps!MapsNext, Maps!Make, Maps!Empty
  <1>11. ASSUME NEW t \in Thread, NEW n \in Name, NEW v \in Value, m[t] # NULL,
                m2 = [m EXCEPT ![t] = [m[t] EXCEPT ![n] = v]]
         PROVE  Maps!MapsNext
    <2>1. m2 = [m EXCEPT ![t][n] = v]
      BY <1>11
    <2>2. Maps!Put(t, n, v)
      BY <1>8, <1>9, <1>11, <2>1 DEF Maps!Put
    <2> QED
      BY <2>2 DEF Maps!MapsNext
  <1>12. ASSUME NEW t \in Thread, m2 = [m EXCEPT ![t] = NULL]
         PROVE  Maps!MapsNext
    BY <1>8, <1>9, <1>12 DEF Maps!MapsNext, Maps!Drop
  <1>13. ASSUME NEW t \in Thread, obj' = [obj EXCEPT ![t] = NULL],
                UNCHANGED <<shapes, content>>
         PROVE  Maps!MapsNext
    <2>1. obj'[t] = NULL /\ \A r \in Thread : r # t => obj'[r] = obj[r]
      BY <1>13, InvFacts
    <2>2. m2 = [m EXCEPT ![t] = MapOf(shapes', content', obj'[t])]
      BY <1>3, <1>6, <1>13, <2>1
    <2> QED
      BY <1>12, <2>1, <2>2 DEF MapOf
  <1>14. CASE UNCHANGED shapeVars
    BY <1>3, <1>7, <1>14 DEF shapeVars
  <1>15. ASSUME NEW t \in Thread, NewObject(t) \/ DropObject(t)
         PROVE  m2 = m \/ Maps!MapsNext
    BY <1>3, <1>7, <1>13, <1>15 DEF NewObject, DropObject
  <1>16. ASSUME NEW t \in Thread, NEW n \in Name, NEW v \in Value, SetProperty(t, n, v)
         PROVE  m2 = m \/ Maps!MapsNext
    <2> DEFINE key    == <<t, used[t] + 1>>
               names2 == [content EXCEPT ![key] = n]
               slot   == SlotsIn(shapes, names2, n)[obj[t].shape]
               o2     == [obj[t] EXCEPT !.slots[slot + 1] = v]
    <2>1. /\ obj[t] # NULL /\ content' = names2 /\ shapes' = shapes
          /\ \/ obj' = obj
             \/ slot # -1 /\ obj' = [obj EXCEPT ![t].slots[slot + 1] = v]
      BY <1>16 DEF SetProperty, LookupSlot
    <2>2. Extends(shapes, content, shapes, names2)
      BY <1>16, FreshKey DEF SetProperty, Grows
    <2>3. CASE obj' = obj
      <3> HIDE DEF names2
      <3> QED
        BY <1>7, <2>1, <2>2, <2>3
    <2>4. CASE slot # -1 /\ obj' = [obj EXCEPT ![t].slots[slot + 1] = v]
      <3>1. obj'[t] = o2 /\ \A r \in Thread : r # t => obj'[r] = obj[r]
        <4> HIDE DEF slot
        <4> QED
          BY <2>4, InvFacts
      <3>2. m2 = [m EXCEPT ![t] = MapOf(shapes, names2, o2)]
        <4> HIDE DEF names2, o2
        <4> QED
          BY <1>6, <2>1, <2>2, <3>1
      <3>3. View(shapes, names2, o2) = [View(shapes, names2, obj[t]) EXCEPT ![n] = v]
        <4> DEFINE o == obj[t]
        <4>1. /\ o \in Object /\ o # NULL /\ ObjectOK(shapes, o) /\ IsTree(shapes)
              /\ SlotsIn(shapes, names2, n)[o.shape] # -1
          BY <1>1, <2>1, <2>4
        <4> HIDE DEF names2, o
        <4>2. View(shapes, names2, [o EXCEPT !.slots[SlotsIn(shapes, names2, n)[o.shape] + 1] = v])
                = [View(shapes, names2, o) EXCEPT ![n] = v]
          BY <4>1, ViewOverwritten
        <4> QED
          BY <4>2 DEF o
      <3>4. View(shapes, names2, obj[t]) = m[t] /\ m[t] # NULL
        BY <1>1, <1>4, <1>5, <2>1, <2>2, ViewKept DEF MapOf
      <3>5. o2 # NULL
        <4> HIDE DEF slot
        <4>1. obj[t] \in Object
          BY <1>1, <2>1
        <4>2. [obj[t].slots EXCEPT ![slot + 1] = v] \in Seq(Value \cup {Undefined})
          BY <4>1, SlotWritten DEF Object
        <4>3. o2 \in Object
          BY <4>1, <4>2 DEF Object
        <4> QED
          BY <4>3, NullPointerAssumption
      <3> QED
        BY <1>11, <3>2, <3>3, <3>4, <3>5 DEF MapOf
    <2> QED
      BY <2>1, <2>3, <2>4
  <1>17. ASSUME NEW t \in Thread, ReadRoot(t)
         PROVE  Maps!MapsNext
    <2> DEFINE o == [shape |-> root, slots |-> <<>>]
    <2>1. /\ obj' = [obj EXCEPT ![t] = o] /\ UNCHANGED <<shapes, content>>
          /\ obj[t] = NULL
      BY <1>17, InvFacts DEF ReadRoot, At, CallOK
    <2>2. o \in Object
      BY InvFacts DEF Object
    <2>3. \A n : SlotsIn(shapes, content, n)[root] = -1
      <3>1. \A n : SlotsIn(shapes, content, n)[0] = -1
        BY <1>1, SlotsUnfold
      <3>2. root # 0 => root \in 1 .. Len(shapes) /\ shapes[root].parent = 0
        BY InvFacts
      <3>3. root # 0 => shapes[root].key = NULL
        BY <1>1, <3>2 DEF IsTree
      <3>4. root # 0 => \A n : SlotsIn(shapes, content, n)[root] = -1
        BY <1>1, <3>2, <3>3, SlotsUnfold
      <3> QED
        BY <3>1, <3>4
    <2>4. View(shapes, content, o) = [n \in Name |-> NULL]
      BY <2>3 DEF View
    <2> HIDE DEF o
    <2>5. obj'[t] = o /\ \A r \in Thread : r # t => obj'[r] = obj[r]
      BY <2>1, InvFacts
    <2>6. m2 = [m EXCEPT ![t] = MapOf(shapes, content, o)]
      BY <1>3, <1>6, <2>1, <2>5
    <2>7. o # NULL
      BY <2>2, NullPointerAssumption
    <2> QED
      BY <1>4, <1>10, <2>1, <2>4, <2>6, <2>7 DEF MapOf
  <1>18. ASSUME NEW t \in Thread, TransitionAdd(t)
         PROVE  m2 = m
    <2>1. CASE call'[t].step = "gotShape"
      <3>1. Grows(shapes, content, used, shapes', content, used) /\ UNCHANGED <<content, obj>>
        BY <1>18, <2>1, TransitionTree
      <3> QED
        BY <1>7, <3>1 DEF Grows
    <2>2. CASE UNCHANGED <<shapes, content, obj>>
      BY <1>3, <1>7, <2>2
    <2>3. \A c : Added(t, c) => call'[t].step = "gotShape"
      BY InvFacts DEF Added, Call
    <2> QED
      BY <1>18, <2>1, <2>2, <2>3 DEF TransitionAdd, MakeChild, NotAdded, RaiseInLock, Crash
  <1>19. ASSUME NEW t \in Thread, SetSlot(t)
         PROVE  m2 = m \/ Maps!MapsNext
    <2> DEFINE n == content[call[t].key]
               v == call[t].value
    <2>1. call[t].step = "gotShape"
      BY <1>19 DEF SetSlot, At
    <2>2. CASE obj' = [obj EXCEPT ![t] = SetTo(t)] /\ UNCHANGED <<shapes, content>>
      <3>1. SetTo(t) \in Object /\ obj[t] \in Object /\ SetTo(t) # NULL /\ obj[t] # NULL
        BY <2>1, SetToOK, NullPointerAssumption
      <3>2. obj'[t] = SetTo(t) /\ \A r \in Thread : r # t => obj'[r] = obj[r]
        BY <2>2, InvFacts
      <3>3. m2 = [m EXCEPT ![t] = View(shapes, content, SetTo(t))]
        BY <1>3, <1>6, <2>2, <3>1, <3>2 DEF MapOf
      <3>4. /\ View(shapes, content, SetTo(t)) = [View(shapes, content, obj[t]) EXCEPT ![n] = v]
            /\ n \in Name /\ v \in Value
        BY <2>1, ViewExtended
      <3>5. m[t] = View(shapes, content, obj[t]) /\ m[t] # NULL
        BY <1>4, <1>5, <3>1 DEF MapOf
      <3> QED
        BY <1>11, <3>3, <3>4, <3>5
    <2>3. CASE Crash("writePastSlots")
      BY <1>3, <1>7, <2>3 DEF Crash
    <2>4. CASE obj' = [obj EXCEPT ![t] = NULL] /\ UNCHANGED <<shapes, content>>
      BY <1>13, <2>4
    <2> QED
      BY <1>19, <2>2, <2>3, <2>4 DEF SetSlot, SetTo
  <1>20. ASSUME NEW t \in Thread, RootSection(t)
         PROVE  m2 = m
    <2>1. CASE UNCHANGED <<shapes, content, obj>>
      BY <1>3, <1>7, <2>1
    <2>2. CASE shapes' = Append(shapes, RootShape) /\ UNCHANGED <<content, obj>>
      <3>1. RootShape = NewShape(shapes, 0, NULL)
        BY DEF RootShape, NewShape
      <3>2. Extends(shapes, content, shapes', content)
        BY <1>1, <2>2, <3>1, ShapeFields, TreeGrows
      <3> QED
        BY <1>7, <2>2, <3>2
    <2> QED
      BY <1>20, <2>1, <2>2 DEF RootSection, RaiseInLock
  <1>21. ASSUME NEW t \in Thread, NEW from, NEW to, Lock(t, from, to)
         PROVE  m2 = m
    BY <1>3, <1>7, <1>21 DEF Lock
  <1>22. CASE ClearShapes
    <2>1. \A r \in Thread : obj[r] = NULL /\ obj'[r] = NULL
      BY <1>22 DEF ClearShapes
    <2> QED
      BY <1>8, <1>9, <2>1
  <1>23. ASSUME NEW t \in Thread, Step(t)
         PROVE  m2 = m \/ Maps!MapsNext
    BY <1>17, <1>18, <1>19, <1>20, <1>21, <1>23 DEF Step
  <1> QED
    BY <1>14, <1>15, <1>16, <1>22, <1>23 DEF ShapeNext

(* Sharing one tree, and whatever fails, the objects of any number of      *)
(* threads behave as maps of their own: shapes and slots implement         *)
(* ObjectMaps.                                                             *)
THEOREM ShapesImplementMaps == ShapeSpec => RefinesMaps
  <1>1. ShapeInit => Maps!MapsInit
    BY DEF ShapeInit, Maps!MapsInit
  <1>2. ShapeInv /\ [ShapeNext]_shapeVars
          => [Maps!MapsNext]_([t \in Thread |-> IF obj[t] = NULL THEN NULL
                                                ELSE [n \in Name |-> Get(obj[t], n)]])
    BY NextIsMapsStep DEF MapsOf, MapOf, View, Get, SlotOf, LookupSlot
  <1> QED
    BY <1>1, <1>2, InvariantHolds, PTL DEF ShapeSpec, RefinesMaps, Maps!MapsSpec
=============================================================================
