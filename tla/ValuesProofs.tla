---------------------------- MODULE ValuesProofs ----------------------------
(***************************************************************************)
(* Proofs about module Values, for any number of containers, names,        *)
(* indices and values: containers keep their types and count the           *)
(* references to them, and they implement Containers.                      *)
(*                                                                         *)
(* Facts about a step are stated over rigid heaps, the one before it and   *)
(* the one after it.                                                       *)
(***************************************************************************)
EXTENDS Values, RecursionLemmas, FiniteSetTheorems

Record == ArrayRecord \cup ObjectRecord

SizeOf(r) == IF r.kind = "array" THEN r.length ELSE Len(r.shape)

\* Containers have room for what they hold and nothing behind it, and hold
\* only containers that were made.
HeapOK(h) ==
  /\ h \in [Container -> Record \cup {NULL}]
  /\ \A c \in Container : h[c] # NULL =>
       /\ SizeOf(h[c]) <= Len(h[c].cells)
       /\ \A i \in 1 .. Len(h[c].cells) : h[c].cells[i] \in Container => h[h[c].cells[i]] # NULL
       /\ \A i \in SizeOf(h[c]) + 1 .. Len(h[c].cells) : h[c].cells[i] = Undefined

\* The cells that refer to v.
Refs(h, v) ==
  {p \in Container \X Nat :
     h[p[1]] # NULL /\ p[2] \in 1 .. SizeOf(h[p[1]]) /\ h[p[1]].cells[p[2]] = v}

CountsOK(h) ==
  \A v \in Container : /\ IsFiniteSet(Refs(h, v))
                       /\ h[v] # NULL => h[v].refs = Cardinality(Refs(h, v))

ValuesInv == status \in {"running", "wrotePast"} /\ HeapOK(heap) /\ CountsOK(heap)

---------------------------------------------------------------------------
(* Counting references.                                                    *)

\* The same container, but for its count.
Like(r, s) ==
  /\ r.kind = s.kind
  /\ r.cells = s.cells
  /\ r.kind = "array" => r.length = s.length
  /\ r.kind = "object" => r.shape = s.shape

(* The fields of a container have their types.                             *)
LEMMA RecordFields ==
  ASSUME NEW r \in Record
  PROVE  /\ r.kind \in {"array", "object"}
         /\ r.cells \in Seq(Value)
         /\ r.refs \in Int
         /\ SizeOf(r) \in Nat
         /\ r.kind = "array" => r \in ArrayRecord
         /\ r.kind = "object" => r \in ObjectRecord
         /\ r # NULL
  <1>1. CASE r \in ArrayRecord
    BY <1>1, NullAssumption DEF ArrayRecord, SizeOf
  <1>2. CASE r \in ObjectRecord
    BY <1>2, NullAssumption DEF ObjectRecord, SizeOf
  <1> QED
    BY <1>1, <1>2 DEF Record

(* Another count makes no other container.                                 *)
LEMMA RecordCounted ==
  ASSUME NEW r \in Record, NEW change \in Int
  PROVE  /\ [r EXCEPT !.refs = @ + change] \in Record
         /\ Like([r EXCEPT !.refs = @ + change], r)
         /\ [r EXCEPT !.refs = @ + change].refs = r.refs + change
  <1> DEFINE s == [r EXCEPT !.refs = @ + change]
  <1>1. CASE r \in ArrayRecord
    <2>1. s \in ArrayRecord /\ s.kind = r.kind /\ s.cells = r.cells /\ s.length = r.length
          /\ s.refs = r.refs + change /\ r.kind = "array"
      BY <1>1 DEF ArrayRecord
    <2> QED
      BY <2>1 DEF Record, Like
  <1>2. CASE r \in ObjectRecord
    <2>1. s \in ObjectRecord /\ s.kind = r.kind /\ s.cells = r.cells /\ s.shape = r.shape
          /\ s.refs = r.refs + change /\ r.kind = "object"
      BY <1>2 DEF ObjectRecord
    <2> QED
      BY <2>1 DEF Record, Like
  <1> QED
    BY <1>1, <1>2 DEF Record

\* The same heap, but for counts.
HeapLike(h2, h) ==
  /\ h2 \in [Container -> Record \cup {NULL}]
  /\ \A c \in Container : h2[c] = NULL <=> h[c] = NULL
  /\ \A c \in Container : h[c] # NULL => Like(h2[c], h[c])

(* value_retain and value_release change one count.                        *)
LEMMA CountedFacts ==
  ASSUME NEW h \in [Container -> Record \cup {NULL}], NEW v \in Value,
         v \in Container => h[v] # NULL, NEW change \in Int
  PROVE  /\ HeapLike(Counted(h, v, change), h)
         /\ \A c \in Container : h[c] # NULL =>
              Counted(h, v, change)[c].refs = IF c = v THEN h[c].refs + change ELSE h[c].refs
  <1>1. CASE v \in Container
    <2> DEFINE r == [h[v] EXCEPT !.refs = @ + change]
    <2>1. h[v] \in Record
      BY <1>1
    <2>2. r \in Record /\ Like(r, h[v]) /\ r.refs = h[v].refs + change /\ r # NULL
      BY <2>1, RecordCounted, RecordFields
    <2>3. Counted(h, v, change) = [h EXCEPT ![v] = r]
      BY <1>1 DEF Counted
    <2> HIDE DEF r
    <2>4. Counted(h, v, change) \in [Container -> Record \cup {NULL}]
      BY <2>2, <2>3
    <2>5. /\ Counted(h, v, change)[v] = r
          /\ \A c \in Container : c # v => Counted(h, v, change)[c] = h[c]
      BY <1>1, <2>3
    <2> QED
      BY <1>1, <2>2, <2>4, <2>5 DEF HeapLike, Like
  <1>2. CASE v \notin Container
    BY <1>2 DEF Counted, HeapLike, Like
  <1> QED
    BY <1>1, <1>2

(* Counts are not part of what a heap holds.                               *)
LEMMA LikeFacts ==
  ASSUME NEW h \in [Container -> Record \cup {NULL}], NEW h2, HeapLike(h2, h)
  PROVE  /\ HeapOK(h) => HeapOK(h2)
         /\ \A v : Refs(h2, v) = Refs(h, v)
  <1>1. \A c \in Container : h[c] # NULL => SizeOf(h2[c]) = SizeOf(h[c]) /\ h2[c].cells = h[c].cells
    <2> SUFFICES ASSUME NEW c \in Container, h[c] # NULL
                 PROVE  SizeOf(h2[c]) = SizeOf(h[c]) /\ h2[c].cells = h[c].cells
      OBVIOUS
    <2>1. h[c] \in Record /\ Like(h2[c], h[c])
      BY DEF HeapLike
    <2> QED
      BY <2>1, RecordFields DEF Like, SizeOf
  <1>2. HeapOK(h) => HeapOK(h2)
    BY <1>1 DEF HeapOK, HeapLike
  <1>3. ASSUME NEW v
        PROVE  Refs(h2, v) = Refs(h, v)
    BY <1>1 DEF Refs, HeapLike
  <1> QED
    BY <1>2, <1>3

---------------------------------------------------------------------------
(* Writing a cell.                                                         *)

(* Cells that hold values still do when they have grown.                   *)
LEMMA ValuesRoom ==
  ASSUME NEW cells \in Seq(Value), NEW i \in Nat
  PROVE  /\ WithRoom(cells, i) \in Seq(Value)
         /\ Len(WithRoom(cells, i)) >= i
         /\ Len(WithRoom(cells, i)) >= Len(cells)
         /\ \A j \in 1 .. Len(cells) : WithRoom(cells, i)[j] = cells[j]
         /\ \A j \in Len(cells) + 1 .. Len(WithRoom(cells, i)) : WithRoom(cells, i)[j] = Undefined
  <1>1. Undefined \in Value
    BY DEF Value, Leaf
  <1>2. CASE Len(cells) >= i
    BY <1>2 DEF WithRoom
  <1>3. CASE Len(cells) < i
    <2> DEFINE d == Doubled(FirstCapacity, i)
               w == WithRoom(cells, i)
    <2>1. d \in Nat /\ d >= i
      BY CapacityAssumption, DoubledEnough
    <2> HIDE DEF d
    <2>2. w = [j \in 1 .. d |-> IF j <= Len(cells) THEN cells[j] ELSE Undefined]
      BY <1>3 DEF WithRoom, Grow, d
    <2> HIDE DEF w
    <2>4. /\ w \in Seq(Value)
          /\ Len(w) >= i
          /\ Len(w) >= Len(cells)
          /\ \A k \in 1 .. Len(cells) : w[k] = cells[k]
          /\ \A k \in Len(cells) + 1 .. Len(w) : w[k] = Undefined
      BY <1>1, <1>3, <2>1, <2>2, RoomMade
    <2> QED
      BY <2>4 DEF w
  <1> QED
    BY <1>2, <1>3

\* What a new value at i takes the place of.
Replaced(r, i) == WithRoom(r.cells, i)[i]

\* What a container becomes when v is written to its cell i.
Wrote(r, s, i, v) ==
  /\ s.cells = [WithRoom(r.cells, i) EXCEPT ![i] = v]
  /\ SizeOf(s) = IF i > SizeOf(r) THEN i ELSE SizeOf(r)
  /\ s.refs = r.refs

Put(h, c, s) == [h EXCEPT ![c] = s]

(* A cell written past the end makes those before it undefined ones, which *)
(* refer to nothing.                                                       *)
LEMMA CellWritten ==
  ASSUME NEW r \in Record, SizeOf(r) <= Len(r.cells),
         \A j \in SizeOf(r) + 1 .. Len(r.cells) : r.cells[j] = Undefined,
         NEW i \in Nat \ {0}, NEW v \in Value,
         NEW s \in Record, Wrote(r, s, i, v)
  PROVE  /\ i <= SizeOf(s) /\ SizeOf(r) <= SizeOf(s) /\ SizeOf(s) <= Len(s.cells)
         /\ s.cells[i] = v
         /\ Replaced(r, i) = IF i <= SizeOf(r) THEN r.cells[i] ELSE Undefined
         /\ \A j \in 1 .. SizeOf(r) : j # i => s.cells[j] = r.cells[j]
         /\ \A j \in SizeOf(r) + 1 .. Len(s.cells) : j # i => s.cells[j] = Undefined
  <1>a. i \in Nat /\ Undefined \in Value /\ r.cells \in Seq(Value) /\ Len(r.cells) \in Nat /\ SizeOf(r) \in Nat
    BY RecordFields DEF Value, Leaf
  <1>b. /\ WithRoom(r.cells, i) \in Seq(Value)
        /\ Len(WithRoom(r.cells, i)) >= i
        /\ Len(WithRoom(r.cells, i)) >= Len(r.cells)
        /\ \A j \in 1 .. Len(r.cells) : WithRoom(r.cells, i)[j] = r.cells[j]
        /\ \A j \in Len(r.cells) + 1 .. Len(WithRoom(r.cells, i)) : WithRoom(r.cells, i)[j] = Undefined
    BY <1>a, ValuesRoom
  <1> DEFINE w == WithRoom(r.cells, i)
             m == Len(r.cells)
             n == SizeOf(r)
  <1>1. r.cells \in Seq(Value) /\ Undefined \in Value /\ m \in Nat /\ n \in Nat
    BY <1>a
  <1>2. /\ w \in Seq(Value) /\ Len(w) >= i /\ Len(w) >= m /\ Len(w) \in Nat
        /\ \A j \in 1 .. m : w[j] = r.cells[j]
        /\ \A j \in m + 1 .. Len(w) : w[j] = Undefined
    BY <1>b
  <1> HIDE DEF w, m, n
  <1>3. /\ Len(s.cells) = Len(w) /\ s.cells[i] = v
        /\ \A j \in 1 .. Len(w) : j # i => s.cells[j] = w[j]
    <2>1. s.cells = [w EXCEPT ![i] = v] /\ i \in 1 .. Len(w)
      BY <1>2 DEF w, Wrote
    <2> QED
      BY <1>2, <2>1
  <1>4. \A j \in n + 1 .. Len(w) : w[j] = Undefined
    <2> TAKE j \in n + 1 .. Len(w)
    <2>1. CASE j <= m
      <3>1. j \in SizeOf(r) + 1 .. Len(r.cells) /\ j \in 1 .. m
        BY <1>1, <2>1 DEF m, n
      <3>2. r.cells[j] = Undefined
        BY <3>1
      <3> QED
        BY <1>2, <3>1, <3>2
    <2>2. CASE j > m
      BY <1>1, <1>2, <2>2
    <2> QED
      BY <1>1, <2>1, <2>2
  <1>5. n <= m
    BY DEF m, n
  <1>6. \A j \in 1 .. n : w[j] = r.cells[j]
    BY <1>1, <1>2, <1>5
  <1>7. w[i] = IF i <= n THEN r.cells[i] ELSE Undefined
    <2>1. CASE i <= n
      BY <1>1, <1>6, <2>1
    <2>2. CASE ~(i <= n)
      <3>1. i \in n + 1 .. Len(w)
        BY <1>1, <1>2, <2>2
      <3> QED
        BY <1>4, <2>2, <3>1
    <2> QED
      BY <2>1, <2>2
  <1>8. i <= SizeOf(s) /\ n <= SizeOf(s) /\ SizeOf(s) <= Len(s.cells)
    BY <1>1, <1>2, <1>3, <1>5 DEF n, Wrote
  <1>9. \A j \in 1 .. n : j # i => s.cells[j] = r.cells[j]
    BY <1>1, <1>2, <1>3, <1>5, <1>6
  <1>10. ASSUME NEW j \in n + 1 .. Len(s.cells), j # i
         PROVE  s.cells[j] = Undefined
    <2>1. j \in n + 1 .. Len(w) /\ j \in 1 .. Len(w)
      BY <1>1, <1>3
    <2> QED
      BY <1>3, <1>4, <1>10, <2>1
  <1> QED
    BY <1>3, <1>7, <1>8, <1>9, <1>10 DEF w, n, Replaced

(* What refers to what after a cell of c was written: only that cell       *)
(* counts.                                                                 *)
LEMMA RefsWritten ==
  ASSUME NEW h, HeapOK(h), NEW c \in Container, h[c] # NULL,
         NEW i \in Nat \ {0}, NEW v \in Value, v \in Container => h[v] # NULL,
         NEW s \in Record, Wrote(h[c], s, i, v)
  PROVE  /\ HeapOK(Put(h, c, s))
         /\ Replaced(h[c], i) \in Value
         /\ Replaced(h[c], i) \in Container => h[Replaced(h[c], i)] # NULL
         /\ \A u \in Container :
              /\ <<c, i>> \in Refs(h, u) <=> Replaced(h[c], i) = u
              /\ Refs(Put(h, c, s), u) =
                   IF u = v THEN Refs(h, u) \cup {<<c, i>>} ELSE Refs(h, u) \ {<<c, i>>}
  <1>a. h \in [Container -> Record \cup {NULL}] /\ h[c] \in Record
    BY DEF HeapOK
  <1>b. /\ SizeOf(h[c]) <= Len(h[c].cells)
        /\ \A j \in SizeOf(h[c]) + 1 .. Len(h[c].cells) : h[c].cells[j] = Undefined
    BY DEF HeapOK
  <1>c. SizeOf(h[c]) \in Nat /\ h[c].cells \in Seq(Value) /\ SizeOf(s) \in Nat /\ s.cells \in Seq(Value)
    BY <1>a, RecordFields
  <1>d. /\ i <= SizeOf(s) /\ SizeOf(h[c]) <= SizeOf(s) /\ SizeOf(s) <= Len(s.cells)
        /\ s.cells[i] = v
        /\ Replaced(h[c], i) = IF i <= SizeOf(h[c]) THEN h[c].cells[i] ELSE Undefined
        /\ \A j \in 1 .. SizeOf(h[c]) : j # i => s.cells[j] = h[c].cells[j]
        /\ \A j \in SizeOf(h[c]) + 1 .. Len(s.cells) : j # i => s.cells[j] = Undefined
    BY <1>a, <1>b, CellWritten
  <1> DEFINE r == h[c]
             n == SizeOf(r)
             put == Put(h, c, s)
             old == Replaced(r, i)
  <1>1. /\ h \in [Container -> Record \cup {NULL}] /\ r \in Record /\ n \in Nat /\ n <= Len(r.cells)
        /\ \A j \in n + 1 .. Len(r.cells) : r.cells[j] = Undefined
        /\ r.cells \in Seq(Value)
    BY <1>a, <1>b, <1>c
  <1>2. /\ i <= SizeOf(s) /\ n <= SizeOf(s) /\ SizeOf(s) <= Len(s.cells) /\ SizeOf(s) \in Nat
        /\ s.cells[i] = v
        /\ old = IF i <= n THEN r.cells[i] ELSE Undefined
        /\ \A j \in 1 .. n : j # i => s.cells[j] = r.cells[j]
        /\ \A j \in n + 1 .. Len(s.cells) : j # i => s.cells[j] = Undefined
        /\ s.cells \in Seq(Value)
    BY <1>c, <1>d
  <1>3. Undefined \notin Container /\ Undefined \in Value
    BY AddressAssumption DEF Leaf, Value
  <1>4. old \in Value /\ (old \in Container => h[old] # NULL /\ i <= n)
    <2>1. CASE i <= n
      <3>1. i \in 1 .. Len(r.cells) /\ old = r.cells[i]
        BY <1>1, <1>2, <2>1
      <3>2. old \in Value
        BY <1>1, <3>1
      <3> QED
        BY <2>1, <3>1, <3>2 DEF HeapOK
    <2>2. CASE ~(i <= n)
      BY <1>2, <1>3, <2>2
    <2> QED
      BY <2>1, <2>2
  <1>5. /\ put[c] = s /\ s # NULL /\ put \in [Container -> Record \cup {NULL}]
        /\ \A d \in Container : d # c => put[d] = h[d]
        /\ \A d \in Container : put[d] = NULL <=> h[d] = NULL
    BY <1>1, RecordFields DEF Put
  <1> HIDE DEF put, n, old, r
  <1>6. HeapOK(put)
    <2> SUFFICES ASSUME NEW d \in Container, put[d] # NULL
                 PROVE  /\ SizeOf(put[d]) <= Len(put[d].cells)
                        /\ \A j \in 1 .. Len(put[d].cells) : put[d].cells[j] \in Container => put[put[d].cells[j]] # NULL
                        /\ \A j \in SizeOf(put[d]) + 1 .. Len(put[d].cells) : put[d].cells[j] = Undefined
      BY <1>5 DEF HeapOK
    <2>1. CASE d # c
      BY <1>5, <2>1 DEF HeapOK
    <2>2. CASE d = c
      <3>1. \A j \in SizeOf(s) + 1 .. Len(s.cells) : s.cells[j] = Undefined
        BY <1>1, <1>2
      <3>2. ASSUME NEW j \in 1 .. Len(s.cells), s.cells[j] \in Container
            PROVE  put[s.cells[j]] # NULL
        <4>1. CASE j = i
          BY <1>2, <1>5, <3>2, <4>1
        <4>2. CASE j # i
          <5>1. j \in 1 .. n
            BY <1>1, <1>2, <1>3, <3>2, <4>2
          <5>2. s.cells[j] = r.cells[j] /\ j \in 1 .. Len(r.cells)
            BY <1>1, <1>2, <4>2, <5>1
          <5>3. h[r.cells[j]] # NULL
            BY <3>2, <5>2 DEF HeapOK, r
          <5> QED
            BY <1>5, <3>2, <5>2, <5>3
        <4> QED
          BY <4>1, <4>2
      <3> QED
        BY <1>2, <1>5, <2>2, <3>1, <3>2
    <2> QED
      BY <2>1, <2>2
  <1>7. ASSUME NEW u \in Container
        PROVE  /\ <<c, i>> \in Refs(h, u) <=> old = u
               /\ Refs(put, u) = IF u = v THEN Refs(h, u) \cup {<<c, i>>} ELSE Refs(h, u) \ {<<c, i>>}
    <2>1. <<c, i>> \in Refs(h, u) <=> i <= n /\ r.cells[i] = u
      BY <1>1 DEF Refs, n, r
    <2>2. <<c, i>> \in Refs(h, u) <=> old = u
      BY <1>2, <1>3, <1>4, <2>1
    <2>3. <<c, i>> \in Refs(put, u) <=> u = v
      BY <1>2, <1>5 DEF Refs
    <2>4. ASSUME NEW d \in Container, NEW j \in Nat, <<d, j>> # <<c, i>>
          PROVE  <<d, j>> \in Refs(put, u) <=> <<d, j>> \in Refs(h, u)
      <3>1. CASE d # c
        BY <1>5, <3>1 DEF Refs
      <3>2. CASE d = c /\ j # i
        <4>1. <<d, j>> \in Refs(put, u) <=> j \in 1 .. SizeOf(s) /\ s.cells[j] = u
          BY <1>5, <3>2 DEF Refs
        <4>2. <<d, j>> \in Refs(h, u) <=> j \in 1 .. n /\ r.cells[j] = u
          BY <3>2 DEF Refs, n, r
        <4>3. j \in 1 .. SizeOf(s) /\ s.cells[j] = u => j \in 1 .. n
          BY <1>1, <1>2, <1>3, <3>2
        <4>4. j \in 1 .. n => j \in 1 .. SizeOf(s) /\ s.cells[j] = r.cells[j]
          BY <1>1, <1>2, <3>2
        <4> QED
          BY <4>1, <4>2, <4>3, <4>4
      <3> QED
        BY <2>4, <3>1, <3>2
    <2>5. Refs(put, u) \subseteq Container \X Nat /\ Refs(h, u) \subseteq Container \X Nat
      BY DEF Refs
    <2>6. \A p \in Container \X Nat : p # <<c, i>> => (p \in Refs(put, u) <=> p \in Refs(h, u))
      BY <2>4
    <2> QED
      BY <2>2, <2>3, <2>5, <2>6
  <1> QED
    BY <1>4, <1>6, <1>7 DEF put, old, r

(* Setting a cell of a container and exchanging the references keeps the   *)
(* heap right and its counts exact.                                        *)
LEMMA PutCell ==
  ASSUME NEW h, HeapOK(h), CountsOK(h), NEW c \in Container, h[c] # NULL,
         NEW i \in Nat \ {0}, NEW v \in Value, v \in Container => h[v] # NULL,
         NEW s \in Record, Wrote(h[c], s, i, v)
  PROVE  /\ HeapOK(Exchanged(Put(h, c, s), Replaced(h[c], i), v))
         /\ CountsOK(Exchanged(Put(h, c, s), Replaced(h[c], i), v))
         /\ HeapLike(Exchanged(Put(h, c, s), Replaced(h[c], i), v), Put(h, c, s))
         /\ Replaced(h[c], i) \in Value
  <1>a. /\ HeapOK(Put(h, c, s))
        /\ Replaced(h[c], i) \in Value
        /\ Replaced(h[c], i) \in Container => h[Replaced(h[c], i)] # NULL
        /\ \A u \in Container :
              /\ <<c, i>> \in Refs(h, u) <=> Replaced(h[c], i) = u
              /\ Refs(Put(h, c, s), u) =
                   IF u = v THEN Refs(h, u) \cup {<<c, i>>} ELSE Refs(h, u) \ {<<c, i>>}
    BY RefsWritten
  <1> DEFINE old == Replaced(h[c], i)
             put == Put(h, c, s)
             more == Counted(put, v, 1)
             both == Counted(more, old, -1)
  <1>1. /\ HeapOK(put) /\ old \in Value /\ (old \in Container => h[old] # NULL)
        /\ \A u \in Container :
              /\ <<c, i>> \in Refs(h, u) <=> old = u
              /\ Refs(put, u) = IF u = v THEN Refs(h, u) \cup {<<c, i>>} ELSE Refs(h, u) \ {<<c, i>>}
    BY <1>a
  <1>2. /\ put \in [Container -> Record \cup {NULL}]
        /\ \A u \in Container : (put[u] = NULL <=> h[u] = NULL) /\ (h[u] # NULL => put[u].refs = h[u].refs)
    <2>1. h \in [Container -> Record \cup {NULL}] /\ s # NULL
      BY RecordFields DEF HeapOK
    <2> QED
      BY <2>1 DEF Put, Wrote
  <1> HIDE DEF put, old
  <1>3. /\ HeapLike(more, put)
        /\ \A u \in Container : h[u] # NULL => more[u].refs = IF u = v THEN put[u].refs + 1 ELSE put[u].refs
    BY <1>2, CountedFacts
  <1> HIDE DEF more
  <1>4. /\ HeapLike(both, more)
        /\ \A u \in Container : h[u] # NULL => both[u].refs = IF u = old THEN more[u].refs + (-1) ELSE more[u].refs
    <2>1. /\ more \in [Container -> Record \cup {NULL}]
          /\ \A u \in Container : more[u] = NULL <=> h[u] = NULL
      BY <1>2, <1>3 DEF HeapLike
    <2> QED
      BY <1>1, <2>1, CountedFacts
  <1> HIDE DEF both
  <1>5. HeapLike(both, put)
    BY <1>2, <1>3, <1>4 DEF HeapLike, Like
  <1>6. HeapOK(both) /\ \A u : Refs(both, u) = Refs(put, u)
    BY <1>1, <1>2, <1>5, LikeFacts
  <1>7. CountsOK(both)
    <2> SUFFICES ASSUME NEW u \in Container
                 PROVE  /\ IsFiniteSet(Refs(put, u))
                        /\ both[u] # NULL => both[u].refs = Cardinality(Refs(put, u))
      BY <1>6 DEF CountsOK
    <2> DEFINE R == Refs(h, u)
    <2>1. IsFiniteSet(R) /\ (h[u] # NULL => h[u].refs = Cardinality(R))
      BY DEF CountsOK
    <2>2. Cardinality(R) \in Nat
      BY <2>1, FS_CardinalityType
    <2>3. Refs(put, u) = (IF u = v THEN R \cup {<<c, i>>} ELSE R \ {<<c, i>>}) /\ (<<c, i>> \in R <=> old = u)
      BY <1>1
    <2> HIDE DEF R
    <2>4. /\ IsFiniteSet(Refs(put, u))
          /\ Cardinality(Refs(put, u)) =
                IF u = v THEN IF old = u THEN Cardinality(R) ELSE Cardinality(R) + 1
                ELSE IF old = u THEN Cardinality(R) - 1 ELSE Cardinality(R)
      <3>1. /\ IsFiniteSet(R \cup {<<c, i>>})
            /\ Cardinality(R \cup {<<c, i>>}) = IF <<c, i>> \in R THEN Cardinality(R) ELSE Cardinality(R) + 1
        BY <2>1, FS_AddElement
      <3>2. /\ IsFiniteSet(R \ {<<c, i>>})
            /\ Cardinality(R \ {<<c, i>>}) = IF <<c, i>> \in R THEN Cardinality(R) - 1 ELSE Cardinality(R)
        BY <2>1, FS_RemoveElement
      <3> QED
        BY <2>3, <3>1, <3>2
    <2>5. ASSUME both[u] # NULL
          PROVE  both[u].refs = Cardinality(Refs(put, u))
      <3>1. h[u] # NULL
        BY <1>2, <1>5, <2>5 DEF HeapLike
      <3>2. put[u].refs = Cardinality(R)
        BY <1>2, <2>1, <3>1
      <3>3. more[u].refs = IF u = v THEN Cardinality(R) + 1 ELSE Cardinality(R)
        BY <1>3, <3>1, <3>2
      <3>4. both[u].refs = IF u = old THEN more[u].refs + (-1) ELSE more[u].refs
        BY <1>4, <3>1
      <3> QED
        BY <2>2, <2>4, <3>3, <3>4
    <2> QED
      BY <2>4, <2>5
  <1> QED
    BY <1>1, <1>5, <1>6, <1>7 DEF both, more, put, old, Exchanged

(* A new container refers to nothing, and nothing refers to it yet.        *)
LEMMA NewKeeps ==
  ASSUME NEW h, HeapOK(h), CountsOK(h), NEW c \in Container, h[c] = NULL,
         NEW s \in Record, SizeOf(s) = 0, s.cells = <<>>, s.refs = 0
  PROVE  HeapOK(Put(h, c, s)) /\ CountsOK(Put(h, c, s))
  <1> DEFINE put == Put(h, c, s)
  <1>1. h \in [Container -> Record \cup {NULL}] /\ s # NULL
    BY RecordFields DEF HeapOK
  <1>2. /\ put \in [Container -> Record \cup {NULL}] /\ put[c] = s
        /\ \A d \in Container : d # c => put[d] = h[d]
    BY <1>1 DEF Put
  <1> HIDE DEF put
  <1>3. ASSUME NEW d \in Container, d # c, h[d] # NULL, NEW j \in 1 .. Len(h[d].cells)
        PROVE  h[d].cells[j] # c
    BY <1>3 DEF HeapOK
  <1>4. HeapOK(put)
    <2> SUFFICES ASSUME NEW d \in Container, put[d] # NULL
                 PROVE  /\ SizeOf(put[d]) <= Len(put[d].cells)
                        /\ \A j \in 1 .. Len(put[d].cells) : put[d].cells[j] \in Container => put[put[d].cells[j]] # NULL
                        /\ \A j \in SizeOf(put[d]) + 1 .. Len(put[d].cells) : put[d].cells[j] = Undefined
      BY <1>2 DEF HeapOK
    <2>1. CASE d = c
      BY <1>2, <2>1
    <2>2. CASE d # c
      BY <1>2, <1>3, <2>2 DEF HeapOK
    <2> QED
      BY <2>1, <2>2
  <1>5. ASSUME NEW u
        PROVE  Refs(put, u) = Refs(h, u)
    <2>1. \A d \in Container, j \in Nat : <<d, j>> \in Refs(put, u) <=> <<d, j>> \in Refs(h, u)
      BY <1>2 DEF Refs
    <2>2. Refs(put, u) \subseteq Container \X Nat /\ Refs(h, u) \subseteq Container \X Nat
      BY DEF Refs
    <2>3. \A p \in Container \X Nat : p \in Refs(put, u) <=> p \in Refs(h, u)
      BY <2>1
    <2> QED
      BY <2>2, <2>3
  <1>6. Refs(h, c) = {}
    <2> SUFFICES ASSUME NEW p \in Refs(h, c) PROVE FALSE
      OBVIOUS
    <2>1. /\ p[1] \in Container /\ h[p[1]] # NULL
          /\ p[2] \in 1 .. SizeOf(h[p[1]]) /\ h[p[1]].cells[p[2]] = c
      BY DEF Refs
    <2>2. h[p[1]] \in Record /\ p[1] # c
      BY <1>1, <2>1
    <2>3. SizeOf(h[p[1]]) <= Len(h[p[1]].cells)
      BY <2>1 DEF HeapOK
    <2>4. SizeOf(h[p[1]]) \in Nat /\ Len(h[p[1]].cells) \in Nat
      BY <2>2, RecordFields
    <2>5. p[2] \in 1 .. Len(h[p[1]].cells)
      BY <2>1, <2>3, <2>4
    <2> QED
      BY <1>3, <2>1, <2>2, <2>5
  <1>7. CountsOK(put)
    <2> SUFFICES ASSUME NEW u \in Container
                 PROVE  /\ IsFiniteSet(Refs(h, u))
                        /\ put[u] # NULL => put[u].refs = Cardinality(Refs(h, u))
      BY <1>5 DEF CountsOK
    <2>1. CASE u = c
      BY <1>2, <1>6, <2>1, FS_EmptySet
    <2>2. CASE u # c
      BY <1>2, <2>2 DEF CountsOK
    <2> QED
      BY <2>1, <2>2
  <1> QED
    BY <1>4, <1>7 DEF put

---------------------------------------------------------------------------
(* Slots.                                                                  *)

(* The slot of a name is the first that has it, if one does.               *)
LEMMA SlotFacts ==
  ASSUME NEW shape \in Seq(Name), NEW n
  PROVE  /\ SlotIn(shape, n) \in 0 .. Len(shape)
         /\ SlotIn(shape, n) # 0 => shape[SlotIn(shape, n)] = n
         /\ \A j \in 1 .. Len(shape) : shape[j] = n => SlotIn(shape, n) # 0 /\ SlotIn(shape, n) <= j
  <1> DEFINE I == {i \in 1 .. Len(shape) : shape[i] = n}
  <1>1. SlotIn(shape, n) = IF I # {} THEN Min(I) ELSE 0
    BY DEF SlotIn, SelectInSeq
  <1>2. ASSUME I # {}
        PROVE  Min(I) \in I /\ \A j \in I : Min(I) <= j
    <2>1. I \subseteq Nat
      OBVIOUS
    <2> HIDE DEF I
    <2>2. \E x \in I : \A y \in I : x <= y
      BY <1>2, <2>1, LeastNat
    <2> QED
      BY <2>2 DEF Min
  <1>3. CASE I = {}
    BY <1>1, <1>3
  <1>4. CASE I # {}
    <2>1. Min(I) \in 1 .. Len(shape) /\ shape[Min(I)] = n /\ \A j \in 1 .. Len(shape) : shape[j] = n => Min(I) <= j
      BY <1>2, <1>4
    <2>2. SlotIn(shape, n) = Min(I)
      BY <1>1, <1>4
    <2> HIDE DEF I
    <2> QED
      BY <2>1, <2>2
  <1> QED
    BY <1>3, <1>4

(* The child shape has the new key behind the old ones.                    *)
LEMMA SlotAppended ==
  ASSUME NEW shape \in Seq(Name), NEW n \in Name, SlotIn(shape, n) = 0
  PROVE  /\ SlotIn(Append(shape, n), n) = Len(shape) + 1
         /\ \A m \in Name : m # n => SlotIn(Append(shape, n), m) = SlotIn(shape, m)
  <1> DEFINE child == Append(shape, n)
             k == Len(shape)
  <1>1. /\ child \in Seq(Name) /\ k \in Nat /\ Len(child) = k + 1 /\ child[k + 1] = n
        /\ \A j \in 1 .. k : child[j] = shape[j]
    OBVIOUS
  <1> HIDE DEF child
  <1>2. SlotIn(child, n) = k + 1
    <2>1. \A j \in 1 .. k : child[j] # n
      BY <1>1, SlotFacts DEF k
    <2>2. /\ SlotIn(child, n) \in 0 .. k + 1
          /\ SlotIn(child, n) # 0 => child[SlotIn(child, n)] = n
          /\ SlotIn(child, n) # 0
      BY <1>1, SlotFacts
    <2> HIDE DEF k
    <2> QED
      BY <1>1, <2>1, <2>2
  <1>3. ASSUME NEW m \in Name, m # n
        PROVE  SlotIn(child, m) = SlotIn(shape, m)
    <2> DEFINE a == SlotIn(child, m)
               b == SlotIn(shape, m)
    <2>1. /\ a \in 0 .. k + 1
          /\ a # 0 => child[a] = m
          /\ \A j \in 1 .. k + 1 : child[j] = m => a # 0 /\ a <= j
      BY <1>1, SlotFacts
    <2>2. /\ b \in 0 .. k
          /\ b # 0 => shape[b] = m
          /\ \A j \in 1 .. k : shape[j] = m => b # 0 /\ b <= j
      BY SlotFacts
    <2> HIDE DEF a, b, k
    <2>3. a # 0 => a \in 1 .. k /\ shape[a] = m
      BY <1>1, <1>3, <2>1
    <2>4. b # 0 => b \in 1 .. k /\ child[b] = m
      BY <1>1, <2>2
    <2>5. a = b
      BY <1>1, <2>1, <2>2, <2>3, <2>4
    <2> QED
      BY <2>5 DEF a, b
  <1> QED
    BY <1>2, <1>3 DEF child, k

---------------------------------------------------------------------------
(* What containers hold, without slots, capacities and counts.             *)

View(r) ==
  IF r.kind = "array" THEN [item |-> [i \in 1 .. r.length |-> r.cells[i]]]
  ELSE [property |-> [n \in Name |-> IF SlotIn(r.shape, n) = 0 THEN NULL ELSE r.cells[SlotIn(r.shape, n)]]]

ViewIn(h, c) == IF h[c] = NULL THEN NULL ELSE View(h[c])

ViewsOf(h) == [c \in Container |-> ViewIn(h, c)]

(* Counts do not show.                                                     *)
LEMMA LikeViews ==
  ASSUME NEW h \in [Container -> Record \cup {NULL}], NEW h2, HeapLike(h2, h)
  PROVE  ViewsOf(h2) = ViewsOf(h)
  <1> SUFFICES ASSUME NEW c \in Container
               PROVE  ViewIn(h2, c) = ViewIn(h, c)
    BY DEF ViewsOf
  <1>1. CASE h[c] = NULL
    BY <1>1 DEF HeapLike, ViewIn
  <1>2. CASE h[c] # NULL
    <2>1. h2[c] # NULL /\ Like(h2[c], h[c]) /\ h[c].kind \in {"array", "object"}
      BY <1>2, RecordFields DEF HeapLike
    <2>2. View(h2[c]) = View(h[c])
      BY <2>1 DEF Like, View
    <2> QED
      BY <1>2, <2>1, <2>2 DEF ViewIn
  <1> QED
    BY <1>1, <1>2

(* Writing one container changes one view.                                 *)
LEMMA PutViews ==
  ASSUME NEW h \in [Container -> Record \cup {NULL}], NEW c \in Container, NEW s \in Record
  PROVE  ViewsOf(Put(h, c, s)) = [ViewsOf(h) EXCEPT ![c] = View(s)]
  <1>1. /\ Put(h, c, s)[c] = s /\ s # NULL
        /\ \A d \in Container : d # c => Put(h, c, s)[d] = h[d]
    BY RecordFields DEF Put
  <1> QED
    BY <1>1 DEF ViewsOf, ViewIn

\* The records SetItem and SetProperty leave behind.
ArraySet(r, i, v) ==
  [r EXCEPT !.cells = [WithRoom(@, i + 1) EXCEPT ![i + 1] = v],
            !.length = IF i >= @ THEN i + 1 ELSE @]

SlotSet(r, k, v) == [r EXCEPT !.cells[k] = v]

SlotAdded(r, n, v) ==
  [r EXCEPT !.shape = Append(@, n),
            !.cells = [WithRoom(@, Len(r.shape) + 1) EXCEPT ![Len(r.shape) + 1] = v]]

(* arr_set is an array written at i + 1, and reads back as a list set at i.*)
LEMMA ArrayWritten ==
  ASSUME NEW r \in ArrayRecord, r.length <= Len(r.cells),
         \A j \in r.length + 1 .. Len(r.cells) : r.cells[j] = Undefined,
         NEW i \in Nat, NEW v \in Value
  PROVE  /\ ArraySet(r, i, v) \in ArrayRecord
         /\ Wrote(r, ArraySet(r, i, v), i + 1, v)
         /\ View(ArraySet(r, i, v)) =
              [item |-> [k \in 1 .. (IF i < r.length THEN r.length ELSE i + 1) |->
                 IF k = i + 1 THEN v ELSE IF k <= r.length THEN r.cells[k] ELSE Undefined]]
  <1> DEFINE s == ArraySet(r, i, v)
             w == [WithRoom(r.cells, i + 1) EXCEPT ![i + 1] = v]
             m == IF i >= r.length THEN i + 1 ELSE r.length
  <1>1. r.kind = "array" /\ r.length \in Nat /\ r.cells \in Seq(Value) /\ r.refs \in Int /\ r \in Record
    BY DEF ArrayRecord, Record
  <1>2. w \in Seq(Value)
    <2>1. WithRoom(r.cells, i + 1) \in Seq(Value) /\ Len(WithRoom(r.cells, i + 1)) >= i + 1
      BY <1>1, ValuesRoom
    <2> QED
      BY <2>1
  <1>3. s = [r EXCEPT !.cells = w, !.length = m]
    BY DEF ArraySet
  <1> HIDE DEF s, w
  <1>4. s.kind = "array" /\ s.length = m /\ s.cells = w /\ s.refs = r.refs /\ s \in ArrayRecord
    <2>1. m \in Nat
      BY <1>1
    <2> HIDE DEF m
    <2> QED
      BY <1>1, <1>2, <1>3, <2>1 DEF ArrayRecord
  <1>5. SizeOf(s) = m /\ SizeOf(r) = r.length /\ s \in Record
    BY <1>1, <1>4 DEF SizeOf, Record
  <1>6. Wrote(r, s, i + 1, v)
    BY <1>1, <1>4, <1>5 DEF Wrote, w
  <1>7. /\ i + 1 <= m /\ s.cells[i + 1] = v /\ m <= Len(s.cells)
        /\ \A j \in 1 .. r.length : j # i + 1 => s.cells[j] = r.cells[j]
        /\ \A j \in r.length + 1 .. Len(s.cells) : j # i + 1 => s.cells[j] = Undefined
    <2>1. SizeOf(r) <= Len(r.cells) /\ \A j \in SizeOf(r) + 1 .. Len(r.cells) : r.cells[j] = Undefined
      BY <1>5
    <2>2. i + 1 \in Nat \ {0}
      OBVIOUS
    <2>3. /\ i + 1 <= SizeOf(s) /\ SizeOf(s) <= Len(s.cells)
          /\ s.cells[i + 1] = v
          /\ \A j \in 1 .. SizeOf(r) : j # i + 1 => s.cells[j] = r.cells[j]
          /\ \A j \in SizeOf(r) + 1 .. Len(s.cells) : j # i + 1 => s.cells[j] = Undefined
      BY <1>1, <1>5, <1>6, <2>1, <2>2, CellWritten
    <2> QED
      BY <1>5, <2>3
  <1>8. View(s) = [item |-> [k \in 1 .. m |-> s.cells[k]]]
    BY <1>4 DEF View
  <1>9. ASSUME NEW k \in 1 .. m
        PROVE  s.cells[k] = IF k = i + 1 THEN v ELSE IF k <= r.length THEN r.cells[k] ELSE Undefined
    BY <1>1, <1>4, <1>7
  <1>10. m = IF i < r.length THEN r.length ELSE i + 1
    BY <1>1
  <1> HIDE DEF m
  <1>11. View(s) = [item |-> [k \in 1 .. m |->
                      IF k = i + 1 THEN v ELSE IF k <= r.length THEN r.cells[k] ELSE Undefined]]
    BY <1>8, <1>9
  <1> QED
    BY <1>4, <1>6, <1>10, <1>11 DEF s

WithProperty(view, n, v) == [view EXCEPT !.property[n] = v]

(* obj_set of a property there is writes its slot.                         *)
LEMMA SlotWritten ==
  ASSUME NEW r \in ObjectRecord, Len(r.shape) <= Len(r.cells),
         NEW n \in Name, SlotIn(r.shape, n) # 0, NEW v \in Value
  PROVE  /\ SlotSet(r, SlotIn(r.shape, n), v) \in ObjectRecord
         /\ Wrote(r, SlotSet(r, SlotIn(r.shape, n), v), SlotIn(r.shape, n), v)
         /\ Replaced(r, SlotIn(r.shape, n)) = r.cells[SlotIn(r.shape, n)]
         /\ View(SlotSet(r, SlotIn(r.shape, n), v)) = WithProperty(View(r), n, v)
  <1> DEFINE k == SlotIn(r.shape, n)
             s == SlotSet(r, k, v)
  <1>1. r.kind = "object" /\ r.shape \in Seq(Name) /\ r.cells \in Seq(Value) /\ r.refs \in Int
    BY DEF ObjectRecord
  <1>2. k \in 1 .. Len(r.shape) /\ r.shape[k] = n
    BY <1>1, SlotFacts
  <1>3. \A m \in Name : m # n => SlotIn(r.shape, m) # k
    BY <1>1, <1>2, SlotFacts
  <1> HIDE DEF k
  <1>4. k \in 1 .. Len(r.cells) /\ k \in Nat \ {0}
    BY <1>1, <1>2
  <1>5. /\ s.kind = "object" /\ s.shape = r.shape /\ s.cells = [r.cells EXCEPT ![k] = v] /\ s.refs = r.refs
        /\ s \in ObjectRecord
    <2>1. [r.cells EXCEPT ![k] = v] \in Seq(Value)
      BY <1>1, <1>4
    <2>2. s = [r EXCEPT !.cells = [r.cells EXCEPT ![k] = v]]
      BY DEF SlotSet
    <2> HIDE DEF s
    <2> QED
      BY <1>1, <2>1, <2>2 DEF ObjectRecord
  <1> HIDE DEF s
  <1>6. WithRoom(r.cells, k) = r.cells
    BY <1>1, <1>4 DEF WithRoom
  <1>7. Wrote(r, s, k, v)
    BY <1>1, <1>2, <1>5, <1>6 DEF Wrote, SizeOf
  <1>8. View(s) = [View(r) EXCEPT !.property[n] = v]
    <2>1. /\ View(s) = [property |-> [m \in Name |-> IF SlotIn(r.shape, m) = 0 THEN NULL ELSE s.cells[SlotIn(r.shape, m)]]]
          /\ View(r) = [property |-> [m \in Name |-> IF SlotIn(r.shape, m) = 0 THEN NULL ELSE r.cells[SlotIn(r.shape, m)]]]
      BY <1>1, <1>5 DEF View
    <2>2. \A m \in Name : SlotIn(r.shape, m) # 0 => SlotIn(r.shape, m) \in 1 .. Len(r.cells)
      BY <1>1, SlotFacts
    <2>3. ASSUME NEW m \in Name
          PROVE  (IF SlotIn(r.shape, m) = 0 THEN NULL ELSE s.cells[SlotIn(r.shape, m)])
                   = IF m = n THEN v ELSE IF SlotIn(r.shape, m) = 0 THEN NULL ELSE r.cells[SlotIn(r.shape, m)]
      <3>1. CASE m = n
        BY <1>1, <1>4, <1>5, <3>1 DEF k
      <3>2. CASE m # n /\ SlotIn(r.shape, m) # 0
        BY <1>1, <1>3, <1>5, <2>2, <3>2
      <3>3. CASE m # n /\ SlotIn(r.shape, m) = 0
        BY <3>3
      <3> QED
        BY <3>1, <3>2, <3>3
    <2> QED
      BY <2>1, <2>3
  <1> QED
    BY <1>5, <1>6, <1>7, <1>8 DEF k, s, Replaced, WithProperty

(* obj_set of a new property gives the object the child shape and writes   *)
(* the slot behind the others.                                             *)
LEMMA SlotAddedTo ==
  ASSUME NEW r \in ObjectRecord, Len(r.shape) <= Len(r.cells),
         \A j \in Len(r.shape) + 1 .. Len(r.cells) : r.cells[j] = Undefined,
         NEW n \in Name, SlotIn(r.shape, n) = 0, NEW v \in Value
  PROVE  /\ SlotAdded(r, n, v) \in ObjectRecord
         /\ Wrote(r, SlotAdded(r, n, v), Len(r.shape) + 1, v)
         /\ Replaced(r, Len(r.shape) + 1) = Undefined
         /\ View(SlotAdded(r, n, v)) = [View(r) EXCEPT !.property[n] = v]
  <1> DEFINE k == Len(r.shape) + 1
             s == SlotAdded(r, n, v)
             w == [WithRoom(r.cells, k) EXCEPT ![k] = v]
  <1>1. /\ r.kind = "object" /\ r.shape \in Seq(Name) /\ r.cells \in Seq(Value) /\ r.refs \in Int /\ r \in Record
        /\ Len(r.shape) \in Nat
    BY DEF ObjectRecord, Record
  <1>2. k \in Nat \ {0}
    BY <1>1
  <1>3. w \in Seq(Value)
    <2>1. WithRoom(r.cells, k) \in Seq(Value) /\ Len(WithRoom(r.cells, k)) >= k
      BY <1>1, <1>2, ValuesRoom
    <2> QED
      BY <2>1
  <1>4. s = [r EXCEPT !.shape = Append(r.shape, n), !.cells = w]
    BY DEF SlotAdded
  <1> HIDE DEF s, w
  <1>5. /\ s.kind = "object" /\ s.shape = Append(r.shape, n) /\ s.cells = w /\ s.refs = r.refs
        /\ s \in ObjectRecord
    <2>1. Append(r.shape, n) \in Seq(Name)
      BY <1>1
    <2> QED
      BY <1>1, <1>3, <1>4, <2>1 DEF ObjectRecord
  <1>6. SizeOf(s) = k /\ SizeOf(r) = Len(r.shape) /\ s \in Record
    BY <1>1, <1>5 DEF SizeOf, Record
  <1>7. Wrote(r, s, k, v)
    BY <1>1, <1>5, <1>6 DEF Wrote, w
  <1>8. /\ s.cells[k] = v
        /\ Replaced(r, k) = Undefined
        /\ \A j \in 1 .. Len(r.shape) : j # k => s.cells[j] = r.cells[j]
    <2>1. SizeOf(r) <= Len(r.cells) /\ \A j \in SizeOf(r) + 1 .. Len(r.cells) : r.cells[j] = Undefined
      BY <1>6
    <2>2. /\ s.cells[k] = v
          /\ Replaced(r, k) = IF k <= SizeOf(r) THEN r.cells[k] ELSE Undefined
          /\ \A j \in 1 .. SizeOf(r) : j # k => s.cells[j] = r.cells[j]
      <3> HIDE DEF k
      <3> QED
        BY <1>1, <1>2, <1>6, <1>7, <2>1, CellWritten
    <2> QED
      BY <1>1, <1>6, <2>2
  <1>9. View(s) = [View(r) EXCEPT !.property[n] = v]
    <2>1. /\ SlotIn(s.shape, n) = k
          /\ \A m \in Name : m # n => SlotIn(s.shape, m) = SlotIn(r.shape, m)
      BY <1>1, <1>5, SlotAppended
    <2>2. \A m \in Name : SlotIn(r.shape, m) # 0 => SlotIn(r.shape, m) \in 1 .. Len(r.shape)
      BY <1>1, SlotFacts
    <2>3. /\ View(s) = [property |-> [m \in Name |-> IF SlotIn(s.shape, m) = 0 THEN NULL ELSE s.cells[SlotIn(s.shape, m)]]]
          /\ View(r) = [property |-> [m \in Name |-> IF SlotIn(r.shape, m) = 0 THEN NULL ELSE r.cells[SlotIn(r.shape, m)]]]
      BY <1>1, <1>5 DEF View
    <2>4. ASSUME NEW m \in Name
          PROVE  (IF SlotIn(s.shape, m) = 0 THEN NULL ELSE s.cells[SlotIn(s.shape, m)])
                   = IF m = n THEN v ELSE IF SlotIn(r.shape, m) = 0 THEN NULL ELSE r.cells[SlotIn(r.shape, m)]
      <3>1. CASE m = n
        BY <1>2, <1>8, <2>1, <3>1
      <3>2. CASE m # n /\ SlotIn(r.shape, m) # 0
        BY <1>1, <1>8, <2>1, <2>2, <3>2
      <3>3. CASE m # n /\ SlotIn(r.shape, m) = 0
        BY <2>1, <3>3
      <3> QED
        BY <3>1, <3>2, <3>3
    <2> QED
      BY <2>3, <2>4
  <1> QED
    BY <1>5, <1>7, <1>8, <1>9 DEF s

---------------------------------------------------------------------------
(* Steps, over the heap before and after.                                  *)

\* What a call leaves: a heap in order, with one view changed at most.
CallLeaves(h2, views) == HeapOK(h2) /\ CountsOK(h2) /\ ViewsOf(h2) = views

(* One container is written and references exchanged: one view changes.    *)
LEMMA WriteLeaves ==
  ASSUME NEW h, HeapOK(h), CountsOK(h), NEW c \in Container, h[c] # NULL,
         NEW i \in Nat \ {0}, NEW v \in Value, v \in Container => h[v] # NULL,
         NEW s \in Record, Wrote(h[c], s, i, v)
  PROVE  CallLeaves(Exchanged(Put(h, c, s), Replaced(h[c], i), v), [ViewsOf(h) EXCEPT ![c] = View(s)])
  <1>1. /\ HeapOK(Exchanged(Put(h, c, s), Replaced(h[c], i), v))
        /\ CountsOK(Exchanged(Put(h, c, s), Replaced(h[c], i), v))
        /\ HeapLike(Exchanged(Put(h, c, s), Replaced(h[c], i), v), Put(h, c, s))
    BY PutCell
  <1>2. h \in [Container -> Record \cup {NULL}]
    BY DEF HeapOK
  <1>3. Put(h, c, s) \in [Container -> Record \cup {NULL}]
    BY <1>2 DEF Put
  <1>4. ViewsOf(Put(h, c, s)) = [ViewsOf(h) EXCEPT ![c] = View(s)]
    BY <1>2, PutViews
  <1> QED
    BY <1>1, <1>3, <1>4, LikeViews DEF CallLeaves

\* A step of Containers, over the contents before and after.
Made(m, m2, c) ==
  m[c] = NULL /\ m2 \in {[m EXCEPT ![c] = [property |-> [n \in Name |-> NULL]]], [m EXCEPT ![c] = [item |-> <<>>]]}

PropertySet(m, m2, c, n, v) ==
  /\ m[c] # NULL /\ "property" \in DOMAIN m[c]
  /\ m2 = Plain!WithProperty(m, c, n, v)

ItemSet(m, m2, c, i, v) ==
  /\ m[c] # NULL /\ "item" \in DOMAIN m[c]
  /\ m2 = Plain!WithItemOf(m, c, i, v)

(* What an array and an object show is told apart.                         *)
LEMMA ViewKinds ==
  ASSUME NEW r \in Record, SizeOf(r) <= Len(r.cells)
  PROVE  /\ View(r) # NULL
         /\ r.kind = "array" => "item" \in DOMAIN View(r) /\ View(r).item = [i \in 1 .. r.length |-> r.cells[i]]
         /\ r.kind = "object" => "property" \in DOMAIN View(r)
  <1>1. CASE r.kind = "array"
    <2>1. r.length \in Nat /\ r.cells \in Seq(Value) /\ r.length <= Len(r.cells)
      BY <1>1, RecordFields DEF ArrayRecord, SizeOf
    <2> DEFINE items == [i \in 1 .. r.length |-> r.cells[i]]
    <2>2. items \in Seq(Value)
      BY <2>1
    <2>3. View(r) = [item |-> items]
      BY <1>1 DEF View
    <2> HIDE DEF items
    <2>4. View(r) \in [item : Seq(Value)]
      BY <2>2, <2>3
    <2>5. View(r) # NULL
      BY <2>4, NullAssumption
    <2>6. "item" \in DOMAIN View(r) /\ View(r).item = items
      BY <2>3
    <2> QED
      BY <1>1, <2>5, <2>6 DEF items
  <1>2. CASE r.kind = "object"
    <2>1. r.shape \in Seq(Name) /\ r.cells \in Seq(Value) /\ Len(r.shape) <= Len(r.cells)
      BY <1>2, RecordFields DEF ObjectRecord, SizeOf
    <2> DEFINE map == [n \in Name |-> IF SlotIn(r.shape, n) = 0 THEN NULL ELSE r.cells[SlotIn(r.shape, n)]]
    <2>2. \A n \in Name : SlotIn(r.shape, n) # 0 => r.cells[SlotIn(r.shape, n)] \in Value
      BY <2>1, SlotFacts
    <2>3. map \in [Name -> Value \cup {NULL}]
      BY <2>2
    <2>4. View(r) = [property |-> map]
      BY <1>2 DEF View
    <2> HIDE DEF map
    <2>5. View(r) \in [property : [Name -> Value \cup {NULL}]]
      BY <2>3, <2>4
    <2> QED
      BY <1>2, <2>4, <2>5, NullAssumption
  <1> QED
    BY <1>1, <1>2, RecordFields

\* What a host can pass.
Usable(h, v) == v \in Value /\ (v \in Container => h[v] # NULL)

(* arr_set.                                                                *)
LEMMA SetItemLeaves ==
  ASSUME NEW h, HeapOK(h), CountsOK(h), NEW a \in Container, h[a] # NULL, h[a].kind = "array",
         NEW i \in Index, i >= 0, NEW v, Usable(h, v)
  PROVE  LET h2 == Exchanged(Put(h, a, ArraySet(h[a], i, v)), Replaced(h[a], i + 1), v)
         IN  HeapOK(h2) /\ CountsOK(h2) /\ ItemSet(ViewsOf(h), ViewsOf(h2), a, i, v)
  <1> DEFINE s == ArraySet(h[a], i, v)
             h2 == Exchanged(Put(h, a, s), Replaced(h[a], i + 1), v)
  <1>1. h[a] \in ArrayRecord /\ h[a] \in Record /\ SizeOf(h[a]) = h[a].length
    BY RecordFields DEF HeapOK, SizeOf
  <1>2. /\ SizeOf(h[a]) <= Len(h[a].cells)
        /\ \A j \in SizeOf(h[a]) + 1 .. Len(h[a].cells) : h[a].cells[j] = Undefined
    BY DEF HeapOK
  <1>3. i \in Nat /\ i + 1 \in Nat \ {0} /\ v \in Value /\ (v \in Container => h[v] # NULL)
    BY ValuesAssumption DEF Usable
  <1>4. /\ s \in ArrayRecord
        /\ Wrote(h[a], s, i + 1, v)
        /\ View(s) = [item |-> [k \in 1 .. (IF i < h[a].length THEN h[a].length ELSE i + 1) |->
                        IF k = i + 1 THEN v ELSE IF k <= h[a].length THEN h[a].cells[k] ELSE Undefined]]
    <2>1. h[a].length <= Len(h[a].cells) /\ \A j \in h[a].length + 1 .. Len(h[a].cells) : h[a].cells[j] = Undefined
      BY <1>1, <1>2
    <2> QED
      BY <1>1, <1>3, <2>1, ArrayWritten
  <1>5. s \in Record
    BY <1>4 DEF Record
  <1> HIDE DEF s
  <1>6. CallLeaves(h2, [ViewsOf(h) EXCEPT ![a] = View(s)])
    BY <1>3, <1>4, <1>5, WriteLeaves
  <1> HIDE DEF h2
  <1>7. /\ ViewsOf(h)[a] # NULL /\ "item" \in DOMAIN ViewsOf(h)[a]
        /\ ViewsOf(h)[a] = [item |-> [k \in 1 .. h[a].length |-> h[a].cells[k]]]
    <2>1. ViewsOf(h)[a] = View(h[a])
      BY DEF ViewsOf, ViewIn
    <2>2. View(h[a]) = [item |-> [k \in 1 .. h[a].length |-> h[a].cells[k]]]
      BY DEF View
    <2> QED
      BY <1>1, <1>2, <2>1, <2>2, ViewKinds
  <1>8. [ViewsOf(h) EXCEPT ![a] = View(s)] = [ViewsOf(h) EXCEPT ![a].item = Plain!WithItem(@, i, v)]
    <2> DEFINE list == [k \in 1 .. h[a].length |-> h[a].cells[k]]
    <2>1. h[a].length \in Nat
      BY <1>1 DEF ArrayRecord
    <2>2. Len(list) = h[a].length /\ \A k \in 1 .. h[a].length : list[k] = h[a].cells[k]
      BY <2>1
    <2> HIDE DEF list
    <2>3. Plain!WithItem(list, i, v) =
             [k \in 1 .. (IF i < h[a].length THEN h[a].length ELSE i + 1) |->
                IF k = i + 1 THEN v ELSE IF k <= h[a].length THEN h[a].cells[k] ELSE Undefined]
      <3> DEFINE m == IF i < h[a].length THEN h[a].length ELSE i + 1
      <3>1. m \in Nat
        BY <1>3, <2>1
      <3>2. Plain!WithItem(list, i, v) = [k \in 1 .. m |-> IF k = i + 1 THEN v ELSE IF k <= h[a].length THEN list[k] ELSE Undefined]
        BY <2>2 DEF Plain!WithItem
      <3> HIDE DEF m
      <3>3. \A k \in 1 .. m : k <= h[a].length => list[k] = h[a].cells[k]
        BY <2>1, <2>2, <3>1
      <3>4. Plain!WithItem(list, i, v) = [k \in 1 .. m |-> IF k = i + 1 THEN v ELSE IF k <= h[a].length THEN h[a].cells[k] ELSE Undefined]
        BY <3>2, <3>3
      <3> QED
        BY <3>4 DEF m
    <2>4. View(s) = [item |-> Plain!WithItem(list, i, v)]
      BY <1>4, <2>3
    <2>5. ViewsOf(h)[a] = [item |-> list]
      BY <1>7 DEF list
    <2>6. [[item |-> list] EXCEPT !.item = Plain!WithItem(@, i, v)] = [item |-> Plain!WithItem(list, i, v)]
      OBVIOUS
    <2> QED
      BY <2>4, <2>5, <2>6
  <1> QED
    BY <1>6, <1>7, <1>8 DEF CallLeaves, ItemSet, Plain!WithItemOf, h2, s

(* obj_set.                                                                *)
LEMMA SetSlotLeaves ==
  ASSUME NEW h, HeapOK(h), CountsOK(h), NEW o \in Container, h[o] # NULL, h[o].kind = "object",
         NEW n \in Name, SlotIn(h[o].shape, n) # 0, NEW v, Usable(h, v)
  PROVE  LET k  == SlotIn(h[o].shape, n)
             h2 == Exchanged(Put(h, o, SlotSet(h[o], k, v)), h[o].cells[k], v)
         IN  HeapOK(h2) /\ CountsOK(h2) /\ PropertySet(ViewsOf(h), ViewsOf(h2), o, n, v)
  <1> DEFINE k == SlotIn(h[o].shape, n)
             s == SlotSet(h[o], k, v)
             h2 == Exchanged(Put(h, o, s), h[o].cells[k], v)
  <1>1. h[o] \in ObjectRecord /\ h[o] \in Record /\ SizeOf(h[o]) = Len(h[o].shape)
    BY RecordFields DEF HeapOK, SizeOf
  <1>2. SizeOf(h[o]) <= Len(h[o].cells)
    BY DEF HeapOK
  <1>3. k \in Nat \ {0}
    BY <1>1, SlotFacts DEF ObjectRecord
  <1>4. v \in Value /\ (v \in Container => h[v] # NULL)
    BY DEF Usable
  <1>5. /\ s \in ObjectRecord
        /\ Wrote(h[o], s, k, v)
        /\ Replaced(h[o], k) = h[o].cells[k]
        /\ View(s) = WithProperty(View(h[o]), n, v)
    <2>1. Len(h[o].shape) <= Len(h[o].cells)
      BY <1>1, <1>2
    <2> QED
      BY <1>1, <1>4, <2>1, SlotWritten
  <1>6. s \in Record
    BY <1>5 DEF Record
  <1> HIDE DEF s, k
  <1>7. CallLeaves(h2, [ViewsOf(h) EXCEPT ![o] = View(s)])
    <2>1. CallLeaves(Exchanged(Put(h, o, s), Replaced(h[o], k), v), [ViewsOf(h) EXCEPT ![o] = View(s)])
      BY <1>3, <1>4, <1>5, <1>6, WriteLeaves
    <2> QED
      BY <1>5, <2>1
  <1> HIDE DEF h2
  <1>8. ViewsOf(h)[o] = View(h[o]) /\ View(h[o]) # NULL /\ "property" \in DOMAIN View(h[o])
    BY <1>1, <1>2, ViewKinds DEF ViewsOf, ViewIn
  <1>9. [ViewsOf(h) EXCEPT ![o] = View(s)] = [ViewsOf(h) EXCEPT ![o].property[n] = v]
    BY <1>5, <1>8 DEF WithProperty
  <1> QED
    BY <1>7, <1>8, <1>9 DEF CallLeaves, PropertySet, Plain!WithProperty, h2, s, k

(* obj_set of a name the object has not.                                   *)
LEMMA AddSlotLeaves ==
  ASSUME NEW h, HeapOK(h), CountsOK(h), NEW o \in Container, h[o] # NULL, h[o].kind = "object",
         NEW n \in Name, SlotIn(h[o].shape, n) = 0, NEW v, Usable(h, v)
  PROVE  LET h2 == Counted(Put(h, o, SlotAdded(h[o], n, v)), v, 1)
         IN  HeapOK(h2) /\ CountsOK(h2) /\ PropertySet(ViewsOf(h), ViewsOf(h2), o, n, v)
  <1> DEFINE s == SlotAdded(h[o], n, v)
             k == Len(h[o].shape) + 1
             h2 == Counted(Put(h, o, s), v, 1)
  <1>1. h[o] \in ObjectRecord /\ h[o] \in Record /\ SizeOf(h[o]) = Len(h[o].shape)
    BY RecordFields DEF HeapOK, SizeOf
  <1>2. /\ SizeOf(h[o]) <= Len(h[o].cells)
        /\ \A j \in SizeOf(h[o]) + 1 .. Len(h[o].cells) : h[o].cells[j] = Undefined
    BY DEF HeapOK
  <1>3. k \in Nat \ {0}
    BY <1>1 DEF ObjectRecord
  <1>4. v \in Value /\ (v \in Container => h[v] # NULL)
    BY DEF Usable
  <1>5. /\ s \in ObjectRecord
        /\ Wrote(h[o], s, k, v)
        /\ Replaced(h[o], k) = Undefined
        /\ View(s) = [View(h[o]) EXCEPT !.property[n] = v]
    <2>1. Len(h[o].shape) <= Len(h[o].cells) /\ \A j \in Len(h[o].shape) + 1 .. Len(h[o].cells) : h[o].cells[j] = Undefined
      BY <1>1, <1>2
    <2> QED
      BY <1>1, <1>4, <2>1, SlotAddedTo
  <1>6. s \in Record
    BY <1>5 DEF Record
  <1> HIDE DEF s, k
  <1>7. CallLeaves(h2, [ViewsOf(h) EXCEPT ![o] = View(s)])
    <2>1. CallLeaves(Exchanged(Put(h, o, s), Undefined, v), [ViewsOf(h) EXCEPT ![o] = View(s)])
      BY <1>3, <1>4, <1>5, <1>6, WriteLeaves
    <2>2. Undefined \notin Container
      BY AddressAssumption DEF Leaf
    <2>3. Exchanged(Put(h, o, s), Undefined, v) = h2
      BY <2>2 DEF Exchanged, Counted
    <2> QED
      BY <2>1, <2>3
  <1> HIDE DEF h2
  <1>8. ViewsOf(h)[o] = View(h[o]) /\ View(h[o]) # NULL /\ "property" \in DOMAIN View(h[o])
    BY <1>1, <1>2, ViewKinds DEF ViewsOf, ViewIn
  <1>9. [ViewsOf(h) EXCEPT ![o] = View(s)] = [ViewsOf(h) EXCEPT ![o].property[n] = v]
    BY <1>5, <1>8
  <1> QED
    BY <1>7, <1>8, <1>9 DEF CallLeaves, PropertySet, Plain!WithProperty, h2, s

(* jsonv_value_new_object and jsonv_value_new_array.                       *)
LEMMA NewLeaves ==
  ASSUME NEW h, HeapOK(h), CountsOK(h), NEW c \in Container, h[c] = NULL,
         NEW empty \in {[kind |-> "object", shape |-> <<>>, cells |-> <<>>, refs |-> 0],
                        [kind |-> "array", length |-> 0, cells |-> <<>>, refs |-> 0]}
  PROVE  HeapOK(Put(h, c, empty)) /\ CountsOK(Put(h, c, empty)) /\ Made(ViewsOf(h), ViewsOf(Put(h, c, empty)), c)
  <1>1. empty \in Record /\ SizeOf(empty) = 0 /\ empty.cells = <<>> /\ empty.refs = 0
    <2> DEFINE object == [kind |-> "object", shape |-> <<>>, cells |-> <<>>, refs |-> 0]
               array == [kind |-> "array", length |-> 0, cells |-> <<>>, refs |-> 0]
    <2>1. CASE empty = object
      <3>1. <<>> \in Seq(Name) /\ <<>> \in Seq(Value) /\ Len(<<>>) = 0
        OBVIOUS
      <3>2. object \in ObjectRecord
        BY <3>1 DEF ObjectRecord
      <3>3. SizeOf(object) = 0 /\ object.cells = <<>> /\ object.refs = 0
        BY <3>1 DEF SizeOf
      <3> HIDE DEF object
      <3> QED
        BY <2>1, <3>2, <3>3 DEF Record
    <2>2. CASE empty = array
      <3>1. <<>> \in Seq(Value)
        OBVIOUS
      <3>2. array \in ArrayRecord
        BY <3>1 DEF ArrayRecord
      <3>3. SizeOf(array) = 0 /\ array.cells = <<>> /\ array.refs = 0
        BY DEF SizeOf
      <3> HIDE DEF array
      <3> QED
        BY <2>2, <3>2, <3>3 DEF Record
    <2> QED
      BY <2>1, <2>2
  <1>2. HeapOK(Put(h, c, empty)) /\ CountsOK(Put(h, c, empty))
    BY <1>1, NewKeeps
  <1>3. h \in [Container -> Record \cup {NULL}]
    BY DEF HeapOK
  <1>4. ViewsOf(Put(h, c, empty)) = [ViewsOf(h) EXCEPT ![c] = View(empty)]
    BY <1>1, <1>3, PutViews
  <1>5. ViewsOf(h)[c] = NULL
    BY DEF ViewsOf, ViewIn
  <1>6. View(empty) \in {[property |-> [n \in Name |-> NULL]], [item |-> <<>>]}
    <2>1. CASE empty.kind = "object"
      <3>1. empty.shape = <<>>
        BY <2>1
      <3>2. \A n \in Name : SlotIn(empty.shape, n) = 0
        <4>1. <<>> \in Seq(Name) /\ Len(<<>>) = 0
          OBVIOUS
        <4>2. \A n : SlotIn(<<>>, n) \in 0 .. 0
          BY <4>1, SlotFacts
        <4> QED
          BY <3>1, <4>2
      <3> QED
        BY <2>1, <3>2 DEF View
    <2>2. CASE empty.kind = "array"
      <3>1. empty.length = 0
        BY <2>2
      <3>2. [i \in 1 .. 0 |-> empty.cells[i]] = <<>>
        OBVIOUS
      <3> QED
        BY <2>2, <3>1, <3>2 DEF View
    <2> QED
      BY <2>1, <2>2
  <1> QED
    BY <1>2, <1>4, <1>5, <1>6 DEF Made

---------------------------------------------------------------------------
(* The invariant.                                                          *)

(* What a host knows it can pass.                                          *)
LEMMA KnownUsable ==
  ASSUME NEW v \in Known
  PROVE  Usable(heap, v)
  BY AddressAssumption DEF Known, Usable, Value

(* There are no containers at first.                                       *)
LEMMA InitValuesInv == ValuesInit => ValuesInv
  <1> SUFFICES ASSUME ValuesInit PROVE ValuesInv
    OBVIOUS
  <1>1. heap = [c \in Container |-> NULL] /\ status = "running"
    BY DEF ValuesInit
  <1>2. HeapOK(heap)
    BY <1>1 DEF HeapOK
  <1>3. \A v : Refs(heap, v) = {}
    BY <1>1 DEF Refs
  <1>4. CountsOK(heap)
    BY <1>1, <1>3, FS_EmptySet DEF CountsOK
  <1> QED
    BY <1>1, <1>2, <1>4 DEF ValuesInv

\* What a step of the values is for Containers.
ContainersStep(m, m2) ==
  \/ m2 = m
  \/ \E c \in Container : Made(m, m2, c)
  \/ \E c \in Container, n \in Name, v \in Value : PropertySet(m, m2, c, n, v)
  \/ \E c \in Container, i \in Index \cap Nat, v \in Value : ItemSet(m, m2, c, i, v)

(* Each call keeps the invariant, and is a step of Containers or none.     *)
LEMMA NextLeaves ==
  ASSUME ValuesInv, ValuesNext
  PROVE  ValuesInv' /\ ContainersStep(ViewsOf(heap), ViewsOf(heap'))
  <1> USE DEF ValuesInv
  <1>1. heap \in [Container -> Record \cup {NULL}]
    BY DEF HeapOK
  <1>2. CASE UNCHANGED heap /\ status' \in {"running", "wrotePast"}
    BY <1>2 DEF ContainersStep, HeapOK, CountsOK, Refs
  <1>3. ASSUME NEW c \in Container, NewObject(c) \/ NewArray(c)
        PROVE  ValuesInv' /\ ContainersStep(ViewsOf(heap), ViewsOf(heap'))
    <2>1. PICK empty \in {[kind |-> "object", shape |-> <<>>, cells |-> <<>>, refs |-> 0],
                          [kind |-> "array", length |-> 0, cells |-> <<>>, refs |-> 0]} :
            heap[c] = NULL /\ heap' = Put(heap, c, empty) /\ status' = status
      BY <1>3 DEF NewObject, NewArray, NewContainer, Put
    <2>2. /\ HeapOK(Put(heap, c, empty)) /\ CountsOK(Put(heap, c, empty))
          /\ Made(ViewsOf(heap), ViewsOf(Put(heap, c, empty)), c)
      BY <2>1, NewLeaves
    <2> QED
      BY <2>1, <2>2 DEF ContainersStep
  <1>4. ASSUME NEW a \in Container, IsArray(a), NEW i \in Index, NEW v \in Known, SetItem(a, i, v)
        PROVE  ValuesInv' /\ ContainersStep(ViewsOf(heap), ViewsOf(heap'))
    <2>1. CASE UNCHANGED heap /\ status' \in {status, "wrotePast"}
      BY <1>2, <2>1
    <2>2. CASE /\ i >= 0
               /\ heap' = Exchanged([heap EXCEPT ![a].cells = [WithRoom(@, i + 1) EXCEPT ![i + 1] = v],
                                                 ![a].length = IF i >= @ THEN i + 1 ELSE @],
                                    WithRoom(heap[a].cells, i + 1)[i + 1], v)
               /\ UNCHANGED status
      <3>1. heap[a] # NULL /\ heap[a].kind = "array"
        BY <1>4 DEF IsArray
      <3>2. [heap EXCEPT ![a].cells = [WithRoom(@, i + 1) EXCEPT ![i + 1] = v],
                         ![a].length = IF i >= @ THEN i + 1 ELSE @] = Put(heap, a, ArraySet(heap[a], i, v))
        BY <1>1 DEF Put, ArraySet
      <3>3. heap' = Exchanged(Put(heap, a, ArraySet(heap[a], i, v)), Replaced(heap[a], i + 1), v)
        BY <2>2, <3>2 DEF Replaced
      <3>4. Usable(heap, v)
        BY KnownUsable
      <3>5. HeapOK(heap') /\ CountsOK(heap') /\ ItemSet(ViewsOf(heap), ViewsOf(heap'), a, i, v)
        BY <2>2, <3>1, <3>3, <3>4, SetItemLeaves
      <3>6. i \in Index \cap Nat /\ v \in Value
        BY <2>2, <3>4, ValuesAssumption DEF Usable
      <3> QED
        BY <2>2, <3>5, <3>6 DEF ContainersStep
    <2> QED
      BY <1>4, <2>1, <2>2 DEF SetItem, WritePast, valueVars
  <1>5. ASSUME NEW o \in Container, IsObject(o), NEW n \in Name, NEW v \in Known, SetProperty(o, n, v)
        PROVE  ValuesInv' /\ ContainersStep(ViewsOf(heap), ViewsOf(heap'))
    <2> DEFINE slot == Slot(o, n)
               added == Len(heap[o].shape) + 1
    <2>a. heap[o] # NULL /\ heap[o].kind = "object"
      BY <1>5 DEF IsObject
    <2>b. Usable(heap, v) /\ v \in Value
      BY KnownUsable DEF Usable
    <2>1. CASE UNCHANGED heap /\ status' \in {status, "wrotePast"}
      BY <1>2, <2>1
    <2>2. CASE /\ slot # 0
               /\ heap' = Exchanged([heap EXCEPT ![o].cells[slot] = v], heap[o].cells[slot], v)
               /\ UNCHANGED status
      <3>1. [heap EXCEPT ![o].cells[slot] = v] = Put(heap, o, SlotSet(heap[o], slot, v))
        BY <1>1 DEF Put, SlotSet
      <3>2. SlotIn(heap[o].shape, n) # 0 /\ slot = SlotIn(heap[o].shape, n)
        BY <2>2 DEF Slot
      <3>3. heap' = Exchanged(Put(heap, o, SlotSet(heap[o], SlotIn(heap[o].shape, n), v)),
                              heap[o].cells[SlotIn(heap[o].shape, n)], v)
        BY <2>2, <3>1, <3>2
      <3>4. HeapOK(heap') /\ CountsOK(heap') /\ PropertySet(ViewsOf(heap), ViewsOf(heap'), o, n, v)
        BY <2>a, <2>b, <3>2, <3>3, SetSlotLeaves
      <3> QED
        BY <2>b, <2>2, <3>4 DEF ContainersStep
    <2>3. CASE /\ slot = 0
               /\ heap' = Counted([heap EXCEPT ![o].shape = Append(@, n),
                                               ![o].cells = [WithRoom(@, added) EXCEPT ![added] = v]], v, 1)
               /\ UNCHANGED status
      <3>1. [heap EXCEPT ![o].shape = Append(@, n),
                         ![o].cells = [WithRoom(@, added) EXCEPT ![added] = v]]
              = Put(heap, o, SlotAdded(heap[o], n, v))
        BY <1>1 DEF Put, SlotAdded
      <3>2. SlotIn(heap[o].shape, n) = 0
        BY <2>3 DEF Slot
      <3>3. heap' = Counted(Put(heap, o, SlotAdded(heap[o], n, v)), v, 1)
        BY <2>3, <3>1
      <3>4. HeapOK(heap') /\ CountsOK(heap') /\ PropertySet(ViewsOf(heap), ViewsOf(heap'), o, n, v)
        BY <2>a, <2>b, <3>2, <3>3, AddSlotLeaves
      <3> QED
        BY <2>b, <2>3, <3>4 DEF ContainersStep
    <2> QED
      BY <1>5, <2>1, <2>2, <2>3 DEF SetProperty, WritePast, valueVars
  <1> QED
    BY <1>3, <1>4, <1>5 DEF ValuesNext

(* The inductive invariant holds.                                          *)
LEMMA ValuesInvHolds == ValuesSpec => []ValuesInv
  <1>1. ValuesInv /\ [ValuesNext]_valueVars => ValuesInv'
    <2> SUFFICES ASSUME ValuesInv, [ValuesNext]_valueVars PROVE ValuesInv'
      OBVIOUS
    <2>1. CASE ValuesNext
      BY <2>1, NextLeaves
    <2>2. CASE UNCHANGED valueVars
      BY <2>2 DEF valueVars, ValuesInv, HeapOK, CountsOK, Refs
    <2> QED
      BY <2>1, <2>2
  <1> QED
    BY InitValuesInv, <1>1, PTL DEF ValuesSpec

(* Containers of a heap in order have the types of the model.              *)
LEMMA InvImpliesTypeOK == ValuesInv => ValuesTypeOK
  <1> SUFFICES ASSUME ValuesInv PROVE ValuesTypeOK
    OBVIOUS
  <1>1. HeapOK(heap) /\ CountsOK(heap) /\ status \in {"running", "wrotePast"}
    BY DEF ValuesInv
  <1>2. ASSUME NEW c \in Container, heap[c] # NULL
        PROVE  heap[c] \in Record /\ CellsOf(c) = 1 .. SizeOf(heap[c])
    <2>1. heap[c] \in Record
      BY <1>1, <1>2 DEF HeapOK
    <2> QED
      BY <1>2, <2>1 DEF CellsOf, IsArray, SizeOf
  <1>3. ASSUME NEW v
        PROVE  References(v) = Refs(heap, v)
    <2>1. \A c \in Container : heap[c] # NULL => SizeOf(heap[c]) \in Nat
      BY <1>2, RecordFields
    <2>2. ASSUME NEW p \in References(v)
          PROVE  p \in Refs(heap, v)
      <3>1. PICK c \in Born : p \in {<<c, i>> : i \in {i \in CellsOf(c) : heap[c].cells[i] = v}}
        BY DEF References
      <3>2. PICK i \in CellsOf(c) : p = <<c, i>> /\ heap[c].cells[i] = v
        BY <3>1
      <3>3. c \in Container /\ heap[c] # NULL
        BY DEF Born
      <3>4. i \in 1 .. SizeOf(heap[c]) /\ i \in Nat
        BY <1>2, <2>1, <3>2, <3>3
      <3> QED
        BY <3>2, <3>3, <3>4 DEF Refs
    <2>3. ASSUME NEW p \in Refs(heap, v)
          PROVE  p \in References(v)
      <3>1. /\ p[1] \in Container /\ heap[p[1]] # NULL
            /\ p[2] \in 1 .. SizeOf(heap[p[1]]) /\ heap[p[1]].cells[p[2]] = v
            /\ p = <<p[1], p[2]>>
        BY DEF Refs
      <3>2. p[1] \in Born /\ p[2] \in CellsOf(p[1])
        BY <1>2, <3>1 DEF Born
      <3> QED
        BY <3>1, <3>2 DEF References
    <2> QED
      BY <2>2, <2>3
  <1>4. ASSUME NEW c \in Born
        PROVE  /\ heap[c].kind \in {"array", "object"}
               /\ heap[c].cells \in Seq(Known)
               /\ \A i \in CellsOf(c) : i \in DOMAIN heap[c].cells
               /\ \A i \in DOMAIN heap[c].cells \ CellsOf(c) : heap[c].cells[i] = Undefined
               /\ heap[c].refs = Cardinality(References(c))
    <2>1. /\ c \in Container /\ heap[c] # NULL /\ heap[c] \in Record /\ CellsOf(c) = 1 .. SizeOf(heap[c])
      BY <1>2 DEF Born
    <2>2. /\ heap[c].kind \in {"array", "object"} /\ heap[c].cells \in Seq(Value) /\ SizeOf(heap[c]) \in Nat
      BY <2>1, RecordFields
    <2>3. /\ SizeOf(heap[c]) <= Len(heap[c].cells)
          /\ \A i \in 1 .. Len(heap[c].cells) : heap[c].cells[i] \in Container => heap[heap[c].cells[i]] # NULL
          /\ \A i \in SizeOf(heap[c]) + 1 .. Len(heap[c].cells) : heap[c].cells[i] = Undefined
      BY <1>1, <2>1 DEF HeapOK
    <2>4. DOMAIN heap[c].cells = 1 .. Len(heap[c].cells) /\ Len(heap[c].cells) \in Nat
      BY <2>2
    <2>5. \A i \in 1 .. Len(heap[c].cells) : heap[c].cells[i] \in Known
      BY <2>2, <2>3 DEF Known, Value
    <2>6. heap[c].cells \in Seq(Known)
      BY <2>2, <2>4, <2>5
    <2>7. heap[c].refs = Cardinality(References(c))
      BY <1>1, <1>3, <2>1 DEF CountsOK
    <2> QED
      BY <2>1, <2>2, <2>3, <2>4, <2>6, <2>7
  <1> QED
    BY <1>1, <1>4 DEF ValuesTypeOK

(* However containers are made, shared, nested in each other and set, each *)
(* has room for what it holds, and its count is the number of cells that   *)
(* refer to it.                                                            *)
THEOREM CountsAreExact == ValuesSpec => []ValuesTypeOK
  BY ValuesInvHolds, InvImpliesTypeOK, PTL

---------------------------------------------------------------------------
(* Refinement.                                                             *)

(* A path of one step is that step.                                        *)
LEMMA OneStepPath ==
  ASSUME NEW v, NEW step
  PROVE  GetPath(v, <<step>>) = Step(v, step)
  <1> DEFINE path == <<step>>
             Is(f) == f = [k \in 0 .. Len(path) |-> IF k = 0 THEN v ELSE Step(f[k - 1], path[k])]
             at == CHOOSE f : Is(f)
             walk == [k \in 0 .. 1 |-> IF k = 0 THEN v ELSE Step(v, step)]
  <1>1. Len(path) = 1 /\ path[1] = step
    OBVIOUS
  <1>2. Is(walk)
    <2>1. walk[0] = v /\ \A k \in 0 .. 1 : walk[k] = IF k = 0 THEN v ELSE Step(v, step)
      OBVIOUS
    <2> HIDE DEF path
    <2>2. \A k \in 0 .. 1 : walk[k] = IF k = 0 THEN v ELSE Step(walk[k - 1], path[k])
      BY <1>1, <2>1
    <2>3. walk = [k \in 0 .. 1 |-> walk[k]]
      OBVIOUS
    <2> HIDE DEF walk
    <2> QED
      BY <1>1, <2>2, <2>3
  <1>3. Is(at)
    <2> HIDE DEF Is
    <2> QED
      BY <1>2
  <1>4. GetPath(v, path) = at[Len(path)]
    BY DEF GetPath
  <1> HIDE DEF at, path
  <1>5. at[0] = v /\ at[1] = Step(at[0], path[1])
    BY <1>1, <1>3
  <1> QED
    BY <1>1, <1>4, <1>5 DEF path

\* The contents the refinement reads through paths are the views.
ContentsRead == [c \in Container |-> ContentsOf(c)] = ViewsOf(heap)

(* Reading every step of a path reads the whole view.                      *)
LEMMA ContentsAre == ValuesInv => ContentsRead
  <1> SUFFICES ASSUME ValuesInv, NEW c \in Container, heap[c] # NULL
               PROVE  ContentsOf(c) = View(heap[c])
    BY DEF ContentsRead, ViewsOf, ViewIn, ContentsOf
  <1>1. heap[c] \in Record
    BY DEF ValuesInv, HeapOK
  <1>2. c # Unresolvable
    BY AddressAssumption
  <1>3. CASE heap[c].kind = "array"
    <2>1. heap[c].length \in Nat /\ IsArray(c) /\ ~IsObject(c)
      BY <1>1, <1>3, RecordFields DEF ArrayRecord, IsArray, IsObject
    <2>2. ASSUME NEW i \in 1 .. heap[c].length
          PROVE  GetPath(c, <<Item(i - 1)>>) = heap[c].cells[i]
      <3>1. Item(i - 1).by = "i" /\ Item(i - 1).index = i - 1
        BY DEF Item
      <3>2. i - 1 \in 0 .. heap[c].length - 1 /\ i - 1 + 1 = i
        BY <2>1
      <3>3. Step(c, Item(i - 1)) = heap[c].cells[i]
        BY <1>2, <2>1, <3>1, <3>2 DEF Step
      <3> QED
        BY <3>3, OneStepPath
    <2> QED
      BY <1>3, <2>1, <2>2 DEF ContentsOf, View
  <1>4. CASE heap[c].kind = "object"
    <2>1. IsObject(c) /\ ~IsArray(c)
      BY <1>4 DEF IsArray, IsObject
    <2>2. ASSUME NEW n \in Name, Slot(c, n) # 0
          PROVE  GetPath(c, <<Property(n)>>) = heap[c].cells[Slot(c, n)]
      <3>1. Property(n).by = "s" /\ Property(n).name = n
        BY DEF Property
      <3>2. Step(c, Property(n)) = heap[c].cells[Slot(c, n)]
        BY <1>2, <2>1, <2>2, <3>1 DEF Step
      <3> QED
        BY <3>2, OneStepPath
    <2> QED
      BY <1>4, <2>1, <2>2 DEF ContentsOf, View, Slot
  <1> QED
    BY <1>1, <1>3, <1>4, RecordFields

(* Any number of containers, however shared and however often their cells  *)
(* grow, behave as maps and lists: shapes, slots, capacities and counts    *)
(* implement Containers.                                                   *)
THEOREM ValuesImplementContainers == ValuesSpec => RefinesContainers
  <1>1. ValuesInit => Plain!ContentsInit
    BY DEF ValuesInit, Plain!ContentsInit, ContentsOf
  <1>2. ValuesInv' => ContentsRead'
    BY ContentsAre, PTL
  <1>3. ValuesInv /\ ValuesInv' /\ [ValuesNext]_valueVars
          => [Plain!ContentsNext]_([c \in Container |-> ContentsOf(c)])
    <2> SUFFICES ASSUME ValuesInv, ValuesInv', [ValuesNext]_valueVars
                 PROVE  [Plain!ContentsNext]_([c \in Container |-> ContentsOf(c)])
      OBVIOUS
    <2> DEFINE m == [c \in Container |-> ContentsOf(c)]
               m2 == [c \in Container |-> ContentsOf(c)']
    <2>1. m = ViewsOf(heap) /\ m2 = ViewsOf(heap')
      BY ContentsAre, <1>2 DEF ContentsRead
    <2>2. ContainersStep(m, m2)
      <3> HIDE DEF m, m2
      <3>1. CASE ValuesNext
        BY <2>1, <3>1, NextLeaves
      <3>2. CASE UNCHANGED valueVars
        BY <2>1, <3>2 DEF valueVars, ContainersStep
      <3> QED
        BY <3>1, <3>2
    <2>3. CASE m2 = m
      BY <2>3
    <2>4. ASSUME NEW c \in Container, Made(m, m2, c)
          PROVE  Plain!ContentsNext
      <3>1. Plain!MakeObject(c) \/ Plain!MakeArray(c)
        BY <2>4 DEF Made, Plain!MakeObject, Plain!MakeArray, Plain!Make
      <3> QED
        BY <3>1 DEF Plain!ContentsNext
    <2>5. ASSUME NEW c \in Container, NEW n \in Name, NEW v \in Value, PropertySet(m, m2, c, n, v)
          PROVE  Plain!ContentsNext
      <3>1. Plain!PutProperty(c)
        BY <2>5 DEF PropertySet, Plain!PutProperty, Plain!IsObject
      <3> QED
        BY <3>1 DEF Plain!ContentsNext
    <2>6. ASSUME NEW c \in Container, NEW i \in Index \cap Nat, NEW v \in Value, ItemSet(m, m2, c, i, v)
          PROVE  Plain!ContentsNext
      <3>1. Plain!PutItem(c)
        BY <2>6 DEF ItemSet, Plain!PutItem, Plain!IsArray
      <3> QED
        BY <3>1 DEF Plain!ContentsNext
    <2> HIDE DEF m, m2
    <2>7. m2 = m \/ Plain!ContentsNext
      BY <2>2, <2>4, <2>5, <2>6 DEF ContainersStep
    <2> QED
      BY <2>7 DEF m, m2
  <1> QED
    BY <1>1, <1>3, ValuesInvHolds, PTL DEF ValuesSpec, RefinesContainers, Plain!ContentsSpec
=============================================================================
