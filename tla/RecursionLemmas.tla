--------------------------- MODULE RecursionLemmas --------------------------
(***************************************************************************)
(* What the proofs about recursive functions rest on: a set of numbers has *)
(* a least one, and a function whose value at a number is made from its    *)
(* value at a smaller one exists.  The first such functions are the        *)
(* capacities of arrays that double.  The others are walks along links     *)
(* that only lead onward: the siblings of a node, and the trees of keys in *)
(* order.  With them are facts about the rows they return.  All is about   *)
(* rigid rows and pools, none about a state.                               *)
(***************************************************************************)
EXTENDS Doubling, SequencesExt, SequenceTheorems, FiniteSetTheorems, WellFoundedInduction, TLAPS

(* A non-empty set of natural numbers has a least element: what holds for  *)
(* no least counterexample holds.                                          *)
LEMMA LeastNat ==
  ASSUME NEW T, T \subseteq Nat, T # {}
  PROVE  \E n \in T : \A m \in T : n <= m
  <1> DEFINE R == OpToRel(<, Nat)
  <1>1. IsWellFoundedOn(R, Nat)
    BY NatLessThanWellFounded
  <1>2. \A m, n \in Nat : m < n => <<m, n>> \in R
    BY DEF OpToRel
  <1> HIDE DEF R
  <1>3. PICK n \in T : \A m \in T : ~ (<<m, n>> \in R)
    BY <1>1, WFMin
  <1>4. \A m \in T : ~ (m < n)
    BY <1>2, <1>3
  <1> QED
    BY <1>4

\* Recursion towards 0: at each number either a value is given, or it is
\* made by a function from the one at a smaller number.
Recursion(f, N, stop, val, up, step) ==
  f = [i \in 0 .. N |-> IF i \in stop THEN val[i] ELSE step[i][f[up[i]]]]

(* Such a function exists, with its values where all of these are.         *)
LEMMA RecursionExists ==
  ASSUME NEW N \in Nat, NEW S, NEW stop, 0 \in stop,
         NEW up, \A i \in 1 .. N : i \notin stop => up[i] \in 0 .. i - 1,
         NEW val, \A i \in 0 .. N : i \in stop => val[i] \in S,
         NEW step, \A i \in 0 .. N : step[i] \in [S -> S]
  PROVE  \E f : Recursion(f, N, stop, val, up, step) /\ f \in [0 .. N -> S]
  <1> DEFINE Is(f, n) == /\ f = [i \in 0 .. n |-> IF i \in stop THEN val[i] ELSE step[i][f[up[i]]]]
                         /\ f \in [0 .. n -> S]
             T == {n \in 0 .. N : \A f : ~Is(f, n)}
  <1> SUFFICES ASSUME T # {} PROVE FALSE
    BY DEF Recursion
  <1>1. PICK n \in T : \A m \in T : n <= m
    <2>1. T \subseteq Nat
      OBVIOUS
    <2> HIDE DEF T
    <2> QED
      BY <2>1, LeastNat
  <1>2. CASE n = 0
    <2> DEFINE f == [i \in 0 .. 0 |-> val[i]]
    <2>1. Is(f, 0)
      OBVIOUS
    <2> QED
      BY <1>1, <1>2, <2>1
  <1>3. CASE n # 0
    <2>1. n - 1 \in 0 .. N
      BY <1>1, <1>3
    <2>8. n - 1 \notin T
      <3>1. n \in T /\ n \in Nat /\ \A m \in T : n <= m
        BY <1>1
      <3> HIDE DEF T
      <3> QED
        BY <3>1
    <2>2. PICK g : Is(g, n - 1)
      BY <2>1, <2>8
    <2> DEFINE last == IF n \in stop THEN val[n] ELSE step[n][g[up[n]]]
               f == [i \in 0 .. n |-> IF i = n THEN last ELSE g[i]]
    <2>3. \A i \in 0 .. n - 1 : f[i] = g[i]
      BY <1>1
    <2>4. \A i \in 0 .. n : i \notin stop => up[i] \in 0 .. n - 1 /\ i # 0 /\ (i < n => up[i] \in 0 .. i - 1)
      BY <1>1
    <2>5. last \in S
      BY <1>1, <2>2, <2>4
    <2>6. ASSUME NEW i \in 0 .. n
          PROVE  f[i] = (IF i \in stop THEN val[i] ELSE step[i][f[up[i]]]) /\ f[i] \in S
      <3>1. CASE i = n
        BY <2>3, <2>4, <2>5, <3>1
      <3>2. CASE i # n
        <4>1. i \in 0 .. n - 1
          BY <3>2, <1>1
        <4>2. g[i] = (IF i \in stop THEN val[i] ELSE step[i][g[up[i]]]) /\ g[i] \in S
          BY <4>1, <2>2
        <4> QED
          BY <4>1, <4>2, <2>3, <2>4
      <3> QED
        BY <3>1, <3>2
    <2>7. Is(f, n)
      <3>0. f = [i \in 0 .. n |-> f[i]]
        OBVIOUS
      <3> HIDE DEF f
      <3>1. f = [i \in 0 .. n |-> IF i \in stop THEN val[i] ELSE step[i][f[up[i]]]]
        BY <2>6, <3>0
      <3>2. f \in [0 .. n -> S]
        BY <2>6, <3>0
      <3> QED
        BY <3>1, <3>2
    <2> QED
      BY <2>7, <1>1
  <1> QED
    BY <1>2, <1>3

\* Recursion the other way, towards N; what stops at once may lie anywhere.
Ascent(f, N, stop, val, next, step) ==
  f = [i \in 0 .. N |-> IF i \in stop THEN val[i] ELSE step[i][f[next[i]]]]

(* Such a function exists too.                                             *)
LEMMA AscentExists ==
  ASSUME NEW N \in Nat, NEW S, NEW stop,
         NEW next, \A i \in 0 .. N : i \notin stop => next[i] \in 0 .. N /\ (next[i] \in stop \/ next[i] > i),
         NEW val, \A i \in 0 .. N : i \in stop => val[i] \in S,
         NEW step, \A i \in 0 .. N : step[i] \in [S -> S]
  PROVE  \E f : Ascent(f, N, stop, val, next, step) /\ f \in [0 .. N -> S]
  <1> DEFINE at(j) == N + 1 - j
             ends  == {j \in 1 .. N + 1 : at(j) \in stop \/ next[at(j)] \in stop}
             stop2 == {0} \cup ends
             val2  == [j \in 0 .. N + 1 |->
                         IF j = 0 THEN CHOOSE x \in S : TRUE
                         ELSE IF at(j) \in stop THEN val[at(j)] ELSE step[at(j)][val[next[at(j)]]]]
             up    == [j \in 1 .. N + 1 |-> at(next[at(j)])]
             step2 == [j \in 0 .. N + 1 |-> IF j = 0 THEN [x \in S |-> x] ELSE step[at(j)]]
  <1>1. \A j \in 1 .. N + 1 : at(j) \in 0 .. N /\ at(at(j)) = j
    OBVIOUS
  <1>2. \A i \in 0 .. N : at(i) \in 1 .. N + 1 /\ at(at(i)) = i
    OBVIOUS
  <1>3. \E x : x \in S
    <2>1. CASE N \in stop
      BY <2>1
    <2>2. CASE N \notin stop
      BY <2>2
    <2> QED
      BY <2>1, <2>2
  <1>4. N + 1 \in Nat /\ 0 \in stop2
    OBVIOUS
  <1>5. \A j \in 1 .. N + 1 : j \notin stop2 => up[j] \in 0 .. j - 1
    <2> SUFFICES ASSUME NEW j \in 1 .. N + 1, j \notin stop2 PROVE up[j] \in 0 .. j - 1
      OBVIOUS
    <2>1. at(j) \in 0 .. N /\ at(j) \notin stop /\ next[at(j)] \notin stop
      BY <1>1
    <2>2. next[at(j)] \in 0 .. N /\ next[at(j)] > at(j)
      BY <2>1
    <2> QED
      BY <2>2
  <1>6. \A j \in 0 .. N + 1 : j \in stop2 => val2[j] \in S
    <2> SUFFICES ASSUME NEW j \in 0 .. N + 1, j \in stop2 PROVE val2[j] \in S
      OBVIOUS
    <2>1. CASE j = 0
      BY <2>1, <1>3
    <2>2. CASE j # 0
      <3>1. at(j) \in 0 .. N /\ (at(j) \in stop \/ next[at(j)] \in stop)
        BY <2>2, <1>1
      <3> HIDE DEF at
      <3>2. CASE at(j) \in stop
        BY <2>2, <3>1, <3>2
      <3>3. CASE at(j) \notin stop
        <4>1. next[at(j)] \in 0 .. N /\ next[at(j)] \in stop
          BY <3>1, <3>3
        <4>2. val[next[at(j)]] \in S /\ step[at(j)] \in [S -> S]
          BY <4>1, <3>1
        <4> QED
          BY <2>2, <3>3, <4>2
      <3> QED
        BY <3>2, <3>3
    <2> QED
      BY <2>1, <2>2
  <1>7. \A j \in 0 .. N + 1 : step2[j] \in [S -> S]
    BY <1>1
  <1>8. PICK g : Recursion(g, N + 1, stop2, val2, up, step2) /\ g \in [0 .. N + 1 -> S]
    <2> HIDE DEF stop2, val2, up, step2
    <2> QED
      BY <1>4, <1>5, <1>6, <1>7, RecursionExists
  <1> DEFINE f == [i \in 0 .. N |-> g[at(i)]]
  <1>9. f \in [0 .. N -> S]
    <2>1. \A i \in 0 .. N : at(i) \in 0 .. N + 1
      OBVIOUS
    <2> HIDE DEF stop2, val2, up, step2, at
    <2> QED
      BY <2>1, <1>8
  <1>10. ASSUME NEW i \in 0 .. N
         PROVE  f[i] = IF i \in stop THEN val[i] ELSE step[i][f[next[i]]]
    <2>0. \A k \in 0 .. N : g[at(k)] = IF at(k) \in stop2 THEN val2[at(k)] ELSE step2[at(k)][g[up[at(k)]]]
      <3>1. \A j \in 0 .. N + 1 : g[j] = IF j \in stop2 THEN val2[j] ELSE step2[j][g[up[j]]]
        <4> HIDE DEF stop2, val2, up, step2, at
        <4> QED
          BY <1>8 DEF Recursion
      <3>2. \A k \in 0 .. N : at(k) \in 0 .. N + 1
        OBVIOUS
      <3> HIDE DEF stop2, val2, up, step2, at
      <3> QED
        BY <3>1, <3>2
    <2>1. \A k \in 0 .. N :
            /\ at(k) \in stop2 <=> k \in stop \/ next[k] \in stop
            /\ val2[at(k)] = IF k \in stop THEN val[k] ELSE step[k][val[next[k]]]
            /\ up[at(k)] = at(next[k])
            /\ step2[at(k)] = step[k]
      BY <1>2
    <2> HIDE DEF stop2, val2, up, step2
    <2>2. \A k \in 0 .. N :
            f[k] = IF k \in stop \/ next[k] \in stop
                   THEN IF k \in stop THEN val[k] ELSE step[k][val[next[k]]]
                   ELSE step[k][g[at(next[k])]]
      BY <2>0, <2>1
    <2>3. CASE i \in stop
      BY <2>2, <2>3
    <2>4. CASE i \notin stop
      <3>1. next[i] \in 0 .. N
        BY <2>4
      <3>2. CASE next[i] \in stop
        <4>1. f[next[i]] = val[next[i]]
          BY <2>2, <3>1, <3>2
        <4>2. f[i] = step[i][val[next[i]]]
          BY <2>2, <2>4, <3>2
        <4> QED
          BY <4>1, <4>2, <2>4
      <3>3. CASE next[i] \notin stop
        <4>1. f[next[i]] = g[at(next[i])]
          BY <3>1
        <4>2. f[i] = step[i][g[at(next[i])]]
          BY <2>2, <2>4, <3>3
        <4> QED
          BY <4>1, <4>2, <2>4
      <3> QED
        BY <3>2, <3>3
    <2> QED
      BY <2>3, <2>4
  <1>11. f = [i \in 0 .. N |-> f[i]]
    OBVIOUS
  <1>12. Ascent(f, N, stop, val, next, step)
    <2> HIDE DEF f
    <2> QED
      BY <1>10, <1>11 DEF Ascent
  <1> QED
    BY <1>9, <1>12

---------------------------------------------------------------------------
(* Arrays that grow.                                                       *)

(* The capacity found by doubling is enough.                               *)
LEMMA DoubledEnough ==
  ASSUME NEW first \in Nat \ {0}, NEW needed \in Nat
  PROVE  Doubled(first, needed) \in Nat \ {0} /\ Doubled(first, needed) >= needed
  <1> DEFINE Is(f) == f = [i \in 0 .. needed |-> IF i = 0 THEN first ELSE 2 * f[i - 1]]
             up   == [i \in 1 .. needed |-> i - 1]
             val  == [i \in 0 .. needed |-> first]
             step == [i \in 0 .. needed |-> [x \in Nat |-> 2 * x]]
  <1>1. /\ 0 \in {0}
        /\ \A i \in 1 .. needed : i \notin {0} => up[i] \in 0 .. i - 1
        /\ \A i \in 0 .. needed : i \in {0} => val[i] \in Nat
        /\ \A i \in 0 .. needed : step[i] \in [Nat -> Nat]
    OBVIOUS
  <1>2. PICK f : Recursion(f, needed, {0}, val, up, step) /\ f \in [0 .. needed -> Nat]
    <2> HIDE DEF up, val, step
    <2> QED
      BY <1>1, RecursionExists
  <1>3. Is(f)
    <2>1. ASSUME NEW i \in 0 .. needed
          PROVE  f[i] = IF i = 0 THEN first ELSE 2 * f[i - 1]
      <3>1. f[i] = IF i \in {0} THEN val[i] ELSE step[i][f[up[i]]]
        <4> HIDE DEF up, val, step
        <4> QED
          BY <1>2 DEF Recursion
      <3>2. ASSUME i # 0 PROVE up[i] = i - 1 /\ f[i - 1] \in Nat
        <4>1. i \in 1 .. needed /\ i - 1 \in 0 .. needed
          BY <3>2
        <4> QED
          BY <1>2, <4>1
      <3> QED
        BY <3>1, <3>2
    <2>2. f = [i \in 0 .. needed |-> f[i]]
      BY <1>2
    <2> QED
      BY <2>1, <2>2
  <1> DEFINE capacities == Doublings(first, needed)
  <1>4. Is(capacities)
    <2>1. capacities = CHOOSE g : Is(g)
      BY DEF Doublings
    <2>2. Is(CHOOSE g : Is(g))
      <3> HIDE DEF Is
      <3> QED
        BY <1>3
    <2> QED
      BY <2>1, <2>2
  <1> HIDE DEF capacities
  <1>5. \A i \in 0 .. needed : capacities[i] = IF i = 0 THEN first ELSE 2 * capacities[i - 1]
    BY <1>4
  <1>6. \A i \in 0 .. needed : capacities[i] \in Nat /\ capacities[i] > i
    <2> DEFINE T == {i \in 0 .. needed : ~ (capacities[i] \in Nat /\ capacities[i] > i)}
    <2> SUFFICES ASSUME T # {} PROVE FALSE
      OBVIOUS
    <2>1. PICK i \in T : \A j \in T : i <= j
      <3>1. T \subseteq Nat
        OBVIOUS
      <3> HIDE DEF T
      <3> QED
        BY <3>1, LeastNat
    <2>2. i \in 0 .. needed /\ i \in Nat /\ ~ (capacities[i] \in Nat /\ capacities[i] > i)
      BY <2>1
    <2>3. i # 0
      BY <1>5, <2>2
    <2>4. i - 1 \in 0 .. needed /\ i - 1 \notin T
      <3>1. i - 1 \in 0 .. needed /\ i - 1 < i
        BY <2>2, <2>3
      <3> HIDE DEF T
      <3> QED
        BY <2>1, <2>2, <3>1
    <2>5. capacities[i - 1] \in Nat /\ capacities[i - 1] > i - 1
      BY <2>4
    <2> QED
      BY <1>5, <2>2, <2>3, <2>5
  <1> DEFINE enough == {i \in 0 .. needed : capacities[i] >= needed}
             Least(i) == i \in enough /\ \A j \in enough : i <= j
  <1>7. \E i : Least(i)
    <2>1. enough \subseteq Nat /\ needed \in enough
      BY <1>6
    <2> HIDE DEF enough
    <2> QED
      BY <2>1, LeastNat
  <1>8. Least(CHOOSE i : Least(i))
    <2> HIDE DEF Least
    <2> QED
      BY <1>7
  <1>9. Doubled(first, needed) = capacities[CHOOSE i \in enough : \A j \in enough : i <= j]
    BY DEF Doubled, capacities
  <1>10. (CHOOSE i \in enough : \A j \in enough : i <= j) = CHOOSE i : Least(i)
    OBVIOUS
  <1> QED
    BY <1>6, <1>8, <1>9, <1>10

(* An array made as large as that holds the old values first, and is empty *)
(* behind them.                                                            *)
LEMMA RoomMade ==
  ASSUME NEW S, NEW empty \in S, NEW cells \in Seq(S), NEW needed \in Nat, Len(cells) < needed,
         NEW d \in Nat, d >= needed, NEW w, w = [i \in 1 .. d |-> IF i <= Len(cells) THEN cells[i] ELSE empty]
  PROVE  /\ w \in Seq(S)
         /\ Len(w) >= needed
         /\ Len(w) >= Len(cells)
         /\ \A i \in 1 .. Len(cells) : w[i] = cells[i]
         /\ \A i \in Len(cells) + 1 .. Len(w) : w[i] = empty
  <1>1. \A i \in 1 .. d : (IF i <= Len(cells) THEN cells[i] ELSE empty) \in S
    OBVIOUS
  <1>2. w \in [1 .. d -> S] /\ Len(w) = d
    BY <1>1
  <1>3. w \in Seq(S)
    BY <1>2
  <1>4. \A i \in Len(cells) + 1 .. d : w[i] = empty
    OBVIOUS
  <1> QED
    BY <1>2, <1>3, <1>4

---------------------------------------------------------------------------
(* Rows: sequences of numbers, nodes and symbols.                          *)

(* Numbers up to a bound have a greatest.                                  *)
LEMMA GreatestNat ==
  ASSUME NEW n \in Nat, NEW T, T \subseteq 0 .. n, T # {}
  PROVE  \E m \in T : \A k \in T : k <= m
  <1> DEFINE M == {d \in 0 .. n : n - d \in T}
  <1>1. M \subseteq Nat
    OBVIOUS
  <1>2. M # {}
    <2>1. PICK t \in T : TRUE
      OBVIOUS
    <2>2. t \in 0 .. n /\ n - t \in 0 .. n /\ n - (n - t) = t
      BY <2>1
    <2> QED
      BY <2>1, <2>2
  <1>3. PICK d \in M : \A e \in M : d <= e
    <2> HIDE DEF M
    <2> QED
      BY <1>1, <1>2, LeastNat
  <1>4. d \in 0 .. n /\ n - d \in T
    BY <1>3
  <1>5. \A k \in T : k <= n - d
    <2> TAKE k \in T
    <2>1. k \in 0 .. n /\ n - k \in 0 .. n /\ n - (n - k) = k
      OBVIOUS
    <2>2. n - k \in M
      BY <2>1
    <2>3. d <= n - k
      BY <1>3, <2>2
    <2> HIDE DEF M
    <2> QED
      BY <1>4, <2>1, <2>3
  <1> QED
    BY <1>4, <1>5

(* A node appended to a row.                                               *)
LEMMA RowAppended ==
  ASSUME NEW S, NEW N \in Nat, NEW ms \in [1 .. N -> S], NEW new \in S
  PROVE  /\ Append(ms, new) \in Seq(S)
         /\ Len(Append(ms, new)) = N + 1
         /\ \A i \in 1 .. N : Append(ms, new)[i] = ms[i]
         /\ Append(ms, new)[N + 1] = new
  <1>1. ms \in Seq(S) /\ Len(ms) = N
    OBVIOUS
  <1> QED
    BY <1>1, AppendProperties

Top(c) == IF c = <<>> THEN "none" ELSE c[Len(c)]

(* Stacks with one symbol less, and with one more.                         *)
LEMMA FrontFacts ==
  ASSUME NEW X, NEW c \in Seq(X), c # <<>>
  PROVE  /\ Front(c) \in Seq(X) /\ Len(c) \in Nat \ {0} /\ Len(Front(c)) = Len(c) - 1
         /\ \A i \in 1 .. Len(c) - 1 : Front(c)[i] = c[i]
         /\ Top(c) = c[Len(c)] /\ Top(c) \in X /\ Top(c) = Last(c)
  <1>1. Len(c) \in Nat \ {0}
    BY EmptySeq
  <1>2. Front(c) = [i \in 1 .. Len(c) - 1 |-> c[i]] /\ \A i \in 1 .. Len(c) : c[i] \in X
    BY <1>1 DEF Front
  <1>3. Front(c) \in Seq(X) /\ Len(Front(c)) = Len(c) - 1
    BY <1>1, <1>2
  <1>4. \A i \in 1 .. Len(c) - 1 : Front(c)[i] = c[i]
    BY <1>2
  <1>5. Top(c) = c[Len(c)] /\ Top(c) = Last(c) /\ c[Len(c)] \in X
    BY <1>1, <1>2 DEF Top, Last
  <1> QED
    BY <1>1, <1>3, <1>4, <1>5

(* A stack with one symbol more.                                           *)
LEMMA AppendFacts ==
  ASSUME NEW X, NEW c \in Seq(X), NEW x \in X
  PROVE  /\ Append(c, x) \in Seq(X) /\ Len(c) \in Nat /\ Len(Append(c, x)) = Len(c) + 1
         /\ \A i \in 1 .. Len(c) : Append(c, x)[i] = c[i]
         /\ Append(c, x)[Len(c) + 1] = x /\ Top(Append(c, x)) = x
  <1>1. Len(c) \in Nat
    OBVIOUS
  <1> DEFINE d == Append(c, x)
  <1>2. d \in Seq(X) /\ Len(d) = Len(c) + 1 /\ (\A i \in 1 .. Len(c) : d[i] = c[i]) /\ d[Len(c) + 1] = x
    BY AppendProperties
  <1> HIDE DEF d
  <1>3. d # <<>>
    <2>1. Len(d) # 0
      BY <1>1, <1>2
    <2> QED
      BY <2>1
  <1>4. Top(d) = x
    BY <1>2, <1>3 DEF Top
  <1> QED
    BY <1>1, <1>2, <1>4 DEF d

(* What is pushed is appended a symbol at a time.                          *)
LEMMA Pushes ==
  ASSUME NEW X, NEW f \in Seq(X), NEW a \in X, NEW b \in X, NEW c \in X, NEW d \in X
  PROVE  /\ f \o <<>> = f
         /\ f \o <<a>> = Append(f, a)
         /\ f \o <<a, b>> = Append(Append(f, a), b)
         /\ f \o <<a, b, c>> = Append(Append(Append(f, a), b), c)
         /\ f \o <<a, b, c, d>> = Append(Append(Append(Append(f, a), b), c), d)
  <1>1. f \o <<>> = f
    BY ConcatEmptySeq
  <1>2. \A g \in Seq(X) : \A x \in X : Append(g, x) = g \o <<x>> /\ Append(g, x) \in Seq(X)
    BY AppendProperties, AppendIsConcat
  <1>3. ASSUME NEW g \in Seq(X), NEW s \in Seq(X), NEW x \in X
        PROVE  g \o Append(s, x) = Append(g \o s, x)
    <2> DEFINE e == <<x>>
    <2>1. e \in Seq(X) /\ g \o s \in Seq(X)
      BY ConcatProperties
    <2>2. Append(s, x) = s \o e /\ Append(g \o s, x) = (g \o s) \o e
      BY <1>2, <2>1
    <2> HIDE DEF e
    <2>3. (g \o s) \o e = g \o (s \o e)
      BY <2>1, ConcatAssociative
    <2> QED
      BY <2>2, <2>3
  <1>4. /\ <<a>> \in Seq(X) /\ <<a, b>> \in Seq(X) /\ <<a, b, c>> \in Seq(X)
        /\ <<a, b>> = Append(<<a>>, b) /\ <<a, b, c>> = Append(<<a, b>>, c)
        /\ <<a, b, c, d>> = Append(<<a, b, c>>, d)
    OBVIOUS
  <1>5. f \o <<a>> = Append(f, a)
    BY <1>2
  <1>6. f \o <<a, b>> = Append(Append(f, a), b)
    <2> DEFINE s == <<a>>
    <2>1. f \o Append(s, b) = Append(f \o s, b)
      BY <1>3, <1>4
    <2> QED
      BY <1>4, <1>5, <2>1
  <1>7. f \o <<a, b, c>> = Append(Append(Append(f, a), b), c)
    <2> DEFINE s == <<a, b>>
    <2>1. f \o Append(s, c) = Append(f \o s, c)
      BY <1>3, <1>4
    <2> QED
      BY <1>4, <1>6, <2>1
  <1>8. f \o <<a, b, c, d>> = Append(Append(Append(Append(f, a), b), c), d)
    <2> DEFINE s == <<a, b, c>>
    <2>1. f \o Append(s, d) = Append(f \o s, d)
      BY <1>3, <1>4
    <2> QED
      BY <1>4, <1>7, <2>1
  <1> QED
    BY <1>1, <1>5, <1>6, <1>7, <1>8

(* A sequence with something more ends in it.                              *)
LEMMA AppendLast ==
  ASSUME NEW X, NEW S \in Seq(X), NEW x \in X
  PROVE  Append(S, x) \in Seq(X) /\ Append(S, x) # <<>> /\ Last(Append(S, x)) = x /\ Front(Append(S, x)) = S
  <1>1. /\ Append(S, x) \in Seq(X) /\ Len(S) \in Nat /\ Len(Append(S, x)) = Len(S) + 1
        /\ \A i \in 1 .. Len(S) : Append(S, x)[i] = S[i]
        /\ Top(Append(S, x)) = x
    BY AppendFacts
  <1>2. Append(S, x) # <<>>
    BY <1>1, EmptySeq
  <1> DEFINE T == Append(S, x)
  <1> HIDE DEF T
  <1>3. T \in Seq(X) /\ T # <<>> /\ Len(T) = Len(S) + 1
    BY <1>1, <1>2 DEF T
  <1>4. Front(T) \in Seq(X) /\ Len(Front(T)) = Len(S) /\ (\A i \in 1 .. Len(S) : Front(T)[i] = T[i]) /\ Top(T) = Last(T)
    <2>1. /\ Front(T) \in Seq(X) /\ Len(Front(T)) = Len(T) - 1
          /\ \A i \in 1 .. Len(T) - 1 : Front(T)[i] = T[i]
          /\ Top(T) = Last(T)
      BY <1>3, FrontFacts
    <2>2. Len(T) - 1 = Len(S)
      BY <1>1, <1>3
    <2> QED
      BY <2>1, <2>2, Zenon
  <1>5. \A i \in 1 .. Len(S) : Front(T)[i] = S[i]
    BY <1>1, <1>4 DEF T
  <1>6. Front(T) = S
    BY <1>4, <1>5, SeqEqual
  <1> QED
    BY <1>1, <1>2, <1>4, <1>6 DEF T

(* A stack with one symbol more, without it.                               *)
LEMMA AppendFront ==
  ASSUME NEW X, NEW c \in Seq(X), NEW x \in X
  PROVE  /\ Append(c, x) \in Seq(X) /\ Append(c, x) # <<>>
         /\ Front(Append(c, x)) = c /\ Top(Append(c, x)) = x
  <1> DEFINE d == Append(c, x)  e == Front(d)
  <1>1. /\ d \in Seq(X) /\ Len(c) \in Nat /\ Len(d) = Len(c) + 1
        /\ \A i \in 1 .. Len(c) : d[i] = c[i]
        /\ Top(d) = x
    BY AppendFacts
  <1> HIDE DEF d
  <1>2. d # <<>>
    <2>1. Len(d) # 0
      BY <1>1
    <2> QED
      BY <2>1
  <1>3. e \in Seq(X) /\ Len(e) = Len(d) - 1 /\ \A i \in 1 .. Len(d) - 1 : e[i] = d[i]
    BY <1>1, <1>2, FrontFacts
  <1> HIDE DEF e
  <1>4. Len(e) = Len(c) /\ \A i \in 1 .. Len(c) : e[i] = c[i]
    BY <1>1, <1>3
  <1>5. e = c
    BY <1>3, <1>4, SeqEqual
  <1> QED
    BY <1>1, <1>2, <1>5 DEF d, e

(* Even and odd numbers follow one another.                                *)
LEMMA Parity ==
  ASSUME NEW n \in Nat
  PROVE  /\ (n + 1) % 2 = 1 <=> ~ (n % 2 = 1)
         /\ n % 2 = 0 <=> ~ (n % 2 = 1)
         /\ 0 % 2 = 0
  OBVIOUS

\* Every other element, from the first on.
Odd(c) == {c[i] : i \in {i \in 1 .. Len(c) : i % 2 = 1}}

(* The elements at those places.                                           *)
LEMMA OddFacts ==
  ASSUME NEW X, NEW c \in Seq(X)
  PROVE  /\ Odd(c) \subseteq X
         /\ \A k \in Odd(c) : \E i \in 1 .. Len(c) : i % 2 = 1 /\ k = c[i]
  <1>1. \A i \in 1 .. Len(c) : c[i] \in X
    BY ElementOfSeq
  <1> QED
    BY <1>1 DEF Odd

(* Behind an even number of elements another one counts.                   *)
LEMMA OddAppend ==
  ASSUME NEW X, NEW c \in Seq(X), NEW x \in X
  PROVE  Odd(Append(c, x)) = IF Len(c) % 2 = 0 THEN Odd(c) \cup {x} ELSE Odd(c)
  <1> DEFINE n == Len(c)  a == Append(c, x)
  <1>1. n \in Nat /\ Len(a) = n + 1 /\ a[n + 1] = x /\ \A i \in 1 .. n : a[i] = c[i]
    BY AppendFacts
  <1>2. (n + 1) % 2 = 1 <=> n % 2 = 0
    BY <1>1, Parity
  <1> HIDE DEF n, a
  <1>3. ASSUME NEW z PROVE z \in Odd(a) <=> z \in Odd(c) \/ (n % 2 = 0 /\ z = x)
    <2>1. z \in Odd(a) <=> \E i \in 1 .. n + 1 : i % 2 = 1 /\ a[i] = z
      BY <1>1 DEF Odd
    <2>2. z \in Odd(c) <=> \E i \in 1 .. n : i % 2 = 1 /\ c[i] = z
      BY DEF Odd, n
    <2>3. \A i : i \in 1 .. n + 1 <=> i \in 1 .. n \/ i = n + 1
      BY <1>1
    <2>4. n + 1 \in 1 .. n + 1
      BY <1>1
    <2> QED
      BY <1>1, <1>2, <2>1, <2>2, <2>3, <2>4
  <1> QED
    BY <1>3 DEF n, a

LEMMA RowOf ==
  ASSUME NEW n \in Nat, NEW c \in Seq(1 .. n)
  PROVE  /\ Len(c) \in Nat
         /\ \A m \in 1 .. Len(c) : c[m] \in 1 .. n
         /\ c # <<>> => 1 \in 1 .. Len(c) /\ Len(c) \in 1 .. Len(c)
         /\ \A m \in 1 .. Len(c) - 1 : m \in 1 .. Len(c) /\ m + 1 \in 1 .. Len(c)
  BY EmptySeq

(* What lies up to a number lies up to the next.                           *)
LEMMA Later ==
  ASSUME NEW p \in Nat, NEW a \in 1 .. p
  PROVE  a \in 1 .. p + 1 /\ p + 1 \in a .. p + 1 /\ \A e \in a .. p : e \in a .. p + 1
  OBVIOUS

(* What is inside a range.                                                 *)
LEMMA RangesNest ==
  \A n \in Nat : \A a \in 1 .. n : \A b \in a .. n : b \in 1 .. n /\ a <= b /\ b <= n
  OBVIOUS

(* Two elements, joined.                                                   *)
LEMMA TwoJoined ==
  ASSUME NEW S, NEW x \in S, NEW y \in S
  PROVE  <<x>> \o <<y>> = <<x, y>>
  <1>1. <<x>> \in Seq(S) /\ <<y>> \in Seq(S) /\ <<x, y>> \in Seq(S)
    OBVIOUS
  <1>2. /\ <<x>> \o <<y>> \in Seq(S) /\ Len(<<x>> \o <<y>>) = Len(<<x>>) + Len(<<y>>)
        /\ \A m \in 1 .. Len(<<x>>) + Len(<<y>>) :
             (<<x>> \o <<y>>)[m] = IF m <= Len(<<x>>) THEN <<x>>[m] ELSE <<y>>[m - Len(<<x>>)]
    BY <1>1, ConcatProperties
  <1>3. Len(<<x>>) = 1 /\ Len(<<y>>) = 1 /\ Len(<<x, y>>) = 2
    OBVIOUS
  <1>4. \A m \in 1 .. 2 : (<<x>> \o <<y>>)[m] = <<x, y>>[m]
    <2> DEFINE u == <<x>>  v == <<y>>  z == u \o v
    <2>1. /\ 1 \in 1 .. Len(u) + Len(v) /\ 1 <= Len(u)
          /\ 2 \in 1 .. Len(u) + Len(v) /\ ~ (2 <= Len(u)) /\ 2 - Len(u) = 1
      BY <1>3
    <2>2. z[1] = u[1] /\ z[2] = v[1]
      <3> HIDE DEF u, v
      <3> QED
        BY <1>2, <2>1 DEF u, v
    <2>3. u[1] = <<x, y>>[1] /\ v[1] = <<x, y>>[2]
      OBVIOUS
    <2> HIDE DEF z, u, v
    <2>4. \A m \in 1 .. 2 : z[m] = <<x, y>>[m]
      BY <2>2, <2>3
    <2> QED
      BY <2>4 DEF z, u, v
  <1>5. Len(<<x>> \o <<y>>) = 2
    BY <1>2, <1>3
  <1> QED
    BY <1>1, <1>2, <1>3, <1>4, <1>5, SeqEqual

\* What a function has for the elements of a row.
Valued(f, c) == [m \in 1 .. Len(c) |-> f[c[m]]]

(* With one element more in front there is one value more.                 *)
LEMMA ValuedFirst ==
  ASSUME NEW n \in Nat, NEW f, NEW c \in Seq(1 .. n), NEW k \in 1 .. n
  PROVE  /\ Valued(f, <<k>> \o c) = <<f[k]>> \o Valued(f, c)
         /\ Valued(f, c) \in Seq({f[i] : i \in 1 .. n}) /\ Len(Valued(f, c)) = Len(c)
         /\ <<k>> \o c \in Seq(1 .. n)
  <1> DEFINE S == {f[i] : i \in 1 .. n}
             d == <<k>> \o c
             v == Valued(f, c)
             w == Valued(f, d)
  <1>1. /\ Len(c) \in Nat /\ \A m \in 1 .. Len(c) : c[m] \in 1 .. n
        /\ <<k>> \in Seq(1 .. n) /\ Len(<<k>>) = 1 /\ <<k>>[1] = k
    BY RowOf
  <1>2. /\ d \in Seq(1 .. n) /\ Len(d) = Len(c) + 1
        /\ \A m \in 1 .. Len(c) + 1 : d[m] = IF m <= 1 THEN <<k>>[m] ELSE c[m - 1]
    <2>1. /\ d \in Seq(1 .. n) /\ Len(d) = 1 + Len(c)
          /\ \A m \in 1 .. 1 + Len(c) : d[m] = IF m <= 1 THEN <<k>>[m] ELSE c[m - 1]
      BY <1>1, ConcatProperties
    <2> HIDE DEF d
    <2> QED
      BY <1>1, <2>1
  <1>3. v \in Seq(S) /\ Len(v) = Len(c) /\ \A m \in 1 .. Len(c) : v[m] = f[c[m]]
    <2>1. \A m \in 1 .. Len(c) : f[c[m]] \in S
      BY <1>1
    <2> HIDE DEF S
    <2> QED
      BY <1>1, <2>1 DEF Valued
  <1>4. \A m \in 1 .. Len(d) : d[m] \in 1 .. n
    BY <1>2, RowOf
  <1> HIDE DEF d
  <1>5. w \in Seq(S) /\ Len(w) = Len(d) /\ \A m \in 1 .. Len(d) : w[m] = f[d[m]]
    <2>1. \A m \in 1 .. Len(d) : f[d[m]] \in S
      BY <1>4
    <2> HIDE DEF S
    <2> QED
      BY <1>1, <1>2, <2>1 DEF Valued
  <1>6. <<f[k]>> \in Seq(S) /\ Len(<<f[k]>>) = 1 /\ <<f[k]>>[1] = f[k]
    OBVIOUS
  <1> HIDE DEF v, w, S
  <1>7. /\ <<f[k]>> \o v \in Seq(S) /\ Len(<<f[k]>> \o v) = 1 + Len(v)
        /\ \A m \in 1 .. 1 + Len(v) : (<<f[k]>> \o v)[m] = IF m <= 1 THEN <<f[k]>>[m] ELSE v[m - 1]
    BY <1>3, <1>6, ConcatProperties, SMTT(30)
  <1>8. ASSUME NEW m \in 1 .. Len(w) PROVE w[m] = (<<f[k]>> \o v)[m]
    <2>0. m \in 1 .. Len(c) + 1 /\ m \in 1 .. Len(d)
      BY <1>1, <1>2, <1>5
    <2>1. CASE m = 1
      <3>1. w[m] = f[d[m]] /\ d[m] = <<k>>[m]
        BY <1>2, <1>5, <2>0, <2>1
      <3>2. (<<f[k]>> \o v)[m] = <<f[k]>>[m]
        BY <1>1, <1>3, <1>7, <2>0, <2>1
      <3> QED
        BY <1>1, <1>6, <2>1, <3>1, <3>2
    <2>2. CASE m # 1
      <3>1. m - 1 \in 1 .. Len(c) /\ ~(m <= 1)
        BY <1>1, <2>0, <2>2
      <3>2. w[m] = f[c[m - 1]]
        BY <1>2, <1>5, <2>0, <3>1
      <3>3. (<<f[k]>> \o v)[m] = v[m - 1]
        BY <1>1, <1>3, <1>7, <2>0, <3>1
      <3> QED
        BY <1>3, <3>1, <3>2, <3>3
    <2> QED
      BY <2>1, <2>2
  <1>9. w = <<f[k]>> \o v
    <2>1. Len(w) = Len(<<f[k]>> \o v)
      BY <1>1, <1>2, <1>3, <1>5, <1>7
    <2> QED
      BY <1>5, <1>7, <1>8, <2>1, SeqEqual
  <1> QED
    BY <1>2, <1>3, <1>9 DEF d, v, w, S

(* Maps with the same names and the same behind them are one.              *)
LEMMA SameMap ==
  ASSUME NEW f, NEW g, DOMAIN f = DOMAIN g, \A n \in DOMAIN f : f[n] = g[n],
         f = [n \in DOMAIN f |-> f[n]], g = [n \in DOMAIN g |-> g[n]]
  PROVE  f = g
  OBVIOUS

---------------------------------------------------------------------------
(* Links that point behind the node they belong to.  What is computed      *)
(* along them is a recursive function, and what holds of it is proved by a *)
(* greatest counterexample.                                                *)

\* A link of i, in a row of n.
Onward(i, n) == {0} \cup (i + 1 .. n)

\* What is made of the values at two links.
MadeOfTwo(f, n, base, left, right, step) ==
  f[0] = base /\ \A i \in 1 .. n : f[i] = step[i][<<f[left[i]], f[right[i]]>>]

(* Functions along such links exist.                                       *)
LEMMA OnwardExists ==
  ASSUME NEW n \in Nat, NEW S, NEW base \in S,
         NEW left, \A i \in 1 .. n : left[i] \in Onward(i, n),
         NEW right, \A i \in 1 .. n : right[i] \in Onward(i, n),
         NEW step, \A i \in 1 .. n : step[i] \in [S \X S -> S]
  PROVE  \E f \in [0 .. n -> S] : MadeOfTwo(f, n, base, left, right, step)
  <1> DEFINE Is(f, m) == /\ f \in [0 .. n -> S] /\ f[0] = base
                         /\ \A i \in m .. n : i # 0 => f[i] = step[i][<<f[left[i]], f[right[i]]>>]
             T == {m \in 0 .. n + 1 : \E f : Is(f, m)}
  <1>1. n + 1 \in T
    <2> DEFINE f == [i \in 0 .. n |-> base]
    <2>1. Is(f, n + 1)
      OBVIOUS
    <2> HIDE DEF Is
    <2> QED
      BY <2>1
  <1>2. PICK m \in T : \A k \in T : m <= k
    <2>1. T \subseteq Nat
      OBVIOUS
    <2> HIDE DEF T
    <2> QED
      BY <1>1, <2>1, LeastNat
  <1>3. m \in 0 .. n + 1
    BY <1>2
  <1>4. PICK g : Is(g, m)
    BY <1>2
  <1>5. m = 0
    <2> SUFFICES ASSUME m # 0 PROVE FALSE
      OBVIOUS
    <2> DEFINE j == m - 1
    <2>1. j \in 0 .. n /\ m = j + 1
      BY <1>3
    <2> HIDE DEF j
    <2>2. j \notin T
      <3>1. j < m
        BY <2>1
      <3> HIDE DEF T
      <3> QED
        BY <1>2, <1>3, <2>1, <3>1
    <2>3. CASE j = 0
      <3>1. Is(g, j)
        BY <1>4, <2>1, <2>3
      <3> HIDE DEF Is
      <3> QED
        BY <2>1, <2>2, <3>1
    <2>4. CASE j # 0
      <3> DEFINE v == step[j][<<g[left[j]], g[right[j]]>>]
                 f == [g EXCEPT ![j] = v]
      <3>1. j \in 1 .. n
        BY <2>1, <2>4
      <3>2. left[j] \in 0 .. n /\ right[j] \in 0 .. n /\ left[j] # j /\ right[j] # j
        BY <3>1 DEF Onward
      <3>3. v \in S
        <4>1. <<g[left[j]], g[right[j]]>> \in S \X S
          BY <1>4, <3>2
        <4>2. step[j] \in [S \X S -> S]
          BY <3>1
        <4> QED
          BY <4>1, <4>2
      <3> HIDE DEF v
      <3>4. f \in [0 .. n -> S] /\ f[j] = v /\ \A i \in 0 .. n : i # j => f[i] = g[i]
        BY <1>4, <3>1, <3>3
      <3> HIDE DEF f
      <3>5. \A i \in j .. n : i # 0 => f[i] = step[i][<<f[left[i]], f[right[i]]>>]
        <4> TAKE i \in j .. n
        <4>1. CASE i = j
          BY <3>2, <3>4, <4>1 DEF v
        <4>2. CASE i # j
          <5>1. i \in m .. n /\ i \in 1 .. n /\ i \in 0 .. n
            BY <2>1, <3>1, <4>2
          <5>2. left[i] \in 0 .. n /\ right[i] \in 0 .. n /\ left[i] # j /\ right[i] # j
            BY <2>1, <3>1, <4>2, <5>1 DEF Onward
          <5>3. g[i] = step[i][<<g[left[i]], g[right[i]]>>]
            BY <1>4, <5>1
          <5>4. f[i] = g[i] /\ f[left[i]] = g[left[i]] /\ f[right[i]] = g[right[i]]
            BY <3>4, <4>2, <5>1, <5>2
          <5> QED
            BY <5>3, <5>4
        <4> QED
          BY <4>1, <4>2
      <3>6. f[0] = base
        BY <1>4, <2>4, <3>4
      <3>7. Is(f, j)
        BY <3>4, <3>5, <3>6
      <3> HIDE DEF Is
      <3> QED
        BY <2>1, <2>2, <3>7
    <2> QED
      BY <2>3, <2>4
  <1>6. MadeOfTwo(g, n, base, left, right, step)
    <2>1. \A i \in 1 .. n : i \in 0 .. n /\ i # 0
      OBVIOUS
    <2> QED
      BY <1>4, <1>5, <2>1 DEF MadeOfTwo
  <1> QED
    BY <1>4, <1>6

---------------------------------------------------------------------------
(* The walks of keytree.c and parser.c as functions of the pool and of the *)
(* array they walk along.                                                  *)

\* A pool of tree nodes whose links point onward.
PoolOK(kt) ==
  /\ Len(kt) \in Nat
  /\ \A i \in 1 .. Len(kt) : /\ kt[i].left \in Onward(i, Len(kt)) /\ kt[i].right \in Onward(i, Len(kt))
                             /\ kt[i].key \in Nat

\* The keys of each tree in order: key_tree_get_ordered.
InOrder(kt) ==
  LET walk[i \in 0 .. Len(kt)] == IF i = 0 THEN <<>> ELSE walk[kt[i].left] \o <<kt[i].key>> \o walk[kt[i].right]
  IN  walk

\* A node and the siblings behind it.
Rest(ns) ==
  LET walk[k \in 0 .. Len(ns)] == IF k = 0 THEN <<>> ELSE <<k>> \o walk[ns[k].nextSibling]
  IN  walk

(* A node's keys are those to its left, its own, and those to its right.   *)
LEMMA InOrderUnfold ==
  ASSUME NEW kt, PoolOK(kt)
  PROVE  /\ InOrder(kt)[0] = <<>>
         /\ \A i \in 1 .. Len(kt) :
              InOrder(kt)[i] = InOrder(kt)[kt[i].left] \o <<kt[i].key>> \o InOrder(kt)[kt[i].right]
         /\ \A i \in 0 .. Len(kt) : InOrder(kt)[i] \in Seq(Nat)
  <1> DEFINE n == Len(kt)
             S == Seq(Nat)
             left == [i \in 1 .. n |-> kt[i].left]
             right == [i \in 1 .. n |-> kt[i].right]
             step == [i \in 1 .. n |-> [p \in S \X S |-> p[1] \o <<kt[i].key>> \o p[2]]]
             Is(f) == f = [i \in 0 .. n |-> IF i = 0 THEN <<>> ELSE f[kt[i].left] \o <<kt[i].key>> \o f[kt[i].right]]
  <1>1. n \in Nat /\ \A i \in 1 .. n : left[i] \in Onward(i, n) /\ right[i] \in Onward(i, n) /\ kt[i].key \in Nat
    BY DEF PoolOK
  <1>2. \A i \in 1 .. n : step[i] \in [S \X S -> S]
    <2> TAKE i \in 1 .. n
    <2>1. \A p \in S \X S : p[1] \o <<kt[i].key>> \o p[2] \in S
      <3> TAKE p \in S \X S
      <3>1. p[1] \in S /\ p[2] \in S /\ <<kt[i].key>> \in S
        BY <1>1
      <3>2. p[1] \o <<kt[i].key>> \in S
        BY <3>1, ConcatProperties
      <3> QED
        BY <3>1, <3>2, ConcatProperties
    <2> HIDE DEF S
    <2> QED
      BY <2>1
  <1>3. <<>> \in S
    OBVIOUS
  <1>4. \E f \in [0 .. n -> S] : MadeOfTwo(f, n, <<>>, left, right, step)
    <2> HIDE DEF n, S, left, right, step
    <2> QED
      BY <1>1, <1>2, <1>3, OnwardExists
  <1>5. PICK f \in [0 .. n -> S] : MadeOfTwo(f, n, <<>>, left, right, step)
    BY <1>4
  <1>6. Is(f)
    <2>1. ASSUME NEW i \in 0 .. n
          PROVE  f[i] = IF i = 0 THEN <<>> ELSE f[kt[i].left] \o <<kt[i].key>> \o f[kt[i].right]
      <3>1. CASE i = 0
        BY <1>5, <3>1 DEF MadeOfTwo
      <3>2. CASE i # 0
        <4>1. i \in 1 .. n
          BY <1>1, <3>2
        <4>2. f[i] = step[i][<<f[left[i]], f[right[i]]>>]
          <5> HIDE DEF step, left, right
          <5> QED
            BY <1>5, <4>1 DEF MadeOfTwo
        <4>3. left[i] \in 0 .. n /\ right[i] \in 0 .. n
          <5>1. left[i] \in Onward(i, n) /\ right[i] \in Onward(i, n)
            BY <1>1, <4>1
          <5> HIDE DEF left, right
          <5> QED
            BY <1>1, <4>1, <5>1 DEF Onward
        <4>4. <<f[left[i]], f[right[i]]>> \in S \X S
          <5> HIDE DEF left, right
          <5> QED
            BY <1>5, <4>3
        <4> QED
          BY <3>2, <4>1, <4>2, <4>4
      <3> QED
        BY <3>1, <3>2
    <2>2. f = [i \in 0 .. n |-> f[i]]
      BY <1>5
    <2> HIDE DEF n
    <2> QED
      BY <2>1, <2>2
  <1>7. Is(InOrder(kt))
    <2>1. InOrder(kt) = CHOOSE g : Is(g)
      BY DEF InOrder
    <2>2. Is(CHOOSE g : Is(g))
      <3> HIDE DEF Is
      <3> QED
        BY <1>6
    <2> QED
      BY <2>1, <2>2
  <1> DEFINE w == InOrder(kt)
  <1> HIDE DEF w
  <1>8. \A i \in 0 .. n : w[i] = IF i = 0 THEN <<>> ELSE w[kt[i].left] \o <<kt[i].key>> \o w[kt[i].right]
    BY <1>7 DEF w
  <1>10. n \in Nat /\ (0 \in 0 .. n) /\ \A i \in 1 .. n : kt[i].left \in Onward(i, n) /\ kt[i].right \in Onward(i, n) /\ <<kt[i].key>> \in S
    BY <1>1
  <1> HIDE DEF n, left, right, step, Is
  <1>9. \A i \in 0 .. n : w[i] \in S
    <2> DEFINE T == {i \in 0 .. n : w[i] \notin S}
    <2> SUFFICES ASSUME T # {} PROVE FALSE
      OBVIOUS
    <2>1. PICK i \in T : \A k \in T : k <= i
      <3>1. T \subseteq 0 .. n
        OBVIOUS
      <3> HIDE DEF T
      <3> QED
        BY <1>10, <3>1, GreatestNat
    <2>2. i \in 0 .. n /\ w[i] \notin S /\ i # 0
      BY <1>3, <1>8, <1>10, <2>1
    <2>3. i \in 1 .. n
      BY <1>10, <2>2
    <2>4. \A j \in Onward(i, n) : w[j] \in S
      <3> TAKE j \in Onward(i, n)
      <3>1. CASE j = 0
        BY <1>3, <1>8, <1>10, <3>1
      <3>2. CASE j # 0
        <4>1. j \in 0 .. n /\ j > i
          BY <1>10, <2>3, <3>2 DEF Onward
        <4>2. j \notin T
          <5> HIDE DEF T
          <5> QED
            BY <1>10, <2>1, <2>3, <4>1
        <4> QED
          BY <4>1, <4>2
      <3> QED
        BY <3>1, <3>2
    <2>5. kt[i].left \in Onward(i, n) /\ kt[i].right \in Onward(i, n) /\ <<kt[i].key>> \in S
      BY <1>10, <2>3
    <2>6. w[kt[i].left] \in S /\ w[kt[i].right] \in S
      BY <2>4, <2>5
    <2>7. w[kt[i].left] \o <<kt[i].key>> \in S
      BY <2>5, <2>6, ConcatProperties
    <2>8. w[kt[i].left] \o <<kt[i].key>> \o w[kt[i].right] \in S
      BY <2>6, <2>7, ConcatProperties
    <2>9. w[i] = w[kt[i].left] \o <<kt[i].key>> \o w[kt[i].right]
      BY <1>8, <2>2
    <2> QED
      BY <2>2, <2>8, <2>9
  <1> QED
    <2>1. w[0] = <<>>
      BY <1>8, <1>10
    <2>2. \A i \in 1 .. n : w[i] = w[kt[i].left] \o <<kt[i].key>> \o w[kt[i].right]
      <3>1. \A i \in 1 .. n : i \in 0 .. n /\ i # 0
        BY <1>10
      <3> QED
        BY <1>8, <3>1
    <2> QED
      BY <1>9, <2>1, <2>2 DEF w, n

\* Siblings come later.
SiblingsOK(ns) == Len(ns) \in Nat /\ \A i \in 1 .. Len(ns) : ns[i].nextSibling \in Onward(i, Len(ns))

(* The siblings from a node on are the node and those after it.            *)
LEMMA RestUnfold ==
  ASSUME NEW ns, SiblingsOK(ns)
  PROVE  /\ Rest(ns)[0] = <<>>
         /\ \A k \in 1 .. Len(ns) : Rest(ns)[k] = <<k>> \o Rest(ns)[ns[k].nextSibling]
  <1> DEFINE n == Len(ns)
             S == Seq(Nat)
             left == [i \in 1 .. n |-> ns[i].nextSibling]
             right == [i \in 1 .. n |-> 0]
             step == [i \in 1 .. n |-> [p \in S \X S |-> <<i>> \o p[1]]]
             Is(f) == f = [k \in 0 .. n |-> IF k = 0 THEN <<>> ELSE <<k>> \o f[ns[k].nextSibling]]
  <1>1. n \in Nat /\ \A i \in 1 .. n : left[i] \in Onward(i, n) /\ right[i] \in Onward(i, n)
    BY DEF SiblingsOK, Onward
  <1>2. \A i \in 1 .. n : step[i] \in [S \X S -> S]
    <2> TAKE i \in 1 .. n
    <2>1. \A p \in S \X S : <<i>> \o p[1] \in S
      <3> TAKE p \in S \X S
      <3>1. p[1] \in S /\ <<i>> \in S
        BY <1>1
      <3> QED
        BY <3>1, ConcatProperties
    <2> HIDE DEF S
    <2> QED
      BY <2>1
  <1>3. <<>> \in S
    OBVIOUS
  <1>4. \E f \in [0 .. n -> S] : MadeOfTwo(f, n, <<>>, left, right, step)
    <2> HIDE DEF n, S, left, right, step
    <2> QED
      BY <1>1, <1>2, <1>3, OnwardExists
  <1>5. PICK f \in [0 .. n -> S] : MadeOfTwo(f, n, <<>>, left, right, step)
    BY <1>4
  <1>6. Is(f)
    <2>1. ASSUME NEW i \in 0 .. n
          PROVE  f[i] = IF i = 0 THEN <<>> ELSE <<i>> \o f[ns[i].nextSibling]
      <3>1. CASE i = 0
        BY <1>5, <3>1 DEF MadeOfTwo
      <3>2. CASE i # 0
        <4>1. i \in 1 .. n
          BY <1>1, <3>2
        <4>2. f[i] = step[i][<<f[left[i]], f[right[i]]>>]
          <5> HIDE DEF step, left, right
          <5> QED
            BY <1>5, <4>1 DEF MadeOfTwo
        <4>3. left[i] \in 0 .. n /\ right[i] \in 0 .. n
          <5>1. left[i] \in Onward(i, n) /\ right[i] \in Onward(i, n)
            BY <1>1, <4>1
          <5> HIDE DEF left, right
          <5> QED
            BY <1>1, <4>1, <5>1 DEF Onward
        <4>4. <<f[left[i]], f[right[i]]>> \in S \X S
          <5> HIDE DEF left, right
          <5> QED
            BY <1>5, <4>3
        <4> QED
          BY <3>2, <4>1, <4>2, <4>4
      <3> QED
        BY <3>1, <3>2
    <2>2. f = [i \in 0 .. n |-> f[i]]
      BY <1>5
    <2> HIDE DEF n
    <2> QED
      BY <2>1, <2>2
  <1>7. Is(Rest(ns))
    <2>1. Rest(ns) = CHOOSE g : Is(g)
      BY DEF Rest
    <2>2. Is(CHOOSE g : Is(g))
      <3> HIDE DEF Is
      <3> QED
        BY <1>6
    <2> QED
      BY <2>1, <2>2
  <1> DEFINE w == Rest(ns)
  <1> HIDE DEF w
  <1>8. \A i \in 0 .. n : w[i] = IF i = 0 THEN <<>> ELSE <<i>> \o w[ns[i].nextSibling]
    BY <1>7 DEF w
  <1> QED
    <2>1. w[0] = <<>> /\ \A i \in 1 .. n : w[i] = <<i>> \o w[ns[i].nextSibling]
      BY <1>1, <1>8
    <2> QED
      BY <2>1 DEF w

(* The siblings from a node on are nodes.                                  *)
LEMMA RestRows ==
  ASSUME NEW ns, SiblingsOK(ns)
  PROVE  \A k \in 0 .. Len(ns) : Rest(ns)[k] \in Seq(1 .. Len(ns))
  <1> DEFINE n == Len(ns)
             w == Rest(ns)
             T == {k \in 0 .. n : w[k] \notin Seq(1 .. n)}
  <1>1. n \in Nat /\ \A k \in 1 .. n : ns[k].nextSibling \in Onward(k, n)
    BY DEF SiblingsOK
  <1>2. w[0] = <<>> /\ \A k \in 1 .. n : w[k] = <<k>> \o w[ns[k].nextSibling]
    BY RestUnfold
  <1> HIDE DEF n, w
  <1> SUFFICES ASSUME T # {} PROVE FALSE
    BY DEF n, w
  <1>3. PICK k \in T : \A j \in T : j <= k
    <2>1. T \subseteq 0 .. n
      OBVIOUS
    <2> HIDE DEF T
    <2> QED
      BY <1>1, <2>1, GreatestNat
  <1>4. k \in 0 .. n /\ w[k] \notin Seq(1 .. n)
    BY <1>3
  <1>5. k \in 1 .. n
    <2>1. <<>> \in Seq(1 .. n)
      OBVIOUS
    <2>2. k # 0
      BY <1>2, <1>4, <2>1
    <2> QED
      BY <1>1, <1>4, <2>2
  <1> DEFINE s == ns[k].nextSibling
  <1>6. s \in 0 .. n /\ s \notin T
    <2>1. s = 0 \/ s \in k + 1 .. n
      BY <1>1, <1>5 DEF Onward
    <2>2. CASE s = 0
      <3>1. w[0] \in Seq(1 .. n)
        BY <1>2
      <3> QED
        BY <1>1, <2>2, <3>1
    <2>3. CASE s \in k + 1 .. n
      <3> HIDE DEF T, s
      <3> QED
        BY <1>1, <1>3, <1>5, <2>3
    <2> QED
      BY <2>1, <2>2, <2>3
  <1>7. w[s] \in Seq(1 .. n)
    BY <1>6
  <1>8. w[k] = <<k>> \o w[s]
    BY <1>2, <1>5
  <1> HIDE DEF s
  <1>9. <<k>> \o w[s] \in Seq(1 .. n)
    BY <1>1, <1>5, <1>7, ValuedFirst
  <1> QED
    BY <1>4, <1>8, <1>9

\* The children of a node.
Kids(ns, o) == Rest(ns)[ns[o].firstChild]

\* The nodes of c are those linked from o on, and no others.
Chain(ns, o, c) ==
  /\ c \in Seq(1 .. Len(ns))
  /\ ns[o].firstChild = IF c = <<>> THEN 0 ELSE c[1]
  /\ \A i \in 1 .. Len(c) : /\ ns[c[i]].parent = o
                            /\ ns[c[i]].nextSibling = IF i = Len(c) THEN 0 ELSE c[i + 1]

(* The walk along the links of a chain yields the chain.                   *)
LEMMA ChainIsKids ==
  ASSUME NEW ns, SiblingsOK(ns), NEW o, NEW c, Chain(ns, o, c)
  PROVE  Kids(ns, o) = c
  <1> DEFINE n == Len(c)
             w == Rest(ns)
             S == 1 .. Len(ns)
  <1>1. c \in Seq(S) /\ n \in Nat
    BY DEF Chain
  <1>2. w[0] = <<>> /\ \A k \in S : w[k] = <<k>> \o w[ns[k].nextSibling]
    BY RestUnfold
  <1>3. \A i \in 1 .. n : c[i] \in S /\ ns[c[i]].nextSibling = IF i = n THEN 0 ELSE c[i + 1]
    BY <1>1 DEF Chain
  <1> HIDE DEF n, w, S
  <1>4. ASSUME NEW i \in 1 .. n
        PROVE  SubSeq(c, i, n) = <<c[i]>> \o SubSeq(c, i + 1, n)
    <2>1. i \in 1 .. Len(c) /\ n \in i .. Len(c)
      BY <1>1 DEF n
    <2> QED
      BY <1>1, <2>1, SubSeqRecursiveFirst
  <1>5. SubSeq(c, n + 1, n) = <<>>
    <2>1. n + 1 \in Int /\ n \in Int /\ n < n + 1
      BY <1>1
    <2> QED
      BY <2>1, SubSeqEmpty
  <1>6. \A i \in 1 .. n : w[c[i]] = SubSeq(c, i, n)
    <2> DEFINE T == {i \in 1 .. n : w[c[i]] # SubSeq(c, i, n)}
    <2> SUFFICES ASSUME T # {} PROVE FALSE
      OBVIOUS
    <2>1. PICK i \in T : \A k \in T : k <= i
      <3>1. T \subseteq 0 .. n
        BY <1>1
      <3> HIDE DEF T
      <3> QED
        BY <1>1, <3>1, GreatestNat
    <2>2. i \in 1 .. n /\ w[c[i]] # SubSeq(c, i, n)
      BY <2>1
    <2>3. w[c[i]] = <<c[i]>> \o w[ns[c[i]].nextSibling]
      BY <1>2, <1>3, <2>2
    <2>4. CASE i = n
      BY <1>2, <1>3, <1>4, <1>5, <2>2, <2>3, <2>4
    <2>5. CASE i # n
      <3>1. i + 1 \in 1 .. n /\ i + 1 > i
        BY <1>1, <2>2, <2>5
      <3>2. i + 1 \notin T
        <4> HIDE DEF T
        <4> QED
          BY <1>1, <2>1, <2>2, <3>1
      <3>3. w[c[i + 1]] = SubSeq(c, i + 1, n)
        BY <3>1, <3>2
      <3> QED
        BY <1>3, <1>4, <2>2, <2>3, <2>5, <3>3
    <2> QED
      BY <2>4, <2>5
  <1>7. CASE c = <<>>
    <2>1. ns[o].firstChild = 0
      BY <1>7 DEF Chain
    <2> QED
      BY <1>2, <1>7, <2>1 DEF Kids, w
  <1>8. CASE c # <<>>
    <2>1. ns[o].firstChild = c[1]
      BY <1>8 DEF Chain
    <2>2. n \in Nat \ {0}
      BY <1>1, <1>8, EmptySeq DEF n
    <2>3. w[c[1]] = SubSeq(c, 1, n)
      BY <1>6, <2>2
    <2>4. SubSeq(c, 1, n) = c
      BY <1>1, SubSeqFull DEF n
    <2> QED
      BY <2>1, <2>3, <2>4 DEF Kids, w
  <1> QED
    BY <1>7, <1>8

---------------------------------------------------------------------------
(* Sequences of keys in the order of their names, no key twice.            *)

\* The name of a key, sets of keys in order, and a sequence in order.
NameIn(ns, k) == ns[k].token.name

Before(ns, A, B) == \A x \in A, y \in B : x # y /\ NameIn(ns, x) <= NameIn(ns, y)

Sorted(ns, w) == \A p, q \in 1 .. Len(w) : p < q => w[p] # w[q] /\ NameIn(ns, w[p]) <= NameIn(ns, w[q])

(* The elements of two sequences behind one another.                       *)
LEMMA JoinedElements ==
  ASSUME NEW u \in Seq(Nat), NEW v \in Seq(Nat)
  PROVE  u \o v \in Seq(Nat) /\ ToSet(u \o v) = ToSet(u) \cup ToSet(v)
  <1> DEFINE w == u \o v
             m == Len(u)
             n == Len(v)
  <1>1. /\ w \in Seq(Nat) /\ Len(w) = m + n
        /\ \A i \in 1 .. m + n : w[i] = IF i <= m THEN u[i] ELSE v[i - m]
    BY ConcatProperties
  <1>2. m \in Nat /\ n \in Nat /\ DOMAIN u = 1 .. m /\ DOMAIN v = 1 .. n /\ DOMAIN w = 1 .. Len(w)
    BY <1>1
  <1> HIDE DEF w, m, n
  <1>3. ToSet(w) \subseteq ToSet(u) \cup ToSet(v)
    <2> SUFFICES ASSUME NEW i \in 1 .. m + n PROVE w[i] \in ToSet(u) \cup ToSet(v)
      BY <1>1, <1>2 DEF ToSet
    <2>1. CASE i <= m
      <3>1. i \in 1 .. m /\ w[i] = u[i]
        BY <1>1, <1>2, <2>1
      <3> QED
        BY <1>2, <3>1 DEF ToSet
    <2>2. CASE ~ (i <= m)
      <3>1. i - m \in 1 .. n
        BY <1>2, <2>2
      <3> QED
        BY <1>1, <1>2, <2>2, <3>1 DEF ToSet
    <2> QED
      BY <2>1, <2>2
  <1>4. ToSet(u) \subseteq ToSet(w)
    <2> SUFFICES ASSUME NEW i \in 1 .. m PROVE u[i] \in ToSet(w)
      BY <1>2 DEF ToSet
    <2>1. i \in 1 .. m + n /\ i <= m
      BY <1>2
    <2> QED
      BY <1>1, <1>2, <2>1 DEF ToSet
  <1>5. ToSet(v) \subseteq ToSet(w)
    <2> SUFFICES ASSUME NEW i \in 1 .. n PROVE v[i] \in ToSet(w)
      BY <1>2 DEF ToSet
    <2>1. m + i \in 1 .. m + n /\ ~ (m + i <= m) /\ (m + i) - m = i
      BY <1>2
    <2> QED
      BY <1>1, <1>2, <2>1 DEF ToSet
  <1> QED
    BY <1>1, <1>3, <1>4, <1>5 DEF w

(* And when they are in order.                                             *)
LEMMA JoinedSorted ==
  ASSUME NEW ns, NEW u \in Seq(Nat), NEW v \in Seq(Nat)
  PROVE  Sorted(ns, u \o v) <=> Sorted(ns, u) /\ Sorted(ns, v) /\ Before(ns, ToSet(u), ToSet(v))
  <1> DEFINE w == u \o v
             m == Len(u)
             n == Len(v)
  <1>1. /\ w \in Seq(Nat) /\ Len(w) = m + n
        /\ \A i \in 1 .. m + n : w[i] = IF i <= m THEN u[i] ELSE v[i - m]
    BY ConcatProperties
  <1>2. m \in Nat /\ n \in Nat /\ DOMAIN u = 1 .. m /\ DOMAIN v = 1 .. n
    BY <1>1
  <1>3. /\ \A i \in 1 .. m : i \in 1 .. Len(w) /\ w[i] = u[i]
        /\ \A i \in 1 .. n : m + i \in 1 .. Len(w) /\ w[m + i] = v[i]
        /\ \A i \in 1 .. Len(w) : i \in 1 .. m \/ \E j \in 1 .. n : i = m + j
    <2>1. \A i \in 1 .. m : i \in 1 .. m + n /\ i <= m
      BY <1>2
    <2>2. \A i \in 1 .. n : m + i \in 1 .. m + n /\ ~ (m + i <= m) /\ (m + i) - m = i
      BY <1>2
    <2> HIDE DEF w, m, n
    <2>3. ASSUME NEW i \in 1 .. Len(w), i \notin 1 .. m PROVE \E j \in 1 .. n : i = m + j
      <3>1. i - m \in 1 .. n /\ i = m + (i - m)
        BY <1>1, <1>2, <2>3
      <3> QED
        BY <3>1
    <2>4. \A i \in 1 .. n : w[m + i] = v[i]
      BY <1>1, <2>2
    <2>5. \A i \in 1 .. m : w[i] = u[i]
      BY <1>1, <2>1
    <2> QED
      BY <1>1, <2>1, <2>2, <2>3, <2>4, <2>5
  <1> HIDE DEF w, m, n
  <1> DEFINE In(x, y) == x # y /\ NameIn(ns, x) <= NameIn(ns, y)
  <1>4. ASSUME Sorted(ns, w) PROVE Sorted(ns, u) /\ Sorted(ns, v) /\ Before(ns, ToSet(u), ToSet(v))
    <2>1. \A p, q \in 1 .. Len(w) : p < q => In(w[p], w[q])
      BY <1>4 DEF Sorted
    <2> HIDE DEF In
    <2>2. \A p, q \in 1 .. m : p < q => In(u[p], u[q])
      BY <1>3, <2>1
    <2>3. \A p, q \in 1 .. n : p < q => m + p < m + q
      BY <1>2
    <2>4. \A p, q \in 1 .. n : p < q => In(v[p], v[q])
      BY <1>3, <2>1, <2>3
    <2>5. \A p \in 1 .. m, q \in 1 .. n : p < m + q
      BY <1>2
    <2>6. \A p \in 1 .. m, q \in 1 .. n : In(u[p], v[q])
      BY <1>3, <2>1, <2>5
    <2>7. \A x \in ToSet(u), y \in ToSet(v) : In(x, y)
      BY <1>2, <2>6 DEF ToSet
    <2> QED
      BY <2>2, <2>4, <2>7 DEF Sorted, Before, In, m, n
  <1>5. ASSUME Sorted(ns, u), Sorted(ns, v), Before(ns, ToSet(u), ToSet(v)) PROVE Sorted(ns, w)
    <2>1. \A p, q \in 1 .. m : p < q => In(u[p], u[q])
      BY <1>5 DEF Sorted, m
    <2>2. \A p, q \in 1 .. n : p < q => In(v[p], v[q])
      BY <1>5 DEF Sorted, n
    <2>3. \A p \in 1 .. m, q \in 1 .. n : In(u[p], v[q])
      BY <1>2, <1>5 DEF Before, ToSet
    <2> HIDE DEF In
    <2>4. ASSUME NEW p \in 1 .. Len(w), NEW q \in 1 .. Len(w), p < q PROVE In(w[p], w[q])
      <3>1. CASE q \in 1 .. m
        <4>1. p \in 1 .. m
          BY <1>2, <2>4, <3>1
        <4> QED
          BY <1>3, <2>1, <2>4, <3>1, <4>1
      <3>2. CASE p \in 1 .. m /\ q \notin 1 .. m
        <4>1. PICK j \in 1 .. n : q = m + j
          BY <1>3, <3>2
        <4> QED
          BY <1>3, <2>3, <3>2, <4>1
      <3>3. CASE p \notin 1 .. m /\ q \notin 1 .. m
        <4>1. PICK i \in 1 .. n : p = m + i
          BY <1>3, <3>3
        <4>2. PICK j \in 1 .. n : q = m + j
          BY <1>3, <3>3
        <4>3. i < j
          BY <1>2, <2>4, <4>1, <4>2
        <4> QED
          BY <1>3, <2>2, <4>1, <4>2, <4>3
      <3> QED
        BY <3>1, <3>2, <3>3
    <2> QED
      BY <2>4 DEF Sorted, In
  <1> QED
    BY <1>4, <1>5 DEF w

(* One key alone.                                                          *)
LEMMA OneElement ==
  ASSUME NEW ns, NEW k \in Nat
  PROVE  <<k>> \in Seq(Nat) /\ ToSet(<<k>>) = {k} /\ Sorted(ns, <<k>>)
  <1>1. <<k>> \in Seq(Nat) /\ Len(<<k>>) = 1 /\ <<k>>[1] = k /\ DOMAIN <<k>> = {1}
    OBVIOUS
  <1>2. ToSet(<<k>>) = {k}
    BY <1>1 DEF ToSet
  <1>3. \A p, q \in 1 .. 1 : ~ (p < q)
    OBVIOUS
  <1> QED
    BY <1>1, <1>2, <1>3 DEF Sorted

(* Keys before a key, the key, and those after it ...                     *)
LEMMA AroundElements ==
  ASSUME NEW u \in Seq(Nat), NEW k \in Nat, NEW v \in Seq(Nat)
  PROVE  /\ u \o <<k>> \o v \in Seq(Nat)
         /\ ToSet(u \o <<k>> \o v) = ToSet(u) \cup {k} \cup ToSet(v)
  <1> DEFINE e == <<k>>
             x == u \o e
  <1>1. e \in Seq(Nat) /\ ToSet(e) = {k}
    <2>1. e \in Seq(Nat) /\ DOMAIN e = {1} /\ e[1] = k
      OBVIOUS
    <2> QED
      BY <2>1 DEF ToSet
  <1> HIDE DEF e
  <1>2. x \in Seq(Nat) /\ ToSet(x) = ToSet(u) \cup {k}
    BY <1>1, JoinedElements
  <1> HIDE DEF x
  <1>4. x \o v \in Seq(Nat) /\ ToSet(x \o v) = ToSet(x) \cup ToSet(v)
    BY <1>2, JoinedElements
  <1> QED
    BY <1>2, <1>4 DEF x, e

(* ... and when they are in order.                                         *)
LEMMA AroundKey ==
  ASSUME NEW ns, NEW u \in Seq(Nat), NEW k \in Nat, NEW v \in Seq(Nat)
  PROVE  Sorted(ns, u \o <<k>> \o v) <=>
              /\ Sorted(ns, u) /\ Sorted(ns, v)
              /\ Before(ns, ToSet(u), {k}) /\ Before(ns, ToSet(u), ToSet(v)) /\ Before(ns, {k}, ToSet(v))
  <1> DEFINE e == <<k>>
             x == u \o e
  <1>1. e \in Seq(Nat) /\ ToSet(e) = {k} /\ Sorted(ns, e)
    BY OneElement
  <1> HIDE DEF e
  <1>2. x \in Seq(Nat) /\ ToSet(x) = ToSet(u) \cup {k}
    BY <1>1, JoinedElements
  <1>3. Sorted(ns, x) <=> Sorted(ns, u) /\ Before(ns, ToSet(u), {k})
    BY <1>1, JoinedSorted
  <1> HIDE DEF x
  <1>5. Sorted(ns, x \o v) <=> Sorted(ns, x) /\ Sorted(ns, v) /\ Before(ns, ToSet(x), ToSet(v))
    BY <1>2, JoinedSorted
  <1>6. Before(ns, ToSet(u) \cup {k}, ToSet(v)) <=> Before(ns, ToSet(u), ToSet(v)) /\ Before(ns, {k}, ToSet(v))
    BY DEF Before
  <1>7. Sorted(ns, x \o v) <=>
              /\ Sorted(ns, u) /\ Sorted(ns, v)
              /\ Before(ns, ToSet(u), {k}) /\ Before(ns, ToSet(u), ToSet(v)) /\ Before(ns, {k}, ToSet(v))
    BY <1>2, <1>3, <1>5, <1>6
  <1> QED
    BY <1>7 DEF x, e

(* A sequence of different elements is as long as they are many.           *)
LEMMA SortedLength ==
  ASSUME NEW ns, NEW w \in Seq(Nat), Sorted(ns, w)
  PROVE  Len(w) = Cardinality(ToSet(w))
  <1> DEFINE n == Len(w)  D == 1 .. n
  <1>1. n \in Nat /\ w \in [D -> ToSet(w)]
    BY DEF ToSet
  <1>2. ASSUME NEW p \in D, NEW q \in D, w[p] = w[q] PROVE p = q
    <2>1. p \in Nat /\ q \in Nat
      BY <1>1
    <2>2. p < q => w[p] # w[q]
      BY DEF Sorted
    <2>3. q < p => w[q] # w[p]
      BY DEF Sorted
    <2> QED
      BY <1>2, <2>1, <2>2, <2>3
  <1>3. \A x \in ToSet(w) : \E p \in D : w[p] = x
    BY DEF ToSet
  <1>4. IsFiniteSet(D) /\ Cardinality(D) = n
    BY <1>1, FS_Interval
  <1> HIDE DEF D
  <1>5. w \in Bijection(D, ToSet(w))
    BY <1>1, <1>2, <1>3 DEF Bijection, Injection, IsInjective, Surjection
  <1>6. ExistsBijection(D, ToSet(w))
    BY <1>5 DEF ExistsBijection
  <1>7. Cardinality(ToSet(w)) = Cardinality(D)
    BY <1>4, <1>6, FS_Bijection
  <1> QED
    BY <1>4, <1>7

---------------------------------------------------------------------------
(* The search tree of an object, in a pool of nodes it shares with those   *)
(* of the others.                                                          *)

\* kt2 is kt and a node for key new, below node a if there is such a node.
PoolGrown(kt, kt2, a, toLeft, new) ==
  /\ Len(kt2) = Len(kt) + 1
  /\ \A i \in 1 .. Len(kt) :
       /\ kt2[i].key = kt[i].key
       /\ kt2[i].left = IF i = a /\ toLeft THEN Len(kt) + 1 ELSE kt[i].left
       /\ kt2[i].right = IF i = a /\ ~toLeft THEN Len(kt) + 1 ELSE kt[i].right
  /\ kt2[Len(kt) + 1].key = new
  /\ kt2[Len(kt) + 1].left = 0
  /\ kt2[Len(kt) + 1].right = 0

(* Links still point onward; the new node has its key only.                *)
LEMMA PoolGrows ==
  ASSUME NEW kt, NEW kt2, PoolOK(kt), NEW a, NEW toLeft, NEW new \in Nat, PoolGrown(kt, kt2, a, toLeft, new)
  PROVE  PoolOK(kt2) /\ InOrder(kt2)[Len(kt) + 1] = <<new>> /\ InOrder(kt2)[0] = <<>>
  <1> DEFINE n == Len(kt)
             m == n + 1
  <1>1. n \in Nat /\ m \in Nat /\ Len(kt2) = m
    BY DEF PoolOK, PoolGrown
  <1>2. ASSUME NEW i \in 1 .. m
        PROVE  kt2[i].left \in Onward(i, m) /\ kt2[i].right \in Onward(i, m) /\ kt2[i].key \in Nat
    <2>1. CASE i = m
      BY <2>1 DEF PoolGrown, Onward
    <2>2. CASE i # m
      <3>1. i \in 1 .. n /\ m \in i + 1 .. m
        BY <1>1, <2>2
      <3>2. kt[i].left \in Onward(i, n) /\ kt[i].right \in Onward(i, n) /\ kt[i].key \in Nat
        BY <3>1 DEF PoolOK
      <3>3. Onward(i, n) \subseteq Onward(i, m)
        BY <1>1, <3>1 DEF Onward
      <3>4. m \in Onward(i, m)
        BY <3>1 DEF Onward
      <3>5. kt2[i].key = kt[i].key /\ kt2[i].left \in {m, kt[i].left} /\ kt2[i].right \in {m, kt[i].right}
        BY <3>1 DEF PoolGrown
      <3> QED
        BY <3>2, <3>3, <3>4, <3>5
    <2> QED
      BY <2>1, <2>2
  <1>3. PoolOK(kt2)
    BY <1>1, <1>2 DEF PoolOK
  <1>4. InOrder(kt2)[0] = <<>> /\ InOrder(kt2)[m] = <<>> \o <<new>> \o <<>>
    <2>1. m \in 1 .. Len(kt2)
      BY <1>1
    <2>2. kt2[m].key = new /\ kt2[m].left = 0 /\ kt2[m].right = 0
      BY DEF PoolGrown
    <2>3. /\ InOrder(kt2)[0] = <<>>
          /\ \A i \in 1 .. Len(kt2) :
               InOrder(kt2)[i] = InOrder(kt2)[kt2[i].left] \o <<kt2[i].key>> \o InOrder(kt2)[kt2[i].right]
      BY <1>3, InOrderUnfold
    <2> HIDE DEF m
    <2> QED
      BY <2>1, <2>2, <2>3
  <1>5. <<>> \o <<new>> \o <<>> = <<new>>
    OBVIOUS
  <1> QED
    BY <1>3, <1>4, <1>5

(* Nodes not above the new one have the keys they had.                     *)
LEMMA OtherTrees ==
  ASSUME NEW kt, NEW kt2, PoolOK(kt), NEW a, NEW toLeft, NEW new \in Nat, PoolGrown(kt, kt2, a, toLeft, new),
         NEW r \in 0 .. Len(kt), a \in 1 .. Len(kt) => kt[a].key \notin ToSet(InOrder(kt)[r])
  PROVE  InOrder(kt2)[r] = InOrder(kt)[r]
  <1> DEFINE n == Len(kt)
             w == InOrder(kt)
             w2 == InOrder(kt2)
             Out(i) == a \in 1 .. n => kt[a].key \notin ToSet(w[i])
             T == {i \in 0 .. n : Out(i) /\ w2[i] # w[i]}
  <1>0. PoolOK(kt2)
    BY PoolGrows
  <1>1. n \in Nat /\ Len(kt2) = n + 1 /\ PoolOK(kt2)
    BY <1>0 DEF PoolOK, PoolGrown
  <1>2. /\ w[0] = <<>> /\ \A i \in 0 .. n : w[i] \in Seq(Nat)
        /\ \A i \in 1 .. n : w[i] = w[kt[i].left] \o <<kt[i].key>> \o w[kt[i].right]
    BY InOrderUnfold
  <1>3. w2[0] = <<>> /\ \A i \in 1 .. n + 1 : w2[i] = w2[kt2[i].left] \o <<kt2[i].key>> \o w2[kt2[i].right]
    BY <1>1, InOrderUnfold
  <1> HIDE DEF w, w2, n
  <1>4. T = {}
    <2> SUFFICES ASSUME T # {} PROVE FALSE
      OBVIOUS
    <2>1. PICK i \in T : \A k \in T : k <= i
      <3>1. T \subseteq 0 .. n
        OBVIOUS
      <3> HIDE DEF T
      <3> QED
        BY <1>1, <3>1, GreatestNat
    <2>2. i \in 0 .. n /\ Out(i) /\ w2[i] # w[i]
      OBVIOUS
    <2>3. i \in 1 .. n /\ i \in 1 .. n + 1
      BY <1>1, <1>2, <1>3, <2>2
    <2> DEFINE l == kt[i].left
               q == kt[i].right
               K == kt[i].key
    <2>4. l \in 0 .. n /\ q \in 0 .. n /\ K \in Nat /\ l \in Onward(i, n) /\ q \in Onward(i, n)
      BY <1>1, <2>3 DEF PoolOK, Onward, n
    <2>5. w[i] = w[l] \o <<K>> \o w[q] /\ w[l] \in Seq(Nat) /\ w[q] \in Seq(Nat)
      BY <1>2, <2>3, <2>4
    <2>6. ToSet(w[i]) = ToSet(w[l]) \cup {K} \cup ToSet(w[q])
      <3> HIDE DEF l, q, K
      <3> QED
        BY <2>4, <2>5, AroundElements
    <2>7. i # a
      BY <2>2, <2>3, <2>6
    <2>8. kt2[i].left = l /\ kt2[i].right = q /\ kt2[i].key = K
      BY <2>3, <2>7 DEF PoolGrown, n
    <2>9. Out(l) /\ Out(q)
      BY <2>2, <2>6
    <2>10. w2[l] = w[l] /\ w2[q] = w[q]
      <3>1. \A j \in Onward(i, n) : j = 0 \/ (j \in 0 .. n /\ ~ (j <= i))
        BY <1>1, <2>3 DEF Onward
      <3>2. \A j \in Onward(i, n) : Out(j) => w2[j] = w[j]
        BY <1>2, <1>3, <2>1, <3>1
      <3> HIDE DEF l, q
      <3> QED
        BY <2>4, <2>9, <3>2
    <2>11. w2[i] = w2[l] \o <<K>> \o w2[q]
      BY <1>3, <2>3, <2>8
    <2> QED
      BY <2>2, <2>5, <2>10, <2>11
  <1>5. r \notin T /\ r \in 0 .. n /\ Out(r)
    BY <1>4 DEF n, w
  <1>6. w2[r] = w[r]
    BY <1>5
  <1> QED
    BY <1>6 DEF w, w2

\* Put together in either order, sequences give the same.
AnyGrouping(x, y, q) == (x \o y) \o q = x \o (y \o q)

(* Sequences put together in different ways.                               *)
LEMMA KeysRegrouped ==
  ASSUME NEW x \in Seq(Nat), NEW y \in Seq(Nat), NEW q \in Seq(Nat)
  PROVE  AnyGrouping(x, y, q)
  <1> DEFINE X == Nat
  <1>1. x \in Seq(X) /\ y \in Seq(X) /\ q \in Seq(X)
    OBVIOUS
  <1> HIDE DEF X
  <1> QED
    BY <1>1, ConcatAssociative DEF AnyGrouping

GroupedLeft(u, e, v, k, q)  == (u \o e \o v) \o k \o q = u \o e \o (v \o k \o q)

GroupedRight(u, k, v, e, q) == u \o k \o (v \o e \o q) = (u \o k \o v) \o e \o q

(* To the left of a sequence, ...                                          *)
LEMMA RegroupLeft ==
  ASSUME NEW u \in Seq(Nat), NEW e \in Seq(Nat), NEW v \in Seq(Nat), NEW k \in Seq(Nat), NEW q \in Seq(Nat)
  PROVE  GroupedLeft(u, e, v, k, q)
  <1> DEFINE x == u \o e
             y == v \o k
  <1>1. x \in Seq(Nat)
    BY ConcatProperties
  <1>2. y \in Seq(Nat)
    BY ConcatProperties
  <1> HIDE DEF x, y
  <1>3. AnyGrouping(x, v, k)
    BY <1>1, KeysRegrouped
  <1>4. AnyGrouping(x, y, q)
    BY <1>1, <1>2, KeysRegrouped
  <1> QED
    BY <1>3, <1>4 DEF x, y, AnyGrouping, GroupedLeft

(* ... and to its right.                                                   *)
LEMMA RegroupRight ==
  ASSUME NEW u \in Seq(Nat), NEW e \in Seq(Nat), NEW v \in Seq(Nat), NEW k \in Seq(Nat), NEW q \in Seq(Nat)
  PROVE  GroupedRight(u, k, v, e, q)
  <1> DEFINE x == u \o k
             y == v \o e
  <1>1. x \in Seq(Nat)
    BY ConcatProperties
  <1>2. y \in Seq(Nat)
    BY ConcatProperties
  <1> HIDE DEF x, y
  <1>3. AnyGrouping(x, v, e)
    BY <1>1, KeysRegrouped
  <1>4. AnyGrouping(x, y, q)
    BY <1>1, <1>2, KeysRegrouped
  <1> QED
    BY <1>3, <1>4 DEF x, y, AnyGrouping, GroupedRight

\* w2 is w with a key of this name put in, where it belongs.
PutIn(ns, w, w2, new, name) ==
  \E u, v \in Seq(Nat) :
    /\ w = u \o v
    /\ w2 = u \o <<new>> \o v
    /\ \A x \in ToSet(u) : NameIn(ns, x) <= name
    /\ \A y \in ToSet(v) : name <= NameIn(ns, y)

(* In a tree with the keys around a key, something put in on one side.     *)
LEMMA PutBeside ==
  ASSUME NEW ns, NEW l \in Seq(Nat), NEW K \in Nat, NEW q \in Seq(Nat), NEW name \in Nat, NEW new \in Nat, NEW x,
         \A k \in ToSet(l \o <<K>> \o q) : NameIn(ns, k) \in Nat,
         Sorted(ns, l \o <<K>> \o q)
  PROVE  /\ PutIn(ns, l, x, new, name) /\ name < NameIn(ns, K) => PutIn(ns, l \o <<K>> \o q, x \o <<K>> \o q, new, name)
         /\ PutIn(ns, q, x, new, name) /\ ~ (name < NameIn(ns, K)) => PutIn(ns, l \o <<K>> \o q, l \o <<K>> \o x, new, name)
  <1> DEFINE e == <<new>>
             k == <<K>>
             w == l \o k \o q
  <1>1. e \in Seq(Nat) /\ k \in Seq(Nat)
    OBVIOUS
  <1>2. ToSet(w) = ToSet(l) \cup {K} \cup ToSet(q)
    BY AroundElements
  <1>3. /\ Before(ns, ToSet(l), {K}) /\ Before(ns, ToSet(l), ToSet(q)) /\ Before(ns, {K}, ToSet(q))
    BY AroundKey
  <1>4. /\ \A y \in ToSet(l) : NameIn(ns, y) \in Nat /\ NameIn(ns, y) <= NameIn(ns, K)
        /\ \A y \in ToSet(q) : NameIn(ns, y) \in Nat /\ NameIn(ns, K) <= NameIn(ns, y)
        /\ NameIn(ns, K) \in Nat
    BY <1>2, <1>3 DEF Before
  <1>5. ASSUME PutIn(ns, l, x, new, name), name < NameIn(ns, K) PROVE PutIn(ns, w, x \o k \o q, new, name)
    <2>1. PICK u, v \in Seq(Nat) : /\ l = u \o v /\ x = u \o e \o v
                                   /\ \A y \in ToSet(u) : NameIn(ns, y) <= name
                                   /\ \A y \in ToSet(v) : name <= NameIn(ns, y)
      BY <1>5 DEF PutIn
    <2>0. u \in Seq(Nat) /\ v \in Seq(Nat)
      BY <2>1
    <2> DEFINE z == v \o k \o q
    <2>2. z \in Seq(Nat) /\ ToSet(z) = ToSet(v) \cup {K} \cup ToSet(q)
      BY AroundElements
    <2>3. w = u \o z
      <3>1. <<>> \in Seq(Nat) /\ u \o <<>> = u
        BY ConcatEmptySeq
      <3>2. (u \o <<>> \o v) \o k \o q = u \o <<>> \o (v \o k \o q)
        <4> DEFINE o == <<>>
        <4> HIDE DEF o, k
        <4>1. o \in Seq(Nat)
          BY DEF o
        <4>2. GroupedLeft(u, o, v, k, q)
          BY <1>1, <2>0, <4>1, RegroupLeft
        <4> QED
          BY <4>2 DEF o, GroupedLeft
      <3> QED
        BY <2>1, <3>1, <3>2
    <2>4. x \o k \o q = u \o e \o z
      <3> HIDE DEF k, e
      <3>1. GroupedLeft(u, e, v, k, q)
        BY <1>1, <2>0, RegroupLeft
      <3> QED
        BY <2>1, <3>1 DEF GroupedLeft
    <2> HIDE DEF z, w, e, k
    <2>5. \A y \in ToSet(z) : name <= NameIn(ns, y)
      BY <1>4, <1>5, <2>1, <2>2
    <2> QED
      BY <2>1, <2>2, <2>3, <2>4, <2>5 DEF PutIn, e
  <1>6. ASSUME PutIn(ns, q, x, new, name), ~ (name < NameIn(ns, K)) PROVE PutIn(ns, w, l \o k \o x, new, name)
    <2>1. PICK u, v \in Seq(Nat) : /\ q = u \o v /\ x = u \o e \o v
                                   /\ \A y \in ToSet(u) : NameIn(ns, y) <= name
                                   /\ \A y \in ToSet(v) : name <= NameIn(ns, y)
      BY <1>6 DEF PutIn
    <2>0. u \in Seq(Nat) /\ v \in Seq(Nat)
      BY <2>1
    <2> DEFINE z == l \o k \o u
    <2>2. z \in Seq(Nat) /\ ToSet(z) = ToSet(l) \cup {K} \cup ToSet(u)
      BY AroundElements
    <2>3. w = z \o v
      <3>1. <<>> \in Seq(Nat) /\ u \o <<>> = u /\ z \o <<>> = z
        BY <2>2, ConcatEmptySeq
      <3>2. l \o k \o (u \o <<>> \o v) = (l \o k \o u) \o <<>> \o v
        <4> DEFINE o == <<>>
        <4> HIDE DEF o, k
        <4>1. o \in Seq(Nat)
          BY DEF o
        <4>2. GroupedRight(l, k, u, o, v)
          BY <1>1, <2>0, <4>1, RegroupRight
        <4> QED
          BY <4>2 DEF o, GroupedRight
      <3> QED
        BY <2>1, <3>1, <3>2
    <2>4. l \o k \o x = z \o e \o v
      <3> HIDE DEF k, e
      <3>1. GroupedRight(l, k, u, e, v)
        BY <1>1, <2>0, RegroupRight
      <3> QED
        BY <2>1, <3>1 DEF GroupedRight
    <2> HIDE DEF z, w, e, k
    <2>5. \A y \in ToSet(z) : NameIn(ns, y) <= name
      BY <1>4, <1>6, <2>1, <2>2
    <2> QED
      BY <2>1, <2>2, <2>3, <2>4, <2>5 DEF PutIn, e
  <1> QED
    BY <1>5, <1>6

(* What is put in.                                                         *)
LEMMA PutFacts ==
  ASSUME NEW ns, NEW w \in Seq(Nat), NEW w2, NEW new \in Nat, NEW name \in Nat, PutIn(ns, w, w2, new, name),
         NameIn(ns, new) = name, new \notin ToSet(w), Sorted(ns, w), \A k \in ToSet(w) : NameIn(ns, k) \in Nat
  PROVE  Sorted(ns, w2) /\ ToSet(w2) = ToSet(w) \cup {new}
  <1>1. PICK u, v \in Seq(Nat) :
    /\ w = u \o v
    /\ w2 = u \o <<new>> \o v
    /\ \A x \in ToSet(u) : NameIn(ns, x) <= name
    /\ \A y \in ToSet(v) : name <= NameIn(ns, y)
    BY DEF PutIn
  <1>2. u \in Seq(Nat) /\ v \in Seq(Nat)
    BY <1>1
  <1>3. ToSet(u \o v) = ToSet(u) \cup ToSet(v) /\ ToSet(u \o <<new>> \o v) = ToSet(u) \cup {new} \cup ToSet(v)
    BY <1>2, JoinedElements, AroundElements
  <1>4. Sorted(ns, u) /\ Sorted(ns, v) /\ Before(ns, ToSet(u), ToSet(v))
    <2>1. Sorted(ns, u \o v)
      BY <1>1
    <2> QED
      BY <1>2, <2>1, JoinedSorted
  <1>5. Before(ns, ToSet(u), {new}) /\ Before(ns, {new}, ToSet(v))
    BY <1>1, <1>3 DEF Before
  <1>6. Sorted(ns, u \o <<new>> \o v)
    BY <1>2, <1>4, <1>5, AroundKey
  <1> QED
    BY <1>1, <1>3, <1>6

(* Sequences of nodes with the names they had.                             *)
LEMMA SameNames ==
  ASSUME NEW ns, NEW ns2, NEW w \in Seq(Nat), \A k \in ToSet(w) : NameIn(ns2, k) = NameIn(ns, k), Sorted(ns, w)
  PROVE  /\ Sorted(ns2, w)
         /\ \A w2, new, name : PutIn(ns, w, w2, new, name) => PutIn(ns2, w, w2, new, name)
  <1>1. \A i \in 1 .. Len(w) : w[i] \in ToSet(w)
    BY DEF ToSet
  <1>2. Sorted(ns2, w)
    BY <1>1 DEF Sorted
  <1>3. ASSUME NEW w2, NEW new, NEW name, PutIn(ns, w, w2, new, name)
        PROVE  PutIn(ns2, w, w2, new, name)
    <2>1. PICK u, v \in Seq(Nat) : /\ w = u \o v
                                   /\ w2 = u \o <<new>> \o v
                                   /\ \A x \in ToSet(u) : NameIn(ns, x) <= name
                                   /\ \A y \in ToSet(v) : name <= NameIn(ns, y)
      BY <1>3 DEF PutIn
    <2>2. ToSet(w) = ToSet(u) \cup ToSet(v)
      BY <2>1, JoinedElements
    <2>3. (\A x \in ToSet(u) : NameIn(ns2, x) <= name) /\ (\A y \in ToSet(v) : name <= NameIn(ns2, y))
      BY <2>1, <2>2
    <2> QED
      BY <2>1, <2>3 DEF PutIn
  <1> QED
    BY <1>2, <1>3
=============================================================================
