---------------------------- MODULE ParserProofs ----------------------------
(***************************************************************************)
(* Proofs about module JsonParser, for any texts, names, hashes and        *)
(* nesting limit: the parse keeps its stacks and links right, what the     *)
(* prescan counts is what it builds, and no key is lost or out of order.   *)
(* Each node has a span, the tokens it was made of; the spans of its       *)
(* children lie in it in order.                                            *)
(*                                                                         *)
(* Facts about stacks and trees are stated over rigid ones, the one before *)
(* a step and the one after it.                                            *)
(***************************************************************************)
EXTENDS JsonReaders, RecursionLemmas, FiniteSetTheorems, SequenceTheorems

AnyToken == Token \cup {LexerError}

Openers  == {"{", "["}
Closers  == {"}", "]"}
EndMarks == {"MARK_OBJECT_END", "MARK_ARRAY_END"}

---------------------------------------------------------------------------
(* The prescan.                                                            *)

Count == [depth : Nat, maxDepth : Nat, values : Nat, objects : Nat, arrays : Nat]

(* The tables have room for something.                                     *)
LEMMA CapacityPositive ==
  ASSUME NEW e \in Nat
  PROVE  TableCapacity(e) \in Nat \ {0}
  <1> DEFINE n == (e * 12) \div 10
  <1>1. n \in Nat
    OBVIOUS
  <1>2. Doubled(1, n) \in Nat \ {0}
    <2> HIDE DEF n
    <2> QED
      BY <1>1, DoubledEnough
  <1> QED
    BY <1>2 DEF TableCapacity, set_next_power_of_two

(* What tokens there are, and that only errors are none.                   *)
LEMMA TokenFacts ==
  /\ \A t \in Token : t.type \in Punctuation \cup {"string", "scalar"}
  /\ \A t \in AnyToken : t.type \in Punctuation \cup {"string", "scalar", "error"}
  /\ \A t \in AnyToken : t.type # "error" => t \in Token
  /\ EndOfFile.type = "eof"
  <1>1. ASSUME NEW t \in Token PROVE t.type \in Punctuation \cup {"string", "scalar"}
    <2>1. CASE \E type \in Punctuation : t = Mark(type)
      BY <2>1 DEF Mark
    <2>2. CASE t = Scalar
      BY <2>2 DEF Scalar, Mark
    <2>3. CASE \E n \in Name : t = String(n)
      BY <2>3 DEF String
    <2> QED
      BY <2>1, <2>2, <2>3 DEF Token
  <1>2. LexerError.type = "error" /\ EndOfFile.type = "eof"
    BY DEF LexerError, EndOfFile, Mark
  <1> QED
    BY <1>1, <1>2 DEF AnyToken

\* What one token adds to the counts e.
Adds(e, t, d) ==
  /\ d \in Count
  /\ d.depth = IF t.type \in Openers THEN e.depth + 1
               ELSE IF t.type \in Closers /\ e.depth > 0 THEN e.depth - 1 ELSE e.depth
  /\ d.maxDepth = IF t.type \in Openers /\ e.depth + 1 > e.maxDepth THEN e.depth + 1 ELSE e.maxDepth
  /\ d.values = IF t.type \in {"string", "scalar"} THEN e.values + 1 ELSE e.values
  /\ d.objects = IF t.type = "{" THEN e.objects + 1 ELSE e.objects
  /\ d.arrays = IF t.type = "[" THEN e.arrays + 1 ELSE e.arrays

(* One token of the prescan.                                               *)
LEMMA CountedFacts ==
  ASSUME NEW e \in Count, NEW t \in AnyToken
  PROVE  Adds(e, t, Counted(e, t))
  <1> DEFINE ty == t.type
  <1>0. /\ Deeper(e) = IF e.depth + 1 > e.maxDepth THEN e.depth + 1 ELSE e.maxDepth
        /\ Deeper(e) \in Nat
        /\ e.depth \in Nat /\ e.maxDepth \in Nat /\ e.values \in Nat /\ e.objects \in Nat /\ e.arrays \in Nat
    BY DEF Deeper, Count
  <1>1. CASE ty = "{"
    <2>1. Counted(e, t) = [e EXCEPT !.depth = @ + 1, !.maxDepth = Deeper(e), !.objects = @ + 1]
      BY <1>1 DEF Counted
    <2>2. Counted(e, t) = [depth |-> e.depth + 1, maxDepth |-> Deeper(e), values |-> e.values, objects |-> e.objects + 1, arrays |-> e.arrays]
      BY <2>1 DEF Count
    <2>3. /\ Counted(e, t).depth = e.depth + 1
          /\ Counted(e, t).maxDepth = Deeper(e)
          /\ Counted(e, t).values = e.values
          /\ Counted(e, t).objects = e.objects + 1
          /\ Counted(e, t).arrays = e.arrays
      BY <2>2
    <2>4. Counted(e, t) \in Count
      <3> DEFINE a == e.depth + 1  b == Deeper(e)  c == e.objects + 1
      <3>1. a \in Nat /\ b \in Nat /\ c \in Nat
        BY <1>0
      <3> HIDE DEF a, b, c
      <3> QED
        BY <1>0, <2>2, <3>1 DEF a, b, c, Count
    <2> QED
      BY <1>0, <1>1, <2>3, <2>4 DEF Adds, Openers, Closers
  <1>2. CASE ty = "["
    <2>1. Counted(e, t) = [e EXCEPT !.depth = @ + 1, !.maxDepth = Deeper(e), !.arrays = @ + 1]
      BY <1>2 DEF Counted
    <2>2. Counted(e, t) = [depth |-> e.depth + 1, maxDepth |-> Deeper(e), values |-> e.values, objects |-> e.objects, arrays |-> e.arrays + 1]
      BY <2>1 DEF Count
    <2>3. /\ Counted(e, t).depth = e.depth + 1
          /\ Counted(e, t).maxDepth = Deeper(e)
          /\ Counted(e, t).values = e.values
          /\ Counted(e, t).objects = e.objects
          /\ Counted(e, t).arrays = e.arrays + 1
      BY <2>2
    <2>4. Counted(e, t) \in Count
      BY <1>0, <1>2, <2>2 DEF Count
    <2> QED
      BY <1>0, <1>2, <2>3, <2>4 DEF Adds, Openers, Closers
  <1>3. CASE ty \in {"}", "]"} /\ e.depth > 0
    <2>1. Counted(e, t) = [e EXCEPT !.depth = @ - 1]
      BY <1>3 DEF Counted
    <2>2. Counted(e, t) = [depth |-> e.depth - 1, maxDepth |-> e.maxDepth, values |-> e.values, objects |-> e.objects, arrays |-> e.arrays]
      BY <2>1 DEF Count
    <2>3. /\ Counted(e, t).depth = e.depth - 1
          /\ Counted(e, t).maxDepth = e.maxDepth
          /\ Counted(e, t).values = e.values
          /\ Counted(e, t).objects = e.objects
          /\ Counted(e, t).arrays = e.arrays
      BY <2>2
    <2>4. Counted(e, t) \in Count
      <3> DEFINE a == e.depth - 1
      <3>1. a \in Nat
        <4>1. e.depth \in Nat
          BY <1>0
        <4>2. e.depth > 0
          BY <1>3
        <4> QED
          BY <4>1, <4>2
      <3>2. Counted(e, t) = [depth |-> a, maxDepth |-> e.maxDepth, values |-> e.values, objects |-> e.objects, arrays |-> e.arrays]
        BY <2>2
      <3> HIDE DEF a
      <3> QED
        BY <1>0, <3>1, <3>2 DEF Count
    <2> QED
      BY <1>0, <1>3, <2>3, <2>4 DEF Adds, Openers, Closers
  <1>4. CASE ty \in {"string", "scalar"}
    <2>1. Counted(e, t) = [e EXCEPT !.values = @ + 1]
      BY <1>4 DEF Counted
    <2>2. Counted(e, t) = [depth |-> e.depth, maxDepth |-> e.maxDepth, values |-> e.values + 1, objects |-> e.objects, arrays |-> e.arrays]
      BY <2>1 DEF Count
    <2>3. /\ Counted(e, t).depth = e.depth
          /\ Counted(e, t).maxDepth = e.maxDepth
          /\ Counted(e, t).values = e.values + 1
          /\ Counted(e, t).objects = e.objects
          /\ Counted(e, t).arrays = e.arrays
      BY <2>2
    <2>4. Counted(e, t) \in Count
      BY <1>0, <1>4, <2>2 DEF Count
    <2> QED
      BY <1>0, <1>4, <2>3, <2>4 DEF Adds, Openers, Closers
  <1>5. CASE ty \notin {"{", "[", "string", "scalar"} /\ ~ (ty \in {"}", "]"} /\ e.depth > 0)
    <2>1. Counted(e, t) = e
      BY <1>5 DEF Counted
    <2> QED
      BY <1>5, <2>1 DEF Adds, Count, Openers, Closers
  <1> QED
    BY <1>1, <1>2, <1>3, <1>4, <1>5

(* The counts of a prefix are those of the one before it and a token.      *)
LEMMA CountsUnfold ==
  ASSUME NEW text \in Seq(AnyToken)
  PROVE  /\ Counts(text)[0] = NothingCounted
         /\ \A i \in 1 .. Len(text) : Counts(text)[i] = Counted(Counts(text)[i - 1], text[i])
         /\ \A i \in 0 .. Len(text) : Counts(text)[i] \in Count
  <1> DEFINE n == Len(text)
             Is(f) == f = [i \in 0 .. n |-> IF i = 0 THEN NothingCounted ELSE Counted(f[i - 1], text[i])]
             up   == [i \in 1 .. n |-> i - 1]
             val  == [i \in 0 .. n |-> NothingCounted]
             step == [i \in 0 .. n |-> [e \in Count |-> IF i = 0 THEN e ELSE Counted(e, text[i])]]
  <1>0. n \in Nat
    OBVIOUS
  <1>1. /\ 0 \in {0}
        /\ \A i \in 1 .. n : i \notin {0} => up[i] \in 0 .. i - 1
        /\ \A i \in 0 .. n : i \in {0} => val[i] \in Count
        /\ \A i \in 0 .. n : step[i] \in [Count -> Count]
    <2>1. NothingCounted \in Count
      BY DEF NothingCounted, Count
    <2>2. ASSUME NEW i \in 0 .. n PROVE step[i] \in [Count -> Count]
      <3>1. ASSUME NEW e \in Count PROVE (IF i = 0 THEN e ELSE Counted(e, text[i])) \in Count
        <4>1. CASE i # 0
          <5>1. text[i] \in AnyToken
            BY <4>1
          <5>2. Adds(e, text[i], Counted(e, text[i]))
            BY <5>1, CountedFacts
          <5> QED
            BY <4>1, <5>2 DEF Adds
        <4> QED
          BY <4>1
      <3> QED
        BY <3>1
    <2> QED
      BY <2>1, <2>2
  <1>2. PICK f : Recursion(f, n, {0}, val, up, step) /\ f \in [0 .. n -> Count]
    <2> HIDE DEF up, val, step, n
    <2> QED
      BY <1>0, <1>1, RecursionExists
  <1>3. Is(f)
    <2>1. ASSUME NEW i \in 0 .. n
          PROVE  f[i] = IF i = 0 THEN NothingCounted ELSE Counted(f[i - 1], text[i])
      <3>1. f[i] = IF i \in {0} THEN val[i] ELSE step[i][f[up[i]]]
        <4> HIDE DEF up, val, step
        <4> QED
          BY <1>2 DEF Recursion
      <3>2. ASSUME i # 0 PROVE up[i] = i - 1 /\ f[i - 1] \in Count
        <4>1. i \in 1 .. n /\ i - 1 \in 0 .. n
          BY <3>2
        <4> QED
          BY <1>2, <4>1
      <3> QED
        BY <3>1, <3>2
    <2>2. f = [i \in 0 .. n |-> f[i]]
      BY <1>2
    <2> QED
      BY <2>1, <2>2
  <1> DEFINE counts == Counts(text)
  <1>4. Is(counts)
    <2>1. counts = CHOOSE g : Is(g)
      BY DEF Counts
    <2>2. Is(CHOOSE g : Is(g))
      <3> HIDE DEF Is
      <3> QED
        BY <1>3
    <2> QED
      BY <2>1, <2>2
  <1> HIDE DEF counts
  <1>5. /\ counts[0] = NothingCounted
        /\ \A i \in 1 .. n : counts[i] = Counted(counts[i - 1], text[i])
    BY <1>4
  <1>6. \A i \in 0 .. n : counts[i] \in Count
    <2> DEFINE T == {i \in 0 .. n : counts[i] \notin Count}
    <2> SUFFICES ASSUME T # {} PROVE FALSE
      OBVIOUS
    <2>1. PICK i \in T : \A j \in T : i <= j
      <3>1. T \subseteq Nat
        OBVIOUS
      <3> HIDE DEF T
      <3> QED
        BY <3>1, LeastNat
    <2>2. i \in 0 .. n /\ counts[i] \notin Count
      BY <2>1
    <2>3. i # 0
      BY <1>5, <2>2 DEF NothingCounted, Count
    <2>4. i - 1 \in 0 .. n /\ i - 1 \notin T
      <3>1. i - 1 \in 0 .. n /\ i - 1 < i
        BY <2>2, <2>3
      <3> HIDE DEF T
      <3> QED
        BY <2>1, <2>2, <3>1
    <2>5. counts[i - 1] \in Count /\ text[i] \in AnyToken
      BY <2>2, <2>3, <2>4
    <2>6. counts[i] = Counted(counts[i - 1], text[i])
      BY <1>5, <2>2, <2>3
    <2> QED
      BY <2>2, <2>5, <2>6, CountedFacts DEF Adds
  <1> QED
    BY <1>5, <1>6 DEF counts

(* The greatest depth of a prefix only grows with it.                      *)
LEMMA DepthGrows ==
  ASSUME NEW text \in Seq(AnyToken), NEW i \in 0 .. Len(text)
  PROVE  Counts(text)[Len(text)].maxDepth >= Counts(text)[i].maxDepth
  <1> DEFINE m(j) == Counts(text)[j].maxDepth
             T == {j \in i .. Len(text) : ~ (m(j) >= m(i))}
  <1>1. \A j \in 0 .. Len(text) : m(j) \in Nat
    BY CountsUnfold DEF Count
  <1>2. \A j \in 1 .. Len(text) : m(j) >= m(j - 1)
    <2> TAKE j \in 1 .. Len(text)
    <2>1. Counts(text)[j - 1] \in Count /\ text[j] \in AnyToken
      BY CountsUnfold
    <2>2. Adds(Counts(text)[j - 1], text[j], Counts(text)[j])
      <3>1. Counts(text)[j] = Counted(Counts(text)[j - 1], text[j])
        BY CountsUnfold
      <3> QED
        BY <2>1, <3>1, CountedFacts
    <2>3. j \in 0 .. Len(text) /\ j - 1 \in 0 .. Len(text)
      OBVIOUS
    <2>4. LET d == Counts(text)[j - 1] IN
          m(j) = IF text[j].type \in Openers /\ d.depth + 1 > d.maxDepth THEN d.depth + 1 ELSE d.maxDepth
      BY <2>2 DEF Adds
    <2>5. Counts(text)[j - 1].depth \in Nat
      BY <2>1 DEF Count
    <2> QED
      BY <1>1, <2>3, <2>4, <2>5
  <1> HIDE DEF m
  <1>3. T = {}
    <2> SUFFICES ASSUME T # {} PROVE FALSE
      OBVIOUS
    <2>1. PICK j \in T : \A k \in T : j <= k
      <3>1. T \subseteq Nat
        OBVIOUS
      <3> HIDE DEF T
      <3> QED
        BY <3>1, LeastNat
    <2>2. j # i /\ j \in i .. Len(text) /\ ~ (m(j) >= m(i))
      BY <1>1, <2>1
    <2>3. j - 1 \in i .. Len(text) /\ j - 1 \notin T
      <3>1. j - 1 \in i .. Len(text) /\ j - 1 < j
        BY <2>2
      <3> HIDE DEF T
      <3> QED
        BY <2>1, <2>2, <3>1
    <2>4. m(j - 1) >= m(i)
      BY <2>3
    <2>5. j \in 1 .. Len(text) /\ j \in 0 .. Len(text) /\ j - 1 \in 0 .. Len(text) /\ i \in 0 .. Len(text)
      BY <2>2, <2>3
    <2>6. m(j) >= m(j - 1) /\ m(j) \in Nat /\ m(j - 1) \in Nat /\ m(i) \in Nat
      BY <1>1, <1>2, <2>5
    <2>7. m(j) >= m(i)
      BY <2>4, <2>6
    <2> QED
      BY <2>2, <2>7
  <1> QED
    BY <1>3 DEF m

---------------------------------------------------------------------------
(* The stack of what is expected.                                          *)

Rules == {"RULE_JSON", "RULE_VALUE", "RULE_OBJECT", "RULE_ARRAY", "RULE_MEMBERS", "RULE_PAIR", "RULE_ELEMENTS",
          "RULE_NEXT_MEMBER", "RULE_NEXT_ELEMENT"}

Expectable == Symbols \cup Rules \cup EndMarks

\* Brackets and the rules that open them are on top only, an end mark lies
\* right below its closing bracket, and below all is the end of the text.
StackOK(c) ==
  /\ c \in Seq(Expectable)
  /\ \A i \in 1 .. Len(c) - 1 : /\ c[i] \notin Openers \cup {"RULE_OBJECT", "RULE_ARRAY"}
                                /\ c[i] \in EndMarks <=> c[i + 1] \in Closers
  /\ Len(c) > 0 => c[1] \in {"RULE_JSON", "eof"}

Marks(c) == {i \in 1 .. Len(c) : c[i] \in EndMarks}

(* The top is replaced.                                                    *)
LEMMA PushFacts ==
  ASSUME NEW c \in Seq(Expectable), c # <<>>, NEW s \in Seq(Expectable)
  PROVE  LET d == Front(c) \o s IN
         /\ d \in Seq(Expectable)
         /\ Len(d) = Len(c) - 1 + Len(s)
         /\ \A i \in 1 .. Len(c) - 1 : d[i] = c[i]
         /\ \A i \in 1 .. Len(s) : d[Len(c) - 1 + i] = s[i]
  <1> DEFINE f == Front(c)
  <1>1. f \in Seq(Expectable) /\ Len(f) = Len(c) - 1 /\ \A i \in 1 .. Len(c) - 1 : f[i] = c[i]
    <2>1. Len(c) \in Nat \ {0}
      OBVIOUS
    <2>2. /\ \A i \in 1 .. Len(c) - 1 : c[i] \in Expectable
          /\ f = [i \in 1 .. Len(c) - 1 |-> c[i]]
      BY <2>1 DEF Front
    <2> QED
      BY <2>1, <2>2
  <1> HIDE DEF f
  <1>2. /\ f \o s \in Seq(Expectable)
        /\ Len(f \o s) = Len(f) + Len(s)
        /\ \A i \in 1 .. Len(f) + Len(s) : (f \o s)[i] = IF i <= Len(f) THEN f[i] ELSE s[i - Len(f)]
    BY <1>1, ConcatProperties
  <1>3. \A i \in 1 .. Len(s) : (f \o s)[Len(c) - 1 + i] = s[i]
    BY <1>1, <1>2
  <1>4. \A i \in 1 .. Len(c) - 1 : (f \o s)[i] = c[i]
    BY <1>1, <1>2
  <1> QED
    BY <1>1, <1>2, <1>3, <1>4 DEF f

(* The marks of a stack are finitely many.                                 *)
LEMMA MarksFinite ==
  ASSUME NEW c \in Seq(Expectable)
  PROVE  IsFiniteSet(Marks(c)) /\ Cardinality(Marks(c)) \in Nat
  <1>1. IsFiniteSet(1 .. Len(c)) /\ Marks(c) \in SUBSET (1 .. Len(c))
    BY FS_Interval DEF Marks
  <1> QED
    BY <1>1, FS_Subset, FS_CardinalityType

\* What a rule other than those that open something is replaced by.
Plain(s) ==
  /\ s \in Seq(Expectable)
  /\ \A i \in 1 .. Len(s) : s[i] \notin EndMarks \cup Closers \cup Openers
  /\ \A i \in 1 .. Len(s) - 1 : s[i] \notin {"RULE_OBJECT", "RULE_ARRAY"}

(* Replacing a rule.                                                       *)
LEMMA ExpandStack ==
  ASSUME NEW c, StackOK(c), c # <<>>, c[Len(c)] \notin EndMarks \cup Closers,
         NEW s, Plain(s),
         Len(c) = 1 => Len(s) > 0 /\ s[1] \in {"RULE_JSON", "eof"}
  PROVE  LET d == Front(c) \o s IN
         /\ StackOK(d)
         /\ Marks(d) = Marks(c)
         /\ Len(d) = Len(c) - 1 + Len(s)
         /\ Len(s) > 0 => d[Len(d)] = s[Len(s)]
         /\ Len(s) = 0 /\ Len(d) > 0 =>
              d[Len(d)] \notin EndMarks \cup Openers \cup {"RULE_OBJECT", "RULE_ARRAY"}
  <1> DEFINE d == Front(c) \o s
             n == Len(c)
             m == Len(s)
  <1>1. c \in Seq(Expectable) /\ n \in Nat \ {0} /\ s \in Seq(Expectable) /\ m \in Nat
    BY DEF StackOK, Plain
  <1>2. /\ d \in Seq(Expectable)
        /\ Len(d) = n - 1 + m
        /\ \A i \in 1 .. n - 1 : d[i] = c[i]
        /\ \A i \in 1 .. m : d[n - 1 + i] = s[i]
    BY <1>1, PushFacts
  <1> HIDE DEF d, n, m
  <1>3. \A i \in 1 .. n - 1 : /\ c[i] \notin Openers \cup {"RULE_OBJECT", "RULE_ARRAY"}
                              /\ c[i] \in EndMarks <=> c[i + 1] \in Closers
    BY DEF StackOK, n
  <1>4. \A i \in n .. n - 1 + m : d[i] = s[i - (n - 1)] /\ i - (n - 1) \in 1 .. m
    BY <1>1, <1>2
  <1>5. \A i \in n .. n - 1 + m : d[i] \notin EndMarks \cup Closers \cup Openers
    BY <1>1, <1>4 DEF Plain, m
  <1>6. n > 1 => c[n - 1] \notin EndMarks
    BY <1>1, <1>3 DEF n
  <1>7. \A i \in 1 .. Len(d) - 1 : /\ d[i] \notin Openers \cup {"RULE_OBJECT", "RULE_ARRAY"}
                                   /\ d[i] \in EndMarks <=> d[i + 1] \in Closers
    <2> TAKE i \in 1 .. Len(d) - 1
    <2>1. CASE i + 1 <= n - 1
      <3>1. i \in 1 .. n - 1 /\ i + 1 \in 1 .. n - 1
        BY <1>1, <1>2, <2>1
      <3>2. d[i] = c[i] /\ d[i + 1] = c[i + 1]
        BY <1>2, <3>1
      <3> QED
        BY <1>3, <3>1, <3>2
    <2>2. CASE i = n - 1
      BY <1>1, <1>2, <1>3, <1>5, <1>6, <2>2
    <2>3. CASE i >= n
      <3>1. i - (n - 1) \in 1 .. m - 1
        BY <1>1, <1>2, <2>3
      <3>2. \A k \in 1 .. m - 1 : s[k] \notin {"RULE_OBJECT", "RULE_ARRAY"}
        BY DEF Plain, m
      <3>3. d[i] = s[i - (n - 1)]
        BY <1>1, <1>2, <1>4, <2>3
      <3> QED
        BY <1>1, <1>2, <1>5, <2>3, <3>1, <3>2, <3>3
    <2> QED
      BY <1>1, <1>2, <2>1, <2>2, <2>3
  <1>8. Len(d) > 0 => d[1] \in {"RULE_JSON", "eof"}
    <2>1. CASE n = 1
      BY <1>1, <1>2, <2>1 DEF n, m
    <2>2. CASE n > 1
      BY <1>1, <1>2, <2>2 DEF StackOK, n
    <2> QED
      BY <1>1, <2>1, <2>2
  <1>9. Marks(d) = Marks(c)
    <2>1. \A i \in Int : i \in 1 .. Len(d) /\ d[i] \in EndMarks <=> i \in 1 .. n /\ c[i] \in EndMarks
      <3>1. c[n] \notin EndMarks
        BY DEF n
      <3> QED
        BY <1>1, <1>2, <1>5, <3>1
    <2> QED
      BY <2>1 DEF Marks, n
  <1>10. /\ m > 0 => d[Len(d)] = s[m]
         /\ m = 0 /\ Len(d) > 0 => d[Len(d)] \notin EndMarks \cup Openers \cup {"RULE_OBJECT", "RULE_ARRAY"}
    BY <1>1, <1>2, <1>3, <1>6
  <1> QED
    BY <1>2, <1>7, <1>8, <1>9, <1>10 DEF StackOK, d, n, m

(* Taking a bracket or an end mark off.                                    *)
LEMMA PopStack ==
  ASSUME NEW c, StackOK(c), c # <<>>
  PROVE  LET d == Front(c) \o <<>> IN
         /\ StackOK(d)
         /\ Len(d) = Len(c) - 1
         /\ Marks(d) = Marks(c) \ {Len(c)}
         /\ Len(d) > 0 => /\ d[Len(d)] = c[Len(c) - 1]
                          /\ d[Len(d)] \notin Openers \cup {"RULE_OBJECT", "RULE_ARRAY"}
                          /\ d[Len(d)] \in EndMarks <=> c[Len(c)] \in Closers
         /\ c[Len(c)] \in Closers => Len(d) > 0
  <1> DEFINE d == Front(c) \o <<>>
             n == Len(c)
  <1>1. c \in Seq(Expectable) /\ n \in Nat \ {0}
    BY DEF StackOK
  <1>2. /\ d \in Seq(Expectable)
        /\ Len(d) = n - 1
        /\ \A i \in 1 .. n - 1 : d[i] = c[i]
    <2>1. <<>> \in Seq(Expectable) /\ Len(<<>>) = 0
      OBVIOUS
    <2> QED
      BY <1>1, <2>1, PushFacts
  <1> HIDE DEF d, n
  <1>3. \A i \in 1 .. n - 1 : /\ c[i] \notin Openers \cup {"RULE_OBJECT", "RULE_ARRAY"}
                              /\ c[i] \in EndMarks <=> c[i + 1] \in Closers
    BY DEF StackOK, n
  <1>4. c[1] \in {"RULE_JSON", "eof"}
    BY <1>1 DEF StackOK, n
  <1>5. \A i \in 1 .. Len(d) - 1 : /\ d[i] \notin Openers \cup {"RULE_OBJECT", "RULE_ARRAY"}
                                   /\ d[i] \in EndMarks <=> d[i + 1] \in Closers
    <2> TAKE i \in 1 .. Len(d) - 1
    <2>1. i \in 1 .. n - 1 /\ i + 1 \in 1 .. n - 1
      BY <1>1, <1>2
    <2>2. d[i] = c[i] /\ d[i + 1] = c[i + 1]
      BY <1>2, <2>1
    <2> QED
      BY <1>3, <2>1, <2>2
  <1>6. Marks(d) = Marks(c) \ {n}
    <2>1. \A i \in Int : i \in 1 .. Len(d) /\ d[i] \in EndMarks <=> i \in 1 .. n /\ c[i] \in EndMarks /\ i # n
      BY <1>1, <1>2
    <2> QED
      BY <2>1 DEF Marks, n
  <1>7. Len(d) > 0 => d[Len(d)] = c[n - 1] /\ n - 1 \in 1 .. n - 1 /\ d[1] = c[1]
    BY <1>1, <1>2
  <1>8. c[n] \in Closers => n # 1
    BY <1>4 DEF Closers
  <1> QED
    BY <1>1, <1>2, <1>3, <1>4, <1>5, <1>6, <1>7, <1>8 DEF StackOK, d, n

(* Opening an object or an array.                                          *)
LEMMA OpenStack ==
  ASSUME NEW c, StackOK(c), c # <<>>, c[Len(c)] \in {"RULE_OBJECT", "RULE_ARRAY"},
         NEW end \in EndMarks, NEW close \in Closers, NEW open \in Openers,
         NEW content \in {"RULE_MEMBERS", "RULE_ELEMENTS"}, NEW s,
         s \in {<<end, close, open>>, <<end, close, content, open>>}
  PROVE  LET d == Front(c) \o s IN
         /\ StackOK(d)
         /\ Len(d) > 0
         /\ d[Len(d)] = open
         /\ Marks(d) = Marks(c) \cup {Len(c)}
         /\ Len(c) \notin Marks(c)
  <1> DEFINE d == Front(c) \o s
             n == Len(c)
             m == Len(s)
  <1>0. /\ end \in Expectable /\ close \in Expectable /\ open \in Expectable /\ content \in Expectable
        /\ end \notin Openers \cup Closers /\ close \notin Openers \cup EndMarks /\ open \notin EndMarks \cup Closers
        /\ content \notin Openers \cup Closers \cup EndMarks
        /\ end \notin {"RULE_OBJECT", "RULE_ARRAY"} /\ close \notin {"RULE_OBJECT", "RULE_ARRAY"}
        /\ content \notin {"RULE_OBJECT", "RULE_ARRAY"}
    <2>1. end \in Expectable /\ end \notin Openers \cup Closers /\ end \notin {"RULE_OBJECT", "RULE_ARRAY"}
      BY DEF EndMarks, Closers, Openers, Expectable, Symbols, Punctuation, Rules
    <2>2. close \in Expectable /\ close \notin Openers \cup EndMarks /\ close \notin {"RULE_OBJECT", "RULE_ARRAY"}
      BY DEF EndMarks, Closers, Openers, Expectable, Symbols, Punctuation, Rules
    <2>3. open \in Expectable /\ open \notin EndMarks \cup Closers
      BY DEF EndMarks, Closers, Openers, Expectable, Symbols, Punctuation, Rules
    <2>4. content \in Expectable /\ content \notin Openers \cup Closers \cup EndMarks /\ content \notin {"RULE_OBJECT", "RULE_ARRAY"}
      BY DEF EndMarks, Closers, Openers, Expectable, Symbols, Punctuation, Rules
    <2> QED
      BY <2>1, <2>2, <2>3, <2>4
  <1>1. /\ c \in Seq(Expectable) /\ n \in Nat \ {0}
        /\ s \in Seq(Expectable) /\ m \in {3, 4} /\ s[1] = end /\ s[2] = close /\ s[m] = open
        /\ m = 4 => s[3] = content
    <2>1. c \in Seq(Expectable) /\ n \in Nat \ {0}
      BY DEF StackOK
    <2>2. CASE s = <<end, close, open>>
      BY <1>0, <2>1, <2>2
    <2>3. CASE s = <<end, close, content, open>>
      BY <1>0, <2>1, <2>3
    <2> QED
      BY <2>2, <2>3
  <1>2. /\ d \in Seq(Expectable)
        /\ Len(d) = n - 1 + m
        /\ \A i \in 1 .. n - 1 : d[i] = c[i]
        /\ \A i \in 1 .. m : d[n - 1 + i] = s[i]
    BY <1>1, PushFacts
  <1>3. \A i \in 1 .. n - 1 : /\ c[i] \notin Openers \cup {"RULE_OBJECT", "RULE_ARRAY"}
                              /\ c[i] \in EndMarks <=> c[i + 1] \in Closers
    BY DEF StackOK
  <1>4. /\ c[n] \notin EndMarks \cup Closers
        /\ c[n] \notin {"RULE_JSON", "eof"}
        /\ c[1] \in {"RULE_JSON", "eof"}
    <2>1. c[n] \in {"RULE_OBJECT", "RULE_ARRAY"}
      OBVIOUS
    <2>2. c[1] \in {"RULE_JSON", "eof"}
      BY <1>1 DEF StackOK
    <2> QED
      BY <2>1, <2>2 DEF EndMarks, Closers
  <1> HIDE DEF d, n, m
  <1>5. n > 1
    BY <1>1, <1>4
  <1>6. d[n] = end /\ d[n + 1] = close /\ d[n - 1 + m] = open /\ (m = 4 => d[n + 2] = content)
    <2>1. 1 \in 1 .. m /\ 2 \in 1 .. m /\ m \in 1 .. m /\ (m = 4 => 3 \in 1 .. m)
      BY <1>1
    <2>2. n - 1 + 1 = n /\ n - 1 + 2 = n + 1 /\ n - 1 + 3 = n + 2
      BY <1>1
    <2> QED
      BY <1>1, <1>2, <2>1, <2>2
  <1>7. \A i \in 1 .. Len(d) - 1 : /\ d[i] \notin Openers \cup {"RULE_OBJECT", "RULE_ARRAY"}
                                   /\ d[i] \in EndMarks <=> d[i + 1] \in Closers
    <2> TAKE i \in 1 .. Len(d) - 1
    <2>1. CASE i + 1 <= n - 1
      <3>1. i \in 1 .. n - 1 /\ i + 1 \in 1 .. n - 1
        BY <1>1, <1>2, <2>1
      <3>2. d[i] = c[i] /\ d[i + 1] = c[i + 1]
        BY <1>2, <3>1
      <3> QED
        BY <1>3, <3>1, <3>2
    <2>2. CASE i = n - 1
      <3>1. i \in 1 .. n - 1 /\ i + 1 = n
        BY <1>1, <1>5, <2>2
      <3>2. d[i] = c[i] /\ d[i + 1] = end
        BY <1>2, <1>6, <3>1
      <3>3. c[i] \notin Openers \cup {"RULE_OBJECT", "RULE_ARRAY"} /\ c[i] \notin EndMarks
        BY <1>3, <1>4, <3>1
      <3> QED
        BY <1>0, <3>2, <3>3
    <2>3. CASE i = n
      BY <1>0, <1>1, <1>6, <2>3
    <2>4. CASE i = n + 1
      BY <1>0, <1>1, <1>6, <2>4
    <2>5. CASE i = n + 2
      BY <1>0, <1>1, <1>2, <1>6, <2>5
    <2> QED
      BY <1>1, <1>2, <2>1, <2>2, <2>3, <2>4, <2>5
  <1>8. Marks(d) = Marks(c) \cup {n} /\ n \notin Marks(c)
    <2>1. \A i \in Int : i \in 1 .. Len(d) /\ d[i] \in EndMarks <=> (i \in 1 .. n /\ c[i] \in EndMarks) \/ i = n
      <3> TAKE i \in Int
      <3>1. CASE i <= n - 1
        BY <1>1, <1>2, <3>1
      <3>2. CASE i = n
        BY <1>1, <1>2, <1>6, <3>2
      <3>3. CASE i > n
        <4>1. i \in 1 .. Len(d) => i \in {n + 1, n + 2, n - 1 + m}
          BY <1>1, <1>2, <3>3
        <4> QED
          BY <1>0, <1>1, <1>2, <1>6, <3>3, <4>1
      <3> QED
        BY <1>1, <3>1, <3>2, <3>3
    <2> QED
      BY <1>1, <1>4, <2>1 DEF Marks, n
  <1> QED
    BY <1>1, <1>2, <1>4, <1>5, <1>6, <1>7, <1>8 DEF StackOK, d, n, m

---------------------------------------------------------------------------
(* Adding a node.                                                          *)

NodeOf(n, k) ==
  [type : {"OBJECT", "ARRAY", "LEAF", "SKIPPED"}, token : Token, parent : 0 .. n,
   firstChild : 0 .. n, nextSibling : 0 .. n, keyTree : 0 .. k]

KeyOf(n, k) == [key : 1 .. n, left : 0 .. k, right : 0 .. k]

ScopeOf(n) == [parent : 1 .. n, tail : 0 .. n, count : Nat]

\* ns2 is ns and a node with token t, linked behind the innermost of the
\* scopes sc.
Extends(ns, sc, ns2, t) ==
  /\ Len(ns2) = Len(ns) + 1
  /\ \A i \in 1 .. Len(ns) :
       /\ ns2[i].parent = ns[i].parent
       /\ ns2[i].token = ns[i].token
       /\ ns2[i].nextSibling = IF sc # <<>> /\ sc[Len(sc)].tail = i THEN Len(ns) + 1 ELSE ns[i].nextSibling
  /\ ns2[Len(ns) + 1].parent = IF sc = <<>> THEN 0 ELSE sc[Len(sc)].parent
  /\ ns2[Len(ns) + 1].nextSibling = 0
  /\ ns2[Len(ns) + 1].token = t

(* Changing one link of a node.                                            *)
LEMMA NodeFields ==
  ASSUME NEW n \in Nat, NEW k \in Nat, NEW n2 \in Nat, NEW k2 \in Nat, n <= n2, k <= k2,
         NEW r \in NodeOf(n, k), NEW v \in 0 .. n2, NEW w \in 0 .. k2, NEW q
  PROVE  /\ q \in {r, [r EXCEPT !.firstChild = v], [r EXCEPT !.keyTree = w]} =>
              /\ q \in NodeOf(n2, k2)
              /\ q.parent = r.parent
              /\ q.token = r.token
              /\ q.nextSibling = r.nextSibling
         /\ q = [r EXCEPT !.nextSibling = v] =>
              /\ q \in NodeOf(n2, k2)
              /\ q.parent = r.parent
              /\ q.token = r.token
              /\ q.nextSibling = v
  <1>1. CASE q = r
    BY <1>1 DEF NodeOf
  <1>2. CASE q = [r EXCEPT !.firstChild = v]
    BY <1>2 DEF NodeOf
  <1>3. ASSUME q = [r EXCEPT !.nextSibling = v]
        PROVE  q \in NodeOf(n2, k2) /\ q.parent = r.parent /\ q.token = r.token /\ q.nextSibling = v
    BY <1>3 DEF NodeOf
  <1>4. CASE q = [r EXCEPT !.keyTree = w]
    BY <1>4 DEF NodeOf
  <1> QED
    BY <1>1, <1>2, <1>3, <1>4

(* The key tree with a key more, if there is room.                         *)
LEMMA InsertedFacts ==
  ASSUME NEW n \in Nat, keyTree \in Seq(KeyOf(n, Len(keyTree))), NEW r \in 0 .. Len(keyTree), NEW name
  PROVE  /\ Inserted(r, n + 1, name) \in Seq(KeyOf(n + 1, Len(Inserted(r, n + 1, name))))
         /\ Len(Inserted(r, n + 1, name)) >= Len(keyTree)
         /\ RootAfterInsert(r) \in 0 .. Len(Inserted(r, n + 1, name))
  <1> DEFINE k == Len(keyTree)
             new == KeyNode(n + 1)
  <1>0. k \in Nat
    OBVIOUS
  <1>1. new \in KeyOf(n + 1, k + 1) /\ KeyOf(n, k) \subseteq KeyOf(n + 1, k + 1) /\ KeyOf(n, k) \subseteq KeyOf(n + 1, k)
    BY <1>0 DEF KeyNode, KeyOf
  <1>2. CASE TreeIsFull
    <2>1. Inserted(r, n + 1, name) = keyTree /\ RootAfterInsert(r) = 0
      BY <1>2 DEF Inserted, RootAfterInsert
    <2> QED
      BY <1>1, <2>1
  <1>3. CASE ~TreeIsFull /\ r = 0
    <2>1. Inserted(r, n + 1, name) = Append(keyTree, new) /\ RootAfterInsert(r) = k + 1
      BY <1>3 DEF Inserted, RootAfterInsert
    <2>2. keyTree \in Seq(KeyOf(n + 1, k + 1))
      BY <1>1
    <2> HIDE DEF new
    <2> QED
      BY <1>0, <1>1, <2>1, <2>2
  <1>4. CASE ~TreeIsFull /\ r # 0
    <2> DEFINE above == Above(r, name)
               side  == Side(name, KeyName(keyTree[above].key))
               tree  == [keyTree EXCEPT ![above][side] = Len(keyTree) + 1]
    <2>1. Inserted(r, n + 1, name) = Append(tree, new) /\ RootAfterInsert(r) = r
      BY <1>4 DEF Inserted, RootAfterInsert
    <2>2. side \in {"left", "right"}
      BY DEF Side
    <2> HIDE DEF above, side
    <2>3. ASSUME NEW i \in 1 .. k PROVE tree[i] \in KeyOf(n + 1, k + 1)
      <3>1. keyTree[i] \in KeyOf(n + 1, k + 1)
        BY <1>1
      <3>2. CASE i # above
        BY <3>1, <3>2
      <3>3. CASE i = above
        <4>1. tree[i] = [keyTree[i] EXCEPT ![side] = k + 1]
          BY <3>3
        <4>2. CASE side = "left"
          <5> DEFINE q == keyTree[i]  v == k + 1  m == n + 1
          <5>1. tree[i] = [q EXCEPT !.left = v]
            BY <4>1, <4>2
          <5>2. v \in 0 .. v /\ m \in Nat /\ v \in Nat /\ q \in KeyOf(m, v)
            BY <1>0, <3>1
          <5> HIDE DEF tree, q, v, m
          <5>3. tree[i] \in KeyOf(m, v)
            BY <5>1, <5>2 DEF KeyOf
          <5> QED
            BY <5>3 DEF v, m
        <4>3. CASE side = "right"
          <5> DEFINE q == keyTree[i]  v == k + 1  m == n + 1
          <5>1. tree[i] = [q EXCEPT !.right = v]
            BY <4>1, <4>3
          <5>2. v \in 0 .. v /\ m \in Nat /\ v \in Nat /\ q \in KeyOf(m, v)
            BY <1>0, <3>1
          <5> HIDE DEF tree, q, v, m
          <5>3. tree[i] \in KeyOf(m, v)
            BY <5>1, <5>2 DEF KeyOf
          <5> QED
            BY <5>3 DEF v, m
        <4> QED
          BY <2>2, <4>2, <4>3
      <3> QED
        BY <3>2, <3>3
    <2>4. tree \in Seq(KeyOf(n + 1, k + 1)) /\ Len(tree) = k
      <3>1. tree = [i \in 1 .. k |-> IF i = above THEN [keyTree[i] EXCEPT ![side] = k + 1] ELSE keyTree[i]]
        OBVIOUS
      <3> HIDE DEF tree
      <3>2. tree \in [1 .. k -> KeyOf(n + 1, k + 1)]
        BY <2>3, <3>1
      <3> QED
        BY <1>0, <2>3, <3>2
    <2> HIDE DEF tree, new
    <2> QED
      BY <1>0, <1>1, <2>1, <2>4
  <1> QED
    BY <1>2, <1>3, <1>4

\* Rows of nodes with the same parents and tokens.
Alike(ns, ms, N) ==
  \A i \in 1 .. N : ms[i].parent = ns[i].parent /\ ms[i].token = ns[i].token

WithChild(ns, p, v)   == [ns EXCEPT ![p].firstChild = v]
WithSibling(ns, p, v) == [ns EXCEPT ![p].nextSibling = v]
WithTree(ns, p, w)    == [ns EXCEPT ![p].keyTree = w]

\* A row ns, and one in which there is room for more links.
Rows(n, k, n2, k2, N, ns) ==
  /\ n \in Nat /\ k \in Nat /\ n2 \in Nat /\ k2 \in Nat /\ N \in Nat
  /\ n <= n2 /\ k <= k2
  /\ ns \in [1 .. N -> NodeOf(n, k)]

LinksChild(n, k, n2, k2, N, ns, p, v, w, ms) ==
  /\ Rows(n, k, n2, k2, N, ns)
  /\ v \in 0 .. n2 /\ w \in 0 .. k2
  /\ ms \in {ns, WithChild(ns, p, v), WithTree(ns, p, w)}

LinksSibling(n, k, n2, k2, N, ns, p, v, ms) ==
  /\ Rows(n, k, n2, k2, N, ns)
  /\ v \in 0 .. n2
  /\ ms = WithSibling(ns, p, v)

(* Changing a link of one in a row of nodes.                               *)
LEMMA LinkChild ==
  ASSUME NEW n, NEW k, NEW n2, NEW k2, NEW N, NEW ns, NEW p, NEW v, NEW w, NEW ms,
         LinksChild(n, k, n2, k2, N, ns, p, v, w, ms)
  PROVE  /\ ms \in [1 .. N -> NodeOf(n2, k2)]
         /\ Alike(ns, ms, N)
         /\ \A i \in 1 .. N : ms[i].nextSibling = ns[i].nextSibling
  <1>0. /\ n \in Nat /\ k \in Nat /\ n2 \in Nat /\ k2 \in Nat /\ N \in Nat /\ n <= n2 /\ k <= k2
        /\ ns \in [1 .. N -> NodeOf(n, k)] /\ v \in 0 .. n2 /\ w \in 0 .. k2
        /\ ms \in {ns, WithChild(ns, p, v), WithTree(ns, p, w)}
    BY DEF LinksChild, Rows
  <1>1. ASSUME NEW i \in 1 .. N
        PROVE  /\ ms[i] \in NodeOf(n2, k2)
               /\ ms[i].parent = ns[i].parent
               /\ ms[i].token = ns[i].token
               /\ ms[i].nextSibling = ns[i].nextSibling
    <2> DEFINE r == ns[i]  q == ms[i]
    <2>1. r \in NodeOf(n, k)
      BY <1>0
    <2>2. q \in {r, [r EXCEPT !.firstChild = v], [r EXCEPT !.keyTree = w]}
      <3>1. CASE i = p
        BY <1>0, <3>1 DEF WithChild, WithTree
      <3>2. CASE i # p
        BY <1>0, <3>2 DEF WithChild, WithTree
      <3> QED
        BY <3>1, <3>2
    <2> HIDE DEF r, q
    <2>3. q \in NodeOf(n2, k2) /\ q.parent = r.parent /\ q.token = r.token /\ q.nextSibling = r.nextSibling
      BY <1>0, <2>1, <2>2, NodeFields
    <2> QED
      BY <2>3 DEF r, q
  <1>2. ms = [i \in 1 .. N |-> ms[i]]
    BY <1>0 DEF WithChild, WithTree
  <1> QED
    BY <1>1, <1>2 DEF Alike

(* Changing the sibling of one in a row of nodes.                          *)
LEMMA LinkSibling ==
  ASSUME NEW n, NEW k, NEW n2, NEW k2, NEW N, NEW ns, NEW p, NEW v, NEW ms,
         LinksSibling(n, k, n2, k2, N, ns, p, v, ms)
  PROVE  /\ ms \in [1 .. N -> NodeOf(n2, k2)]
         /\ Alike(ns, ms, N)
         /\ \A i \in 1 .. N : ms[i].nextSibling = IF i = p THEN v ELSE ns[i].nextSibling
  <1>0. /\ n \in Nat /\ k \in Nat /\ n2 \in Nat /\ k2 \in Nat /\ N \in Nat /\ n <= n2 /\ k <= k2
        /\ ns \in [1 .. N -> NodeOf(n, k)] /\ v \in 0 .. n2
        /\ ms = WithSibling(ns, p, v)
    BY DEF LinksSibling, Rows
  <1>1. ASSUME NEW i \in 1 .. N, i # p
        PROVE  ms[i] = ns[i] /\ ns[i] \in NodeOf(n2, k2)
    <2>1. ms[i] = ns[i]
      BY <1>0, <1>1 DEF WithSibling
    <2>2. ns[i] \in NodeOf(n, k) /\ 0 \in 0 .. n2 /\ 0 \in 0 .. k2
      BY <1>0
    <2> QED
      BY <1>0, <2>1, <2>2, NodeFields
  <1>2. ASSUME p \in 1 .. N
        PROVE  /\ ms[p] \in NodeOf(n2, k2)
               /\ ms[p].parent = ns[p].parent
               /\ ms[p].token = ns[p].token
               /\ ms[p].nextSibling = v
    <2> DEFINE r == ns[p]  q == ms[p]
    <2>1. r \in NodeOf(n, k) /\ q = [r EXCEPT !.nextSibling = v] /\ 0 \in 0 .. k2
      BY <1>0, <1>2 DEF WithSibling
    <2> HIDE DEF r, q
    <2>2. q \in NodeOf(n2, k2) /\ q.parent = r.parent /\ q.token = r.token /\ q.nextSibling = v
      BY <1>0, <2>1, NodeFields
    <2> QED
      BY <2>2 DEF r, q
  <1>3. ms = [i \in 1 .. N |-> ms[i]]
    BY <1>0 DEF WithSibling
  <1> QED
    BY <1>1, <1>2, <1>3 DEF Alike

(* stack_push and link_node_to_scope.                                      *)
LEMMA LinkFacts ==
  ASSUME nodes \in Seq(NodeOf(Len(nodes), Len(keyTree))),
         keyTree \in Seq(KeyOf(Len(nodes), Len(keyTree))),
         scopes \in Seq(ScopeOf(Len(nodes))),
         NEW type \in {"OBJECT", "ARRAY", "LEAF"}, NEW token \in Token, LinkNode(type, token, HugeName)
  PROVE  /\ nodes' \in Seq(NodeOf(Len(nodes) + 1, Len(keyTree')))
         /\ keyTree' \in Seq(KeyOf(Len(nodes) + 1, Len(keyTree')))
         /\ Extends(nodes, scopes, nodes', token)
  <1> DEFINE n == Len(nodes)
             k == Len(keyTree)
             k2 == Len(keyTree')
             scope == Last(scopes)
             inTree == IsKey /\ ~IsDuplicate(token.name) /\ token.name \notin HugeName
             skips == IsDuplicate(token.name) \/ ValueOfSkipped
             node == [Node(type, token) EXCEPT
                       !.parent = IF scopes = <<>> THEN 0 ELSE scope.parent,
                       !.type = IF skips THEN "SKIPPED" ELSE @]
             linked == IF scopes = <<>> THEN nodes
                       ELSE IF scope.tail = 0 THEN [nodes EXCEPT ![scope.parent].firstChild = n + 1]
                       ELSE [nodes EXCEPT ![scope.tail].nextSibling = n + 1]
             rooted == IF inTree THEN [linked EXCEPT ![scope.parent].keyTree = RootAfterInsert(@)] ELSE linked
  <1>1. /\ nodes' = Append(rooted, node)
        /\ keyTree' = IF inTree THEN Inserted(nodes[scope.parent].keyTree, n + 1, token.name) ELSE keyTree
    <2>1. nodes' = LinkedNodes(type, token, inTree)
      BY DEF LinkNode
    <2>2. LinkedNodes(type, token, inTree) = Append(rooted, node)
      <3>1. CASE inTree
        BY <3>1 DEF LinkedNodes
      <3>2. CASE ~inTree
        BY <3>2 DEF LinkedNodes
      <3> QED
        BY <3>1, <3>2
    <2>3. keyTree' = IF inTree THEN Inserted(nodes[scope.parent].keyTree, n + 1, token.name) ELSE keyTree
      BY DEF LinkNode
    <2> QED
      BY <2>1, <2>2, <2>3
  <1>2. n \in Nat /\ k \in Nat /\ nodes \in [1 .. n -> NodeOf(n, k)]
    OBVIOUS
  <1>3. scopes # <<>> => /\ scope = scopes[Len(scopes)]
                         /\ scope.parent \in 1 .. n
                         /\ scope.tail \in 0 .. n
    <2> SUFFICES ASSUME scopes # <<>> PROVE scopes[Len(scopes)] \in ScopeOf(n)
      BY DEF Last, ScopeOf
    <2> QED
      OBVIOUS
  <1>4. scopes = <<>> => ~inTree
    BY DEF IsKey, InObject
  <1>5. /\ keyTree' \in Seq(KeyOf(n + 1, k2)) /\ k2 \in Nat /\ k <= k2
        /\ inTree => RootAfterInsert(nodes[scope.parent].keyTree) \in 0 .. k2
    <2>1. CASE inTree
      <3> DEFINE r == nodes[scope.parent].keyTree
      <3>1. r \in 0 .. k
        BY <1>2, <1>3, <1>4, <2>1 DEF NodeOf
      <3>2. keyTree' = Inserted(r, n + 1, token.name)
        BY <1>1, <2>1
      <3> HIDE DEF r
      <3>3. /\ keyTree' \in Seq(KeyOf(n + 1, k2))
            /\ k2 >= k
            /\ RootAfterInsert(r) \in 0 .. k2
        BY <1>2, <3>1, <3>2, InsertedFacts
      <3>4. k2 \in Nat
        BY <3>3
      <3> QED
        BY <1>2, <3>3, <3>4 DEF r
    <2>2. CASE ~inTree
      <3>1. keyTree' = keyTree
        BY <1>1, <2>2
      <3>2. KeyOf(n, k) \subseteq KeyOf(n + 1, k)
        BY <1>2 DEF KeyOf
      <3> QED
        BY <1>2, <2>2, <3>1, <3>2
    <2> QED
      BY <2>1, <2>2
  <1>6. /\ node \in NodeOf(n + 1, k2)
        /\ node.parent = IF scopes = <<>> THEN 0 ELSE scopes[Len(scopes)].parent
        /\ node.nextSibling = 0
        /\ node.token = token
    <2> DEFINE up == IF scopes = <<>> THEN 0 ELSE scope.parent
               ty == IF skips THEN "SKIPPED" ELSE type
    <2>1. up \in 0 .. n + 1 /\ ty \in {"OBJECT", "ARRAY", "LEAF", "SKIPPED"}
      BY <1>2, <1>3
    <2>2. node = [type |-> ty, token |-> token, parent |-> up, firstChild |-> 0, nextSibling |-> 0, keyTree |-> 0]
      <3> DEFINE base == Node(type, token)
      <3>1. base = [type |-> type, token |-> token, parent |-> 0, firstChild |-> 0, nextSibling |-> 0, keyTree |-> 0]
        BY DEF Node
      <3>2. node = [base EXCEPT !.parent = up, !.type = ty]
        BY <3>1
      <3> HIDE DEF base, node, up, ty
      <3> QED
        BY <3>1, <3>2
    <2>3. up = IF scopes = <<>> THEN 0 ELSE scopes[Len(scopes)].parent
      BY <1>3
    <2>4. 0 \in 0 .. n + 1 /\ 0 \in 0 .. k2
      BY <1>2, <1>5
    <2> HIDE DEF up, ty, node
    <2> QED
      BY <2>1, <2>2, <2>3, <2>4 DEF NodeOf
  <1>7. /\ linked \in [1 .. n -> NodeOf(n + 1, k)]
        /\ Alike(nodes, linked, n)
        /\ \A i \in 1 .. n : linked[i].nextSibling =
             IF scopes # <<>> /\ scopes[Len(scopes)].tail = i THEN n + 1 ELSE nodes[i].nextSibling
    <2>0. n + 1 \in Nat /\ n <= n + 1 /\ k <= k /\ n + 1 \in 0 .. n + 1 /\ 0 \in 0 .. k
      BY <1>2
    <2>1. CASE scopes = <<>>
      <3>1. linked = nodes
        BY <2>1
      <3> HIDE DEF linked, n, k
      <3>2. LinksChild(n, k, n + 1, k, n, nodes, 0, 0, 0, linked)
        BY <1>2, <2>0, <3>1 DEF LinksChild, Rows
      <3> QED
        BY <2>1, <3>2, LinkChild
    <2>2. CASE scopes # <<>> /\ scope.tail = 0
      <3>1. linked = WithChild(nodes, scope.parent, n + 1)
        BY <2>2 DEF WithChild
      <3>2. \A i \in 1 .. n : scopes[Len(scopes)].tail # i
        BY <1>3, <2>2
      <3> HIDE DEF linked, n, k
      <3>3. LinksChild(n, k, n + 1, k, n, nodes, scope.parent, n + 1, 0, linked)
        BY <1>2, <2>0, <3>1 DEF LinksChild, Rows
      <3> QED
        BY <3>2, <3>3, LinkChild
    <2>3. CASE scopes # <<>> /\ scope.tail # 0
      <3>1. linked = WithSibling(nodes, scope.tail, n + 1)
        BY <2>3 DEF WithSibling
      <3> HIDE DEF linked, n, k
      <3>2. LinksSibling(n, k, n + 1, k, n, nodes, scope.tail, n + 1, linked)
        BY <1>2, <2>0, <3>1 DEF LinksSibling, Rows
      <3>3. scope = scopes[Len(scopes)] /\ scopes # <<>>
        BY <1>3, <2>3
      <3> HIDE DEF scope
      <3> QED
        BY <3>2, <3>3, LinkSibling
    <2> QED
      BY <2>1, <2>2, <2>3
  <1>8. /\ rooted \in [1 .. n -> NodeOf(n + 1, k2)]
        /\ Alike(linked, rooted, n)
        /\ \A i \in 1 .. n : rooted[i].nextSibling = linked[i].nextSibling
    <2>0. n + 1 \in Nat /\ n + 1 <= n + 1 /\ 0 \in 0 .. n + 1 /\ 0 \in 0 .. k2
      BY <1>2, <1>5
    <2>1. CASE ~inTree
      <3>1. rooted = linked
        BY <2>1
      <3> HIDE DEF rooted, linked, n, k, k2
      <3>2. LinksChild(n + 1, k, n + 1, k2, n, linked, 0, 0, 0, rooted)
        BY <1>2, <1>5, <1>7, <2>0, <3>1 DEF LinksChild, Rows
      <3> QED
        BY <3>2, LinkChild
    <2>2. CASE inTree
      <3> DEFINE p == scope.parent
                 w == RootAfterInsert(nodes[p].keyTree)
      <3>1. linked[p].keyTree = nodes[p].keyTree /\ p \in 1 .. n
        <4>1. p \in 1 .. n /\ scopes # <<>>
          BY <1>3, <1>4, <2>2
        <4>2. linked[p] \in {nodes[p], [nodes[p] EXCEPT !.firstChild = n + 1], [nodes[p] EXCEPT !.nextSibling = n + 1]}
          <5>1. CASE scope.tail = 0
            BY <4>1, <5>1
          <5>2. CASE scope.tail # 0 /\ scope.tail # p
            BY <4>1, <5>2
          <5>3. CASE scope.tail # 0 /\ scope.tail = p
            BY <4>1, <5>3
          <5> QED
            BY <5>1, <5>2, <5>3
        <4>3. nodes[p] \in NodeOf(n, k)
          BY <1>2, <4>1
        <4> HIDE DEF linked, n, k, p
        <4> QED
          BY <4>1, <4>2, <4>3 DEF NodeOf
      <3>2. rooted = WithTree(linked, p, w)
        <4>1. rooted = [linked EXCEPT ![p].keyTree = RootAfterInsert(linked[p].keyTree)]
          BY <2>2
        <4> HIDE DEF linked, rooted
        <4> QED
          BY <3>1, <4>1 DEF WithTree
      <3>3. w \in 0 .. k2
        BY <1>5, <2>2
      <3> HIDE DEF rooted, linked, n, k, k2, p, w
      <3>4. LinksChild(n + 1, k, n + 1, k2, n, linked, p, 0, w, rooted)
        BY <1>2, <1>5, <1>7, <2>0, <3>2, <3>3 DEF LinksChild, Rows
      <3> QED
        BY <3>4, LinkChild
    <2> QED
      BY <2>1, <2>2
  <1> HIDE DEF n, k, k2, node, linked, rooted, inTree, scope
  <1>9. /\ nodes' \in Seq(NodeOf(n + 1, k2))
        /\ Len(nodes') = n + 1
        /\ \A i \in 1 .. n : nodes'[i] = rooted[i]
        /\ nodes'[n + 1] = node
    <2> DEFINE S == NodeOf(n + 1, k2)
    <2>1. rooted \in [1 .. n -> S] /\ node \in S /\ n \in Nat
      BY <1>2, <1>6, <1>8
    <2> HIDE DEF S
    <2>2. /\ Append(rooted, node) \in Seq(S)
          /\ Len(Append(rooted, node)) = n + 1
          /\ \A i \in 1 .. n : Append(rooted, node)[i] = rooted[i]
          /\ Append(rooted, node)[n + 1] = node
      BY <2>1, RowAppended
    <2> QED
      BY <1>1, <2>2 DEF S
  <1>10. Extends(nodes, scopes, nodes', token)
    BY <1>6, <1>7, <1>8, <1>9 DEF Extends, Alike, n
  <1> QED
    BY <1>5, <1>9, <1>10 DEF n, k2

---------------------------------------------------------------------------
(* Open objects and arrays, and their children.                            *)

ChildrenIn(ns, p) == {i \in 1 .. Len(ns) : ns[i].parent = p}

\* A scope has counted its children, and they are linked in order.
ScopeOK(ns, s) ==
  LET children == ChildrenIn(ns, s.parent) IN
    /\ Cardinality(children) = s.count
    /\ s.tail = 0 <=> children = {}
    /\ s.tail # 0 => s.tail \in children /\ \A j \in children : j <= s.tail
    /\ \A i \in children :
         IF i = s.tail THEN ns[i].nextSibling = 0
         ELSE /\ ns[i].nextSibling \in children
              /\ ns[i].nextSibling > i
              /\ \A j \in children : j > i => j >= ns[i].nextSibling

\* Nodes come after their parents; the scopes are those of different nodes.
TreeOK(ns, sc) ==
  /\ Len(ns) \in Nat
  /\ \A i \in 1 .. Len(ns) : ns[i].parent \in 0 .. i - 1
  /\ sc \in Seq(ScopeOf(Len(ns)))
  /\ \A s, t \in 1 .. Len(sc) : sc[s].parent = sc[t].parent => s = t
  /\ \A s \in 1 .. Len(sc) : ScopeOK(ns, sc[s])

(* The children are finitely many numbers.                                 *)
LEMMA ChildrenFinite ==
  ASSUME NEW ns, Len(ns) \in Nat, NEW p
  PROVE  /\ IsFiniteSet(ChildrenIn(ns, p))
         /\ Cardinality(ChildrenIn(ns, p)) \in Nat
         /\ ChildrenIn(ns, p) \subseteq 1 .. Len(ns)
  <1>1. IsFiniteSet(1 .. Len(ns)) /\ ChildrenIn(ns, p) \in SUBSET (1 .. Len(ns))
    BY FS_Interval DEF ChildrenIn
  <1> QED
    BY <1>1, FS_Subset, FS_CardinalityType

(* The scopes around the innermost are not touched by a new node.          *)
LEMMA OuterScope ==
  ASSUME NEW ns, NEW sc, TreeOK(ns, sc), NEW ns2, NEW t, Extends(ns, sc, ns2, t),
         NEW s \in 1 .. Len(sc), s # Len(sc)
  PROVE  ScopeOK(ns2, sc[s])
  <1> DEFINE n == Len(ns)
             a == sc[s]
             l == sc[Len(sc)]
             children == ChildrenIn(ns, a.parent)
  <1>1. n \in Nat /\ Len(sc) \in Nat \ {0} /\ sc # <<>> /\ Len(sc) \in 1 .. Len(sc)
    BY DEF TreeOK
  <1>2. a \in ScopeOf(n) /\ l \in ScopeOf(n) /\ a.parent # l.parent /\ ScopeOK(ns, a) /\ ScopeOK(ns, l)
    BY <1>1 DEF TreeOK
  <1>3. l.tail = 0 \/ ns[l.tail].parent = l.parent
    BY <1>2 DEF ScopeOK, ChildrenIn
  <1>4. /\ Len(ns2) = n + 1
        /\ \A i \in 1 .. n : ns2[i].parent = ns[i].parent /\ (i # l.tail => ns2[i].nextSibling = ns[i].nextSibling)
        /\ ns2[n + 1].parent = l.parent
    BY <1>1 DEF Extends
  <1> HIDE DEF n, a, l
  <1>5. ChildrenIn(ns2, a.parent) = children
    <2>1. \A i \in Int : i \in 1 .. n + 1 /\ ns2[i].parent = a.parent <=> i \in 1 .. n /\ ns[i].parent = a.parent
      BY <1>1, <1>2, <1>4
    <2> QED
      BY <1>4, <2>1 DEF ChildrenIn, n
  <1>6. \A i \in children : ns2[i].nextSibling = ns[i].nextSibling
    <2> TAKE i \in children
    <2>1. i \in 1 .. n /\ ns[i].parent = a.parent
      BY DEF ChildrenIn, n
    <2>2. i # l.tail
      BY <1>1, <1>2, <1>3, <2>1
    <2> QED
      BY <1>4, <2>1, <2>2
  <1> HIDE DEF children
  <1>7. ScopeOK(ns2, a)
    BY <1>2, <1>5, <1>6 DEF ScopeOK, children
  <1> QED
    BY <1>7 DEF a

(* The innermost gets a child.                                             *)
LEMMA InnerScope ==
  ASSUME NEW ns, NEW sc, TreeOK(ns, sc), NEW ns2, NEW t, Extends(ns, sc, ns2, t), sc # <<>>
  PROVE  /\ Enlarged(sc[Len(sc)], Len(ns) + 1) \in ScopeOf(Len(ns) + 1)
         /\ Enlarged(sc[Len(sc)], Len(ns) + 1).parent = sc[Len(sc)].parent
         /\ ScopeOK(ns2, Enlarged(sc[Len(sc)], Len(ns) + 1))
  <1> DEFINE n == Len(ns)
             a == sc[Len(sc)]
             new == Enlarged(a, n + 1)
             children == ChildrenIn(ns, a.parent)
             more == ChildrenIn(ns2, a.parent)
  <1>1. n \in Nat /\ Len(sc) \in 1 .. Len(sc)
    BY DEF TreeOK
  <1>2. a \in ScopeOf(n) /\ ScopeOK(ns, a)
    BY <1>1 DEF TreeOK
  <1>3. /\ Len(ns2) = n + 1
        /\ \A i \in 1 .. n : /\ ns2[i].parent = ns[i].parent
                             /\ ns2[i].nextSibling = IF i = a.tail THEN n + 1 ELSE ns[i].nextSibling
        /\ ns2[n + 1].parent = a.parent
        /\ ns2[n + 1].nextSibling = 0
    BY DEF Extends
  <1> HIDE DEF n, a
  <1>4. new = [parent |-> a.parent, tail |-> n + 1, count |-> a.count + 1] /\ a.parent \in 1 .. n /\ a.count \in Nat /\ a.tail \in 0 .. n
    <2>1. a.parent \in 1 .. n /\ a.count \in Nat /\ a.tail \in 0 .. n
      BY <1>2 DEF ScopeOf
    <2>2. a = [parent |-> a.parent, tail |-> a.tail, count |-> a.count]
      BY <1>2 DEF ScopeOf
    <2>3. new = [a EXCEPT !.tail = n + 1, !.count = a.count + 1]
      BY <2>2 DEF Enlarged
    <2> HIDE DEF new
    <2> QED
      BY <2>1, <2>2, <2>3
  <1>5. new \in ScopeOf(n + 1) /\ new.parent = a.parent /\ new.tail = n + 1 /\ new.count = a.count + 1
    <2> DEFINE v == n + 1  c == a.count + 1  p == a.parent
    <2>1. v \in 0 .. v /\ c \in Nat /\ p \in 1 .. v
      BY <1>1, <1>4
    <2>2. new = [parent |-> p, tail |-> v, count |-> c]
      BY <1>4
    <2> HIDE DEF new, v, c, p
    <2>3. new \in ScopeOf(v) /\ new.parent = p /\ new.tail = v /\ new.count = c
      BY <2>1, <2>2 DEF ScopeOf
    <2> QED
      BY <2>3 DEF v, c, p
  <1>6. more = children \cup {n + 1} /\ n + 1 \notin children
    <2>1. \A i \in Int : i \in 1 .. n + 1 /\ ns2[i].parent = a.parent <=> (i \in 1 .. n /\ ns[i].parent = a.parent) \/ i = n + 1
      BY <1>1, <1>3
    <2> QED
      BY <1>1, <1>3, <2>1 DEF ChildrenIn, n
  <1>7. IsFiniteSet(children) /\ children \subseteq 1 .. n
    BY <1>1, ChildrenFinite DEF n
  <1>8. Cardinality(children) = a.count
    BY <1>2 DEF ScopeOK
  <1>9. Cardinality(more) = a.count + 1
    BY <1>6, <1>7, <1>8, FS_AddElement
  <1>10. /\ a.tail = 0 <=> children = {}
         /\ a.tail # 0 => a.tail \in children /\ \A j \in children : j <= a.tail
         /\ \A i \in children :
              IF i = a.tail THEN ns[i].nextSibling = 0
              ELSE /\ ns[i].nextSibling \in children
                   /\ ns[i].nextSibling > i
                   /\ \A j \in children : j > i => j >= ns[i].nextSibling
    BY <1>2 DEF ScopeOK
  <1>11. \A i \in children : i \in 1 .. n /\ ns2[i].nextSibling = IF i = a.tail THEN n + 1 ELSE ns[i].nextSibling
    BY <1>3, <1>7
  <1> HIDE DEF new, children, more
  <1>12. \A i \in more :
           IF i = n + 1 THEN ns2[i].nextSibling = 0
           ELSE /\ ns2[i].nextSibling \in more
                /\ ns2[i].nextSibling > i
                /\ \A j \in more : j > i => j >= ns2[i].nextSibling
    <2> TAKE i \in more
    <2>1. CASE i = n + 1
      BY <1>3, <2>1
    <2>2. CASE i # n + 1 /\ i = a.tail
      <3>1. i \in children /\ i \in 1 .. n /\ ns2[i].nextSibling = n + 1
        BY <1>6, <1>11, <2>2
      <3>2. \A j \in children : j <= i
        BY <1>1, <1>10, <2>2, <3>1
      <3>3. \A j \in children : j \in 1 .. n /\ ~ (j > i)
        BY <1>7, <3>1, <3>2
      <3>4. n + 1 \in more /\ n + 1 > i /\ \A j \in more : j \in children \/ j = n + 1
        BY <1>1, <1>6, <3>1
      <3> QED
        BY <1>1, <2>2, <3>1, <3>3, <3>4
    <2>3. CASE i # n + 1 /\ i # a.tail
      <3>1. i \in children /\ i \in 1 .. n /\ ns2[i].nextSibling = ns[i].nextSibling
        BY <1>6, <1>11, <2>3
      <3>2. /\ ns[i].nextSibling \in children
            /\ ns[i].nextSibling > i
            /\ \A j \in children : j > i => j >= ns[i].nextSibling
        BY <1>10, <2>3, <3>1
      <3>3. ns[i].nextSibling <= n + 1
        <4>1. ns[i].nextSibling \in 1 .. n
          BY <1>7, <3>2
        <4> QED
          BY <1>1, <4>1
      <3> QED
        BY <1>1, <1>6, <2>3, <3>1, <3>2, <3>3
    <2> QED
      BY <2>1, <2>2, <2>3
  <1>13. n + 1 # 0 /\ more # {} /\ n + 1 \in more /\ \A j \in more : j <= n + 1
    BY <1>1, <1>6, <1>7
  <1>14. ScopeOK(ns2, new)
    BY <1>5, <1>9, <1>12, <1>13 DEF ScopeOK, more
  <1> QED
    BY <1>5, <1>14 DEF new, a, n

\* The scopes once a node is linked, and once the node has one of its own.
Grown(sc, n) == IF sc = <<>> THEN sc ELSE [sc EXCEPT ![Len(sc)] = Enlarged(sc[Len(sc)], n)]
Fresh(n)     == [parent |-> n, tail |-> 0, count |-> 0]

(* A new node under the innermost scope.                                   *)
LEMMA TreeGrows ==
  ASSUME NEW ns, NEW sc, TreeOK(ns, sc), NEW ns2, NEW t, Extends(ns, sc, ns2, t)
  PROVE  /\ TreeOK(ns2, Grown(sc, Len(ns) + 1))
         /\ Len(Grown(sc, Len(ns) + 1)) = Len(sc)
         /\ \A s \in 1 .. Len(sc) : Grown(sc, Len(ns) + 1)[s].parent = sc[s].parent
  <1> DEFINE n == Len(ns)
             g == Grown(sc, n + 1)
             w == Enlarged(sc[Len(sc)], n + 1)
  <1>1. n \in Nat /\ sc \in Seq(ScopeOf(n))
    BY DEF TreeOK
  <1>2. \A s \in 1 .. Len(sc) : sc[s] \in ScopeOf(n) /\ sc[s] \in ScopeOf(n + 1)
    <2>1. ScopeOf(n) \subseteq ScopeOf(n + 1)
      BY <1>1 DEF ScopeOf
    <2> QED
      BY <1>1, <2>1
  <1>3. \A i \in 1 .. n + 1 : ns2[i].parent \in 0 .. i - 1
    <2>1. CASE sc = <<>>
      BY <1>1, <2>1 DEF TreeOK, Extends
    <2>2. CASE sc # <<>>
      <3>1. sc[Len(sc)].parent \in 1 .. n
        BY <1>1, <1>2, <2>2 DEF ScopeOf
      <3>2. ns2[n + 1].parent = sc[Len(sc)].parent
        BY <2>2 DEF Extends
      <3>3. \A i \in 1 .. n : ns2[i].parent = ns[i].parent /\ ns[i].parent \in 0 .. i - 1
        BY DEF Extends, TreeOK
      <3>4. \A i \in 1 .. n + 1 : i \in 1 .. n \/ i = n + 1
        BY <1>1
      <3> HIDE DEF n
      <3>5. ns2[n + 1].parent \in 0 .. (n + 1) - 1
        BY <1>1, <3>1, <3>2
      <3>6. \A i \in 1 .. n : ns2[i].parent \in 0 .. i - 1
        BY <3>3
      <3> QED
        BY <3>4, <3>5, <3>6
    <2> QED
      BY <2>1, <2>2
  <1>4. Len(ns2) = n + 1
    BY DEF Extends
  <1>5. CASE sc = <<>>
    <2>1. g = <<>> /\ Len(g) = 0 /\ Len(sc) = 0
      BY <1>5 DEF Grown
    <2> HIDE DEF g, n
    <2>2. g \in Seq(ScopeOf(n + 1))
      BY <2>1
    <2>3. TreeOK(ns2, g)
      BY <1>1, <1>3, <1>4, <2>1, <2>2 DEF TreeOK
    <2> QED
      BY <2>1, <2>3 DEF g, n
  <1>6. CASE sc # <<>>
    <2>1. g = [sc EXCEPT ![Len(sc)] = w]
      BY <1>6 DEF Grown
    <2>2. w \in ScopeOf(n + 1) /\ w.parent = sc[Len(sc)].parent /\ ScopeOK(ns2, w)
      BY <1>6, InnerScope
    <2>3. \A s \in 1 .. Len(sc) : s # Len(sc) => ScopeOK(ns2, sc[s])
      BY OuterScope
    <2> HIDE DEF g, n, w
    <2>4. Len(g) = Len(sc) /\ \A s \in 1 .. Len(sc) : g[s] = IF s = Len(sc) THEN w ELSE sc[s]
      BY <1>1, <2>1
    <2>5. g \in Seq(ScopeOf(n + 1))
      <3>1. \A s \in 1 .. Len(sc) : g[s] \in ScopeOf(n + 1)
        BY <1>2, <2>2, <2>4
      <3>2. g = [s \in 1 .. Len(sc) |-> g[s]] /\ Len(sc) \in Nat
        <4>1. DOMAIN sc = 1 .. Len(sc) /\ Len(sc) \in Nat
          BY <1>1
        <4>2. DOMAIN g = DOMAIN sc
          BY <2>1
        <4>3. g = [s \in DOMAIN sc |-> g[s]]
          BY <2>1
        <4> QED
          BY <4>1, <4>3
      <3> QED
        BY <3>1, <3>2
    <2>6. \A s \in 1 .. Len(sc) : g[s].parent = sc[s].parent /\ ScopeOK(ns2, g[s])
      BY <2>2, <2>3, <2>4
    <2>7. \A s, u \in 1 .. Len(sc) : sc[s].parent = sc[u].parent => s = u
      BY DEF TreeOK
    <2>8. TreeOK(ns2, g)
      BY <1>1, <1>3, <1>4, <2>4, <2>5, <2>6, <2>7 DEF TreeOK
    <2> QED
      BY <2>4, <2>6, <2>8 DEF g, n
  <1> QED
    BY <1>5, <1>6

(* A scope for the last node, which has no children yet.                   *)
LEMMA TreeOpens ==
  ASSUME NEW ns, NEW sc, TreeOK(ns, sc), Len(ns) > 0,
         \A s \in 1 .. Len(sc) : sc[s].parent # Len(ns)
  PROVE  TreeOK(ns, Append(sc, Fresh(Len(ns))))
  <1> DEFINE n == Len(ns)
             f == Fresh(n)
             a == Append(sc, f)
  <1>1. n \in Nat \ {0} /\ sc \in Seq(ScopeOf(n)) /\ Len(sc) \in Nat
    BY DEF TreeOK
  <1>2. f \in ScopeOf(n) /\ f.parent = n /\ f.tail = 0 /\ f.count = 0
    BY <1>1 DEF Fresh, ScopeOf
  <1>3. ScopeOK(ns, f)
    <2>1. ChildrenIn(ns, n) = {}
      BY <1>1 DEF TreeOK, ChildrenIn
    <2> HIDE DEF n, f
    <2> QED
      BY <1>2, <2>1, FS_EmptySet DEF ScopeOK
  <1> HIDE DEF f
  <1>4. a \in Seq(ScopeOf(n)) /\ Len(a) = Len(sc) + 1 /\ (\A s \in 1 .. Len(sc) : a[s] = sc[s]) /\ a[Len(sc) + 1] = f
    BY <1>1, <1>2, AppendProperties
  <1> HIDE DEF a, n
  <1>5. \A s \in 1 .. Len(a) : s = Len(sc) + 1 \/ s \in 1 .. Len(sc)
    BY <1>1, <1>4
  <1>6. \A s, u \in 1 .. Len(a) : a[s].parent = a[u].parent => s = u
    <2>1. \A s, u \in 1 .. Len(sc) : sc[s].parent = sc[u].parent => s = u
      BY DEF TreeOK
    <2>2. \A s \in 1 .. Len(sc) : sc[s].parent # n
      BY DEF n
    <2> QED
      BY <1>2, <1>4, <1>5, <2>1, <2>2
  <1>7. \A s \in 1 .. Len(a) : ScopeOK(ns, a[s])
    BY <1>3, <1>4, <1>5 DEF TreeOK
  <1>8. TreeOK(ns, a)
    BY <1>4, <1>6, <1>7 DEF TreeOK, n
  <1> QED
    BY <1>8 DEF a, f, n

(* The innermost scope is closed.                                          *)
LEMMA TreeCloses ==
  ASSUME NEW ns, NEW sc, TreeOK(ns, sc), sc # <<>>
  PROVE  /\ TreeOK(ns, Front(sc))
         /\ Len(Front(sc)) = Len(sc) - 1
         /\ \A s \in 1 .. Len(sc) - 1 : Front(sc)[s] = sc[s]
  <1> DEFINE n == Len(ns)
             f == Front(sc)
  <1>1. n \in Nat /\ sc \in Seq(ScopeOf(n)) /\ Len(sc) \in Nat \ {0}
    BY DEF TreeOK
  <1>2. f \in Seq(ScopeOf(n)) /\ Len(f) = Len(sc) - 1 /\ \A s \in 1 .. Len(sc) - 1 : f[s] = sc[s]
    <2>1. /\ \A i \in 1 .. Len(sc) - 1 : sc[i] \in ScopeOf(n)
          /\ f = [i \in 1 .. Len(sc) - 1 |-> sc[i]]
      BY <1>1 DEF Front
    <2> QED
      BY <1>1, <2>1
  <1> HIDE DEF f
  <1>3. \A s \in 1 .. Len(f) : s \in 1 .. Len(sc) /\ f[s] = sc[s]
    BY <1>1, <1>2
  <1>4. TreeOK(ns, f)
    BY <1>1, <1>2, <1>3 DEF TreeOK
  <1> QED
    BY <1>2, <1>4 DEF f

(* What the parser's type invariant says of the scopes.                    *)
LEMMA ScopesCounted ==
  ASSUME TreeOK(nodes, scopes)
  PROVE  ScopesCount
  <1> SUFFICES ASSUME NEW s \in 1 .. Len(scopes)
               PROVE  LET children == {i \in 1 .. Len(nodes) : nodes[i].parent = scopes[s].parent} IN
                        /\ Cardinality(children) = scopes[s].count
                        /\ scopes[s].tail = IF children = {} THEN 0
                                            ELSE CHOOSE i \in children : \A j \in children : j <= i
                        /\ \A i \in children :
                             Sibling(i) = IF i = scopes[s].tail THEN 0
                                       ELSE CHOOSE j \in children : j > i /\ \A k \in children : k > i => k >= j
    BY DEF ScopesCount
  <1> DEFINE a == scopes[s]
             children == ChildrenIn(nodes, a.parent)
  <1>1. children = {i \in 1 .. Len(nodes) : nodes[i].parent = scopes[s].parent}
    BY DEF ChildrenIn
  <1>2. ScopeOK(nodes, a)
    BY DEF TreeOK
  <1>3. children \subseteq Int
    BY DEF ChildrenIn
  <1>4. /\ Cardinality(children) = a.count
        /\ a.tail = 0 <=> children = {}
        /\ a.tail # 0 => a.tail \in children /\ \A j \in children : j <= a.tail
        /\ \A i \in children :
             IF i = a.tail THEN nodes[i].nextSibling = 0
             ELSE /\ nodes[i].nextSibling \in children
                  /\ nodes[i].nextSibling > i
                  /\ \A j \in children : j > i => j >= nodes[i].nextSibling
    BY <1>2 DEF ScopeOK
  <1> HIDE DEF children, a
  <1>5. a.tail = IF children = {} THEN 0 ELSE CHOOSE i \in children : \A j \in children : j <= i
    <2>1. CASE children = {}
      BY <1>4, <2>1
    <2>2. CASE children # {}
      <3>1. a.tail \in children /\ \A j \in children : j <= a.tail
        BY <1>4, <2>2
      <3> DEFINE c == CHOOSE i \in children : \A j \in children : j <= i
      <3>2. c \in children /\ \A j \in children : j <= c
        BY <3>1
      <3> HIDE DEF c
      <3>3. a.tail <= c /\ c <= a.tail /\ a.tail \in Int /\ c \in Int
        BY <1>3, <3>1, <3>2
      <3>4. a.tail = c
        BY <3>3
      <3> QED
        BY <2>2, <3>4 DEF c
    <2> QED
      BY <2>1, <2>2
  <1>6. ASSUME NEW i \in children
        PROVE  Sibling(i) = IF i = a.tail THEN 0
                            ELSE CHOOSE j \in children : j > i /\ \A k \in children : k > i => k >= j
    <2>1. CASE i = a.tail
      BY <1>4, <2>1 DEF Sibling
    <2>2. CASE i # a.tail
      <3> DEFINE b == nodes[i].nextSibling
                 c == CHOOSE j \in children : j > i /\ \A k \in children : k > i => k >= j
      <3>1. b \in children /\ b > i /\ \A k \in children : k > i => k >= b
        BY <1>4, <2>2
      <3>2. c \in children /\ c > i /\ \A k \in children : k > i => k >= c
        BY <3>1
      <3> HIDE DEF b, c
      <3>3. b >= c /\ c >= b /\ b \in Int /\ c \in Int
        BY <1>3, <3>1, <3>2
      <3>4. b = c
        BY <3>3
      <3> QED
        BY <2>2, <3>4 DEF b, c, Sibling
    <2> QED
      BY <2>1, <2>2
  <1> QED
    BY <1>4, <1>5, <1>6 DEF a, children, ChildrenIn

---------------------------------------------------------------------------
(* How deep the nodes lie, and how many there are of a type.               *)

Opens(t) == IF t.type \in Openers THEN 1 ELSE 0

(* A node lies in its parent.                                              *)
LEMMA NestingUnfold ==
  ASSUME NEW ns, Len(ns) \in Nat, \A i \in 1 .. Len(ns) : ns[i].parent \in 0 .. i - 1
  PROVE  /\ Nesting(ns)[0] = 0
         /\ \A i \in 1 .. Len(ns) : Nesting(ns)[i] = Nesting(ns)[ns[i].parent] + Opens(ns[i].token)
         /\ \A i \in 0 .. Len(ns) : Nesting(ns)[i] \in Nat
  <1> DEFINE n == Len(ns)
             Is(f) == f = [i \in 0 .. n |-> IF i = 0 THEN 0
                             ELSE f[ns[i].parent] + (IF ns[i].token.type \in {"{", "["} THEN 1 ELSE 0)]
             up   == [i \in 1 .. n |-> ns[i].parent]
             val  == [i \in 0 .. n |-> 0]
             step == [i \in 0 .. n |-> [x \in Nat |-> x + Opens(ns[i].token)]]
  <1>0. n \in Nat /\ \A i \in 1 .. n : ns[i].parent \in 0 .. i - 1
    OBVIOUS
  <1>1. /\ 0 \in {0}
        /\ \A i \in 1 .. n : i \notin {0} => up[i] \in 0 .. i - 1
        /\ \A i \in 0 .. n : i \in {0} => val[i] \in Nat
        /\ \A i \in 0 .. n : step[i] \in [Nat -> Nat]
    <2>1. \A i : Opens(ns[i].token) \in Nat
      BY DEF Opens
    <2> HIDE DEF n
    <2> QED
      BY <1>0, <2>1
  <1>2. PICK f : Recursion(f, n, {0}, val, up, step) /\ f \in [0 .. n -> Nat]
    <2> HIDE DEF up, val, step, n
    <2> QED
      BY <1>0, <1>1, RecursionExists
  <1>3. Is(f)
    <2>1. ASSUME NEW i \in 0 .. n
          PROVE  f[i] = IF i = 0 THEN 0 ELSE f[ns[i].parent] + (IF ns[i].token.type \in {"{", "["} THEN 1 ELSE 0)
      <3>1. f[i] = IF i \in {0} THEN val[i] ELSE step[i][f[up[i]]]
        <4> HIDE DEF up, val, step
        <4> QED
          BY <1>2 DEF Recursion
      <3>2. ASSUME i # 0 PROVE up[i] = ns[i].parent /\ f[ns[i].parent] \in Nat
        <4>1. i \in 1 .. n
          BY <3>2
        <4>2. ns[i].parent \in 0 .. n
          BY <1>0, <4>1
        <4> QED
          BY <1>2, <4>1, <4>2
      <3> QED
        BY <3>1, <3>2 DEF Opens, Openers
    <2>2. f = [i \in 0 .. n |-> f[i]]
      BY <1>2
    <2> QED
      BY <2>1, <2>2
  <1> DEFINE nesting == Nesting(ns)
  <1>4. Is(nesting)
    <2>1. nesting = CHOOSE g : Is(g)
      BY DEF Nesting
    <2>2. Is(CHOOSE g : Is(g))
      <3> HIDE DEF Is
      <3> QED
        BY <1>3
    <2> QED
      BY <2>1, <2>2
  <1> HIDE DEF nesting
  <1>5. /\ nesting[0] = 0
        /\ \A i \in 1 .. n : nesting[i] = nesting[ns[i].parent] + Opens(ns[i].token)
    <2>1. \A i \in 0 .. n : nesting[i] =
            IF i = 0 THEN 0 ELSE nesting[ns[i].parent] + (IF ns[i].token.type \in {"{", "["} THEN 1 ELSE 0)
      BY <1>4
    <2>2. 0 \in 0 .. n /\ \A i \in 1 .. n : i \in 0 .. n /\ i # 0
      BY <1>0
    <2>3. nesting[0] = 0
      BY <2>1, <2>2
    <2>4. ASSUME NEW i \in 1 .. n PROVE nesting[i] = nesting[ns[i].parent] + Opens(ns[i].token)
      BY <2>1, <2>2 DEF Opens, Openers
    <2> QED
      BY <2>3, <2>4
  <1>6. \A i \in 0 .. n : nesting[i] \in Nat
    <2> DEFINE T == {i \in 0 .. n : nesting[i] \notin Nat}
    <2> SUFFICES ASSUME T # {} PROVE FALSE
      OBVIOUS
    <2>1. PICK i \in T : \A j \in T : i <= j
      <3>1. T \subseteq Nat
        OBVIOUS
      <3> HIDE DEF T
      <3> QED
        BY <3>1, LeastNat
    <2>2. i \in 1 .. n /\ nesting[i] \notin Nat
      BY <1>5, <2>1
    <2>3. ns[i].parent \in 0 .. i - 1 /\ ns[i].parent \in 0 .. n
      BY <1>0, <2>2
    <2>4. ns[i].parent \notin T
      <3> HIDE DEF T
      <3> QED
        BY <2>1, <2>2, <2>3
    <2>5. nesting[ns[i].parent] \in Nat
      BY <2>3, <2>4
    <2>6. Opens(ns[i].token) \in Nat
      BY DEF Opens
    <2> QED
      BY <1>5, <2>2, <2>5, <2>6
  <1> QED
    BY <1>5, <1>6 DEF nesting

(* A new node lies in the innermost scope, and the others where they did.  *)
LEMMA NestingGrows ==
  ASSUME NEW ns, NEW sc, TreeOK(ns, sc), NEW ns2, NEW t, Extends(ns, sc, ns2, t)
  PROVE  /\ \A i \in 0 .. Len(ns) : Nesting(ns2)[i] = Nesting(ns)[i]
         /\ Nesting(ns2)[Len(ns) + 1] =
              (IF sc = <<>> THEN 0 ELSE Nesting(ns)[sc[Len(sc)].parent]) + Opens(t)
  <1> DEFINE n == Len(ns)
             old == Nesting(ns)
             new == Nesting(ns2)
             p == IF sc = <<>> THEN 0 ELSE sc[Len(sc)].parent
  <1>1. n \in Nat /\ (\A i \in 1 .. n : ns[i].parent \in 0 .. i - 1) /\ p \in 0 .. n
    <2>1. sc # <<>> => sc[Len(sc)] \in ScopeOf(n)
      BY DEF TreeOK
    <2>2. n \in Nat /\ (\A i \in 1 .. n : ns[i].parent \in 0 .. i - 1)
      BY DEF TreeOK
    <2> QED
      BY <2>1, <2>2 DEF ScopeOf
  <1>2. /\ old[0] = 0
        /\ \A i \in 1 .. n : old[i] = old[ns[i].parent] + Opens(ns[i].token)
    BY <1>1, NestingUnfold
  <1>3. TreeOK(ns2, Grown(sc, n + 1))
    BY TreeGrows
  <1>4. Len(ns2) = n + 1 /\ \A i \in 1 .. n + 1 : ns2[i].parent \in 0 .. i - 1
    BY <1>3 DEF TreeOK, Extends
  <1>5. /\ new[0] = 0
        /\ \A i \in 1 .. n + 1 : new[i] = new[ns2[i].parent] + Opens(ns2[i].token)
    <2>1. Len(ns2) \in Nat /\ \A i \in 1 .. Len(ns2) : ns2[i].parent \in 0 .. i - 1
      BY <1>1, <1>4
    <2> QED
      BY <1>4, <2>1, NestingUnfold
  <1>6. /\ \A i \in 1 .. n : ns2[i].parent = ns[i].parent /\ ns2[i].token = ns[i].token
        /\ ns2[n + 1].parent = p /\ ns2[n + 1].token = t
    BY DEF Extends
  <1> HIDE DEF n, old, new, p
  <1>7. \A i \in 0 .. n : new[i] = old[i]
    <2> DEFINE T == {i \in 0 .. n : new[i] # old[i]}
    <2> SUFFICES ASSUME T # {} PROVE FALSE
      OBVIOUS
    <2>1. PICK i \in T : \A j \in T : i <= j
      <3>1. T \subseteq Nat
        BY <1>1
      <3> HIDE DEF T
      <3> QED
        BY <3>1, LeastNat
    <2>2. i \in 1 .. n /\ new[i] # old[i]
      BY <1>1, <1>2, <1>5, <2>1
    <2>3. ns[i].parent \in 0 .. i - 1 /\ ns[i].parent \in 0 .. n
      BY <1>1, <2>2
    <2>4. ns[i].parent \notin T
      <3> HIDE DEF T
      <3> QED
        BY <2>1, <2>2, <2>3
    <2>5. new[ns[i].parent] = old[ns[i].parent]
      BY <2>3, <2>4
    <2>6. i \in 1 .. n + 1
      BY <1>1, <2>2
    <2> QED
      BY <1>2, <1>5, <1>6, <2>2, <2>5, <2>6
  <1>8. new[n + 1] = (IF sc = <<>> THEN 0 ELSE old[p]) + Opens(t)
    <2>1. n + 1 \in 1 .. n + 1
      BY <1>1
    <2>2. new[n + 1] = new[p] + Opens(t)
      BY <1>5, <1>6, <2>1
    <2>3. new[p] = old[p]
      BY <1>1, <1>7
    <2>4. sc = <<>> => p = 0
      BY DEF p
    <2> QED
      BY <1>2, <2>2, <2>3, <2>4
  <1> QED
    BY <1>7, <1>8 DEF n, old, new, p

(* A new node is one more of its type.                                     *)
LEMMA NumberGrows ==
  ASSUME NEW ns, Len(ns) \in Nat, NEW sc, NEW ns2, NEW t, Extends(ns, sc, ns2, t), NEW type
  PROVE  /\ Number(ns, type) \in Nat
         /\ Number(ns2, type) = Number(ns, type) + (IF t.type = type THEN 1 ELSE 0)
  <1> DEFINE n == Len(ns)
             old == {i \in 1 .. n : ns[i].token.type = type}
             new == {i \in 1 .. n + 1 : ns2[i].token.type = type}
  <1>1. IsFiniteSet(old) /\ Cardinality(old) \in Nat
    <2>1. IsFiniteSet(1 .. n) /\ old \in SUBSET (1 .. n)
      BY FS_Interval
    <2> QED
      BY <2>1, FS_Subset, FS_CardinalityType
  <1>2. new = (IF t.type = type THEN old \cup {n + 1} ELSE old) /\ n + 1 \notin old
    <2>1. (\A i \in 1 .. n : ns2[i].token = ns[i].token) /\ ns2[n + 1].token = t
      BY DEF Extends
    <2> HIDE DEF n
    <2>2. n \in Nat
      BY DEF n
    <2>3. \A i \in Int : i \in new <=> i \in old \/ (i = n + 1 /\ t.type = type)
      <3> TAKE i \in Int
      <3>1. CASE i \in 1 .. n
        BY <2>1, <2>2, <3>1
      <3>2. CASE i = n + 1
        BY <2>1, <2>2, <3>2
      <3>3. CASE i \notin 1 .. n /\ i # n + 1
        BY <2>2, <3>3
      <3> QED
        BY <3>1, <3>2, <3>3
    <2>4. new \subseteq Int /\ old \subseteq Int /\ n + 1 \in Int /\ n + 1 \notin old
      BY <2>2
    <2> HIDE DEF new, old
    <2> QED
      BY <2>3, <2>4
  <1>3. Number(ns, type) = Cardinality(old) /\ Number(ns2, type) = Cardinality(new)
    BY DEF Number, Extends
  <1> HIDE DEF old, new
  <1>4. Cardinality(new) = Cardinality(old) + (IF t.type = type THEN 1 ELSE 0)
    <2>1. CASE t.type = type
      <3>1. Cardinality(old \cup {n + 1}) = Cardinality(old) + 1
        BY <1>1, <1>2, FS_AddElement
      <3> QED
        BY <1>2, <2>1, <3>1
    <2>2. CASE t.type # type
      BY <1>1, <1>2, <2>2
    <2> QED
      BY <2>1, <2>2
  <1> QED
    BY <1>1, <1>3, <1>4

---------------------------------------------------------------------------
(* What is read and what is built.                                         *)

Firsts == {"RULE_JSON", "RULE_VALUE", "RULE_OBJECT", "RULE_ARRAY", "string", "scalar"}

\* The depth the prescan has seen, or sees with the bracket now expected.
Deepest(r, top, d) == IF top \in Openers /\ d > r.maxDepth THEN d ELSE r.maxDepth

\* With top expected next and d scopes open the counts r of the tokens read
\* are those of the nodes built.  A bracket is read after its node is built,
\* or before its scope is closed.
Balanced(r, top, ns, d) ==
  /\ r \in Count
  /\ r.depth = IF top \in Openers \cup EndMarks THEN d - 1 ELSE d
  /\ Number(ns, "{") = IF top = "{" THEN r.objects + 1 ELSE r.objects
  /\ Number(ns, "[") = IF top = "[" THEN r.arrays + 1 ELSE r.arrays
  /\ Number(ns, "string") + Number(ns, "scalar") = r.values
  /\ Deepest(r, top, d) <= MaxDepth
  /\ \A i \in 1 .. Len(ns) : Nesting(ns)[i] <= Deepest(r, top, d)
  /\ Len(ns) = 0 => top \in Firsts /\ r.maxDepth = 0
  /\ Len(ns) > 0 => \E i \in 1 .. Len(ns) : Nesting(ns)[i] = Deepest(r, top, d)

\* Every open scope lies one deeper than the one around it.
Nested(ns, sc) == \A s \in 1 .. Len(sc) : Nesting(ns)[sc[s].parent] = s

(* Something else is expected, and nothing read.                           *)
LEMMA BalancedExpand ==
  ASSUME NEW r, NEW top, NEW ns, NEW d \in Nat, Balanced(r, top, ns, d),
         top \notin Openers \cup EndMarks, NEW top2, top2 \notin Openers \cup EndMarks,
         Len(ns) = 0 => top2 \in Firsts
  PROVE  Balanced(r, top2, ns, d)
  <1>1. Deepest(r, top, d) = r.maxDepth /\ Deepest(r, top2, d) = r.maxDepth
    BY DEF Deepest
  <1>2. top # "{" /\ top # "[" /\ top2 # "{" /\ top2 # "["
    BY DEF Openers
  <1> QED
    BY <1>1, <1>2 DEF Balanced

(* A scope is closed.                                                      *)
LEMMA BalancedClose ==
  ASSUME NEW r, NEW top \in EndMarks, NEW ns, NEW d \in Nat, Balanced(r, top, ns, d),
         NEW top2, top2 \notin Openers \cup EndMarks
  PROVE  Balanced(r, top2, ns, d - 1)
  <1>1. top \notin Openers /\ top \notin Firsts
    BY DEF EndMarks, Openers, Firsts
  <1>2. Deepest(r, top, d) = r.maxDepth /\ Deepest(r, top2, d - 1) = r.maxDepth
    BY <1>1 DEF Deepest
  <1>3. top # "{" /\ top # "[" /\ top2 # "{" /\ top2 # "["
    BY <1>1 DEF Openers
  <1> QED
    BY <1>1, <1>2, <1>3 DEF Balanced

(* A bracket or a separator is read.                                       *)
LEMMA BalancedRead ==
  ASSUME NEW r, NEW ns, NEW d \in Nat, NEW t, Balanced(r, t.type, ns, d), t.type \in Punctuation,
         NEW r2, Adds(r, t, r2),
         NEW top2, top2 \notin Openers, top2 \in EndMarks <=> t.type \in Closers,
         t.type \in Closers => d > 0
  PROVE  Balanced(r2, top2, ns, d)
  <1> DEFINE ty == t.type
  <1>1. ty \notin Firsts /\ ty \notin EndMarks /\ ty \notin {"string", "scalar"} /\ (ty \in Closers => ty \notin Openers)
    BY DEF Punctuation, Firsts, EndMarks, Closers, Openers
  <1>2. top2 # "{" /\ top2 # "["
    BY DEF Openers
  <1>3. r \in Count /\ r2 \in Count /\ Len(ns) # 0
    BY <1>1 DEF Balanced, Adds
  <1>4. r.depth \in Nat /\ r2.depth \in Nat /\ r.maxDepth \in Nat /\ r2.maxDepth \in Nat /\ r.objects \in Nat /\ r.arrays \in Nat
    BY <1>3 DEF Count
  <1>5. r.depth = IF ty \in Openers THEN d - 1 ELSE d
    BY <1>1 DEF Balanced
  <1>6. r2.depth = IF top2 \in Openers \cup EndMarks THEN d - 1 ELSE d
    <2>1. r2.depth = IF ty \in Openers THEN r.depth + 1
                     ELSE IF ty \in Closers /\ r.depth > 0 THEN r.depth - 1 ELSE r.depth
      BY DEF Adds
    <2>2. CASE ty \in Openers
      BY <1>1, <1>4, <1>5, <2>1, <2>2
    <2>3. CASE ty \in Closers
      BY <1>1, <1>4, <1>5, <2>1, <2>3
    <2>4. CASE ty \notin Openers /\ ty \notin Closers
      BY <1>1, <1>4, <1>5, <2>1, <2>4
    <2> QED
      BY <2>2, <2>3, <2>4
  <1>7. Deepest(r2, top2, d) = Deepest(r, ty, d)
    <2>1. Deepest(r2, top2, d) = r2.maxDepth
      BY DEF Deepest
    <2>2. r2.maxDepth = IF ty \in Openers /\ r.depth + 1 > r.maxDepth THEN r.depth + 1 ELSE r.maxDepth
      BY DEF Adds
    <2>3. ty \in Openers => r.depth + 1 = d
      BY <1>4, <1>5
    <2> QED
      BY <2>1, <2>2, <2>3 DEF Deepest
  <1>8. /\ r2.objects = (IF ty = "{" THEN r.objects + 1 ELSE r.objects)
        /\ r2.arrays = (IF ty = "[" THEN r.arrays + 1 ELSE r.arrays)
        /\ r2.values = r.values
    BY <1>1 DEF Adds
  <1> QED
    BY <1>2, <1>3, <1>6, <1>7, <1>8 DEF Balanced

(* How deep a new node lies.                                               *)
LEMMA NewNesting ==
  ASSUME NEW ns, NEW sc, TreeOK(ns, sc), Nested(ns, sc), NEW ns2, NEW t, Extends(ns, sc, ns2, t)
  PROVE  /\ \A i \in 1 .. Len(ns) : Nesting(ns2)[i] = Nesting(ns)[i] /\ Nesting(ns)[i] \in Nat
         /\ Nesting(ns2)[Len(ns) + 1] = Len(sc) + Opens(t)
         /\ Len(ns) \in Nat /\ Len(ns2) = Len(ns) + 1 /\ Len(sc) \in Nat
         /\ Len(sc) > 0 => \E i \in 1 .. Len(ns) : Nesting(ns)[i] = Len(sc)
  <1>1. Len(ns) \in Nat /\ Len(sc) \in Nat /\ (\A i \in 1 .. Len(ns) : ns[i].parent \in 0 .. i - 1) /\ sc \in Seq(ScopeOf(Len(ns)))
    BY DEF TreeOK
  <1>2. /\ \A i \in 0 .. Len(ns) : Nesting(ns2)[i] = Nesting(ns)[i] /\ Nesting(ns)[i] \in Nat
        /\ Nesting(ns2)[Len(ns) + 1] = (IF sc = <<>> THEN 0 ELSE Nesting(ns)[sc[Len(sc)].parent]) + Opens(t)
    <2>1. \A i \in 0 .. Len(ns) : Nesting(ns)[i] \in Nat
      BY ONLY <1>1, NestingUnfold
    <2>2. /\ \A i \in 0 .. Len(ns) : Nesting(ns2)[i] = Nesting(ns)[i]
          /\ Nesting(ns2)[Len(ns) + 1] = (IF sc = <<>> THEN 0 ELSE Nesting(ns)[sc[Len(sc)].parent]) + Opens(t)
      BY NestingGrows
    <2> QED
      BY ONLY <2>1, <2>2
  <1>3. sc # <<>> => /\ sc[Len(sc)].parent \in 1 .. Len(ns)
                     /\ Nesting(ns)[sc[Len(sc)].parent] = Len(sc)
    <2> SUFFICES ASSUME sc # <<>> PROVE sc[Len(sc)].parent \in 1 .. Len(ns) /\ Nesting(ns)[sc[Len(sc)].parent] = Len(sc)
      OBVIOUS
    <2>1. Len(sc) \in 1 .. Len(sc) /\ sc[Len(sc)] \in ScopeOf(Len(ns))
      BY <1>1
    <2> QED
      BY <2>1 DEF Nested, ScopeOf
  <1>4. sc = <<>> <=> Len(sc) = 0
    BY <1>1
  <1>5. Nesting(ns2)[Len(ns) + 1] = Len(sc) + Opens(t)
    BY <1>2, <1>3, <1>4
  <1>6. Len(ns2) = Len(ns) + 1
    BY DEF Extends
  <1> QED
    BY <1>1, <1>2, <1>3, <1>4, <1>5, <1>6

(* A node is built for a bracket that is to be read.                       *)
LEMMA BalancedOpen ==
  ASSUME NEW r, NEW top \in {"RULE_OBJECT", "RULE_ARRAY"}, NEW ns, NEW sc, Balanced(r, top, ns, Len(sc)),
         TreeOK(ns, sc), Nested(ns, sc), NEW ns2, NEW t, Extends(ns, sc, ns2, t),
         t.type \in Openers, Len(sc) + 1 <= MaxDepth
  PROVE  Balanced(r, t.type, ns2, Len(sc) + 1)
  <1> DEFINE ty == t.type
             d == Len(sc)
             n == Len(ns)
  <1>1. top \notin Openers \cup EndMarks /\ ty \notin {"string", "scalar"} /\ Opens(t) = 1 /\ ty \notin EndMarks
    BY DEF Openers, EndMarks, Opens
  <1>2. /\ \A i \in 1 .. n : Nesting(ns2)[i] = Nesting(ns)[i] /\ Nesting(ns)[i] \in Nat
        /\ Nesting(ns2)[n + 1] = d + 1
        /\ n \in Nat /\ Len(ns2) = n + 1 /\ d \in Nat
    BY <1>1, NewNesting
  <1>3. \A type : /\ Number(ns, type) \in Nat
                  /\ Number(ns2, type) = Number(ns, type) + (IF ty = type THEN 1 ELSE 0)
    BY <1>2, NumberGrows
  <1>13. \A type : ty # type => Number(ns2, type) = Number(ns, type)
    BY <1>3
  <1>4. r \in Count /\ r.maxDepth \in Nat /\ r.objects \in Nat /\ r.arrays \in Nat
    BY DEF Balanced, Count
  <1>5. Deepest(r, top, d) = r.maxDepth /\ Deepest(r, ty, d + 1) = IF d + 1 > r.maxDepth THEN d + 1 ELSE r.maxDepth
    BY <1>1 DEF Deepest
  <1>6. /\ r.depth = d
        /\ Number(ns, "{") = r.objects /\ Number(ns, "[") = r.arrays
        /\ Number(ns, "string") + Number(ns, "scalar") = r.values
        /\ r.maxDepth <= MaxDepth
        /\ \A i \in 1 .. n : Nesting(ns)[i] <= r.maxDepth
        /\ n = 0 => r.maxDepth = 0
        /\ n > 0 => \E i \in 1 .. n : Nesting(ns)[i] = r.maxDepth
    BY <1>1, <1>5 DEF Balanced, Openers
  <1> HIDE DEF n, d
  <1>7. /\ Number(ns2, "{") = IF ty = "{" THEN r.objects + 1 ELSE r.objects
        /\ Number(ns2, "[") = IF ty = "[" THEN r.arrays + 1 ELSE r.arrays
        /\ Number(ns2, "string") + Number(ns2, "scalar") = r.values
    <2>1. /\ Number(ns2, "{") = Number(ns, "{") + (IF ty = "{" THEN 1 ELSE 0)
          /\ Number(ns2, "[") = Number(ns, "[") + (IF ty = "[" THEN 1 ELSE 0)
      BY <1>3
    <2>2. /\ Number(ns2, "string") = Number(ns, "string") + (IF ty = "string" THEN 1 ELSE 0)
          /\ Number(ns2, "scalar") = Number(ns, "scalar") + (IF ty = "scalar" THEN 1 ELSE 0)
          /\ Number(ns, "string") \in Nat /\ Number(ns, "scalar") \in Nat
      BY <1>3
    <2> HIDE DEF ty
    <2>3. ty # "string" /\ ty # "scalar"
      BY <1>1
    <2>4. Number(ns, "{") = r.objects /\ Number(ns, "[") = r.arrays /\ Number(ns, "string") + Number(ns, "scalar") = r.values
      BY <1>6
    <2>5. Number(ns2, "{") = IF ty = "{" THEN r.objects + 1 ELSE r.objects
      <3>2. CASE ty = "{"
        BY <2>1, <2>4, <3>2
      <3>3. CASE ty # "{"
        <4>1. Number(ns2, "{") = Number(ns, "{")
          BY <1>13, <3>3
        <4> QED
          BY <2>4, <3>3, <4>1
      <3> QED
        BY <3>2, <3>3
    <2>6. Number(ns2, "[") = IF ty = "[" THEN r.arrays + 1 ELSE r.arrays
      <3>2. CASE ty = "["
        BY <2>1, <2>4, <3>2
      <3>3. CASE ty # "["
        <4>1. Number(ns2, "[") = Number(ns, "[")
          BY <1>13, <3>3
        <4> QED
          BY <2>4, <3>3, <4>1
      <3> QED
        BY <3>2, <3>3
    <2>7. Number(ns2, "string") = Number(ns, "string") /\ Number(ns2, "scalar") = Number(ns, "scalar")
      BY <2>2, <2>3
    <2> QED
      BY <2>4, <2>5, <2>6, <2>7
  <1> DEFINE m == Deepest(r, ty, d + 1)
  <1>8. m = (IF d + 1 > r.maxDepth THEN d + 1 ELSE r.maxDepth) /\ m \in Nat
    BY <1>2, <1>4, <1>5
  <1> HIDE DEF m
  <1>9. \A i \in 1 .. n + 1 : Nesting(ns2)[i] <= m
    <2> TAKE i \in 1 .. n + 1
    <2>1. CASE i = n + 1
      BY <1>2, <1>4, <1>8, <2>1
    <2>2. CASE i # n + 1
      <3>1. i \in 1 .. n
        BY <1>2, <2>2
      <3>2. Nesting(ns2)[i] \in Nat /\ Nesting(ns2)[i] <= r.maxDepth
        BY <1>2, <1>6, <3>1
      <3> QED
        BY <1>2, <1>4, <1>8, <3>2
    <2> QED
      BY <2>1, <2>2
  <1>10. \E i \in 1 .. n + 1 : Nesting(ns2)[i] = m
    <2>1. CASE m = d + 1
      BY <1>2, <2>1
    <2>2. CASE m # d + 1
      <3>1. m = r.maxDepth /\ r.maxDepth # 0
        BY <1>2, <1>4, <1>8, <2>2
      <3>2. n > 0
        <4>1. n # 0
          BY <1>6, <3>1
        <4>2. n \in Nat
          BY <1>2
        <4> QED
          BY <4>1, <4>2
      <3>3. PICK i \in 1 .. n : Nesting(ns)[i] = m
        BY <1>6, <3>1, <3>2
      <3> QED
        BY <1>2, <3>3
    <2> QED
      BY <2>1, <2>2
  <1>11. m <= MaxDepth
    BY <1>6, <1>8 DEF d
  <1>12. r.depth = (d + 1) - 1 /\ n + 1 > 0 /\ n + 1 # 0
    <2>1. d \in Nat /\ n \in Nat /\ r.depth = d
      BY <1>2, <1>6
    <2> QED
      BY <2>1
  <1>14. Balanced(r, ty, ns2, d + 1)
    <2> HIDE DEF ty
    <2>1. ty \in Openers \cup EndMarks
      BY DEF ty
    <2> QED
      BY <1>2, <1>4, <1>7, <1>9, <1>10, <1>11, <1>12, <2>1 DEF Balanced, m
  <1> QED
    BY <1>14 DEF d

(* A leaf is read and built.                                               *)
LEMMA BalancedLeaf ==
  ASSUME NEW r, NEW ns, NEW sc, NEW t, Balanced(r, t.type, ns, Len(sc)), t.type \in {"string", "scalar"},
         TreeOK(ns, sc), Nested(ns, sc), NEW ns2, Extends(ns, sc, ns2, t),
         NEW r2, Adds(r, t, r2), NEW top2, top2 \notin Openers \cup EndMarks
  PROVE  Balanced(r2, top2, ns2, Len(sc))
  <1> DEFINE ty == t.type
             d == Len(sc)
             n == Len(ns)
  <1>1. ty \notin Openers \cup EndMarks /\ ty \notin Closers /\ ty # "{" /\ ty # "[" /\ top2 # "{" /\ top2 # "[" /\ Opens(t) = 0
    BY DEF Openers, Closers, EndMarks, Opens
  <1>2. /\ \A i \in 1 .. n : Nesting(ns2)[i] = Nesting(ns)[i] /\ Nesting(ns)[i] \in Nat
        /\ Nesting(ns2)[n + 1] = d
        /\ n \in Nat /\ Len(ns2) = n + 1 /\ d \in Nat
        /\ d > 0 => \E i \in 1 .. n : Nesting(ns)[i] = d
    <2>1. /\ \A i \in 1 .. Len(ns) : Nesting(ns2)[i] = Nesting(ns)[i] /\ Nesting(ns)[i] \in Nat
          /\ Nesting(ns2)[Len(ns) + 1] = Len(sc) + Opens(t)
          /\ Len(ns) \in Nat /\ Len(ns2) = Len(ns) + 1 /\ Len(sc) \in Nat
          /\ Len(sc) > 0 => \E i \in 1 .. Len(ns) : Nesting(ns)[i] = Len(sc)
      BY NewNesting
    <2>2. Len(sc) + Opens(t) = Len(sc)
      <3>1. Opens(t) = 0
        BY <1>1
      <3>2. Len(sc) \in Nat
        BY <2>1
      <3> QED
        BY <3>1, <3>2
    <2> QED
      BY <2>1, <2>2
  <1>3. \A type : /\ Number(ns, type) \in Nat
                  /\ Number(ns2, type) = Number(ns, type) + (IF ty = type THEN 1 ELSE 0)
    BY <1>2, NumberGrows
  <1>12. \A type : ty # type => Number(ns2, type) = Number(ns, type)
    BY <1>3
  <1>4. r \in Count /\ r2 \in Count /\ r.maxDepth \in Nat /\ r.objects \in Nat /\ r.arrays \in Nat
    BY DEF Balanced, Count, Adds
  <1>5. r2.depth = r.depth /\ r2.maxDepth = r.maxDepth /\ r2.values = r.values + 1 /\ r2.objects = r.objects /\ r2.arrays = r.arrays
    BY <1>1 DEF Adds
  <1>6. Deepest(r, ty, d) = r.maxDepth /\ Deepest(r2, top2, d) = r.maxDepth
    BY <1>1, <1>5 DEF Deepest
  <1>7. /\ r.depth = d
        /\ Number(ns, "{") = r.objects /\ Number(ns, "[") = r.arrays
        /\ Number(ns, "string") + Number(ns, "scalar") = r.values
        /\ r.maxDepth <= MaxDepth
        /\ \A i \in 1 .. n : Nesting(ns)[i] <= r.maxDepth
        /\ n = 0 => r.maxDepth = 0
        /\ n > 0 => \E i \in 1 .. n : Nesting(ns)[i] = r.maxDepth
    BY <1>1, <1>6 DEF Balanced
  <1> HIDE DEF n, d
  <1>8. /\ Number(ns2, "{") = r.objects
        /\ Number(ns2, "[") = r.arrays
        /\ Number(ns2, "string") + Number(ns2, "scalar") = r.values + 1
    <2>1. /\ Number(ns2, "{") = Number(ns, "{") + (IF ty = "{" THEN 1 ELSE 0)
          /\ Number(ns2, "[") = Number(ns, "[") + (IF ty = "[" THEN 1 ELSE 0)
      BY <1>3
    <2>2. /\ Number(ns2, "string") = Number(ns, "string") + (IF ty = "string" THEN 1 ELSE 0)
          /\ Number(ns2, "scalar") = Number(ns, "scalar") + (IF ty = "scalar" THEN 1 ELSE 0)
          /\ Number(ns, "string") \in Nat /\ Number(ns, "scalar") \in Nat
      BY <1>3
    <2> HIDE DEF ty
    <2>3. ty # "{" /\ ty # "[" /\ ty \in {"string", "scalar"}
      BY <1>1 DEF ty
    <2>4. Number(ns, "{") = r.objects /\ Number(ns, "[") = r.arrays /\ Number(ns, "string") + Number(ns, "scalar") = r.values
      BY <1>7
    <2>5. Number(ns2, "{") = r.objects /\ Number(ns2, "[") = r.arrays
      <3>1. Number(ns2, "{") = Number(ns, "{") /\ Number(ns2, "[") = Number(ns, "[")
        BY <1>12, <2>3
      <3> QED
        BY <2>4, <3>1
    <2>6. Number(ns2, "string") + Number(ns2, "scalar") = (Number(ns, "string") + Number(ns, "scalar")) + 1
      <3>1. CASE ty = "string"
        BY <2>2, <3>1
      <3>2. CASE ty = "scalar"
        BY <2>2, <3>2
      <3> QED
        BY <2>3, <3>1, <3>2
    <2> QED
      BY <2>4, <2>5, <2>6
  <1>9. \A i \in 1 .. n + 1 : Nesting(ns2)[i] <= r.maxDepth
    <2> TAKE i \in 1 .. n + 1
    <2>1. CASE i = n + 1
      <3>1. d <= r.maxDepth
        <4>1. CASE d > 0
          BY <1>2, <1>7, <4>1
        <4>2. CASE d = 0
          BY <1>4, <4>2
        <4> QED
          BY <1>2, <4>1, <4>2
      <3> QED
        BY <1>2, <2>1, <3>1
    <2>2. CASE i # n + 1
      <3>1. i \in 1 .. n
        BY <1>2, <2>2
      <3> QED
        BY <1>2, <1>7, <3>1
    <2> QED
      BY <2>1, <2>2
  <1>10. \E i \in 1 .. n + 1 : Nesting(ns2)[i] = r.maxDepth
    <2>1. CASE n = 0
      <3>1. d = 0
        BY <1>2, <2>1
      <3>2. n + 1 \in 1 .. n + 1
        BY <2>1
      <3> QED
        BY <1>2, <1>7, <2>1, <3>1, <3>2
    <2>2. CASE n > 0
      <3>1. PICK i \in 1 .. n : Nesting(ns)[i] = r.maxDepth
        BY <1>7, <2>2
      <3> QED
        BY <1>2, <3>1
    <2> QED
      BY <1>2, <2>1, <2>2
  <1>11. Balanced(r2, top2, ns2, d)
    <2>1. n + 1 > 0 /\ n + 1 # 0
      BY <1>2
    <2> QED
      BY <1>1, <1>2, <1>4, <1>5, <1>6, <1>7, <1>8, <1>9, <1>10, <2>1 DEF Balanced
  <1> QED
    BY <1>11 DEF d

---------------------------------------------------------------------------
(* The invariant.                                                          *)

TablesOK ==
  /\ nodes \in Seq(NodeOf(Len(nodes), Len(keyTree)))
  /\ keyTree \in Seq(KeyOf(Len(nodes), Len(keyTree)))
  /\ capacity \in Nat \ {0}
  /\ DOMAIN keys = 0 .. capacity - 1
  /\ \A e \in DOMAIN keys : keys[e] = Free \/ keys[e][1] \in 1 .. Len(nodes)

\* The bracket a rule is for.
Opening(rule) == IF rule = "RULE_OBJECT" THEN "{" ELSE "["

TextOK ==
  /\ doc \in Seq(AnyToken)
  /\ pos \in 1 .. Len(doc) + 1
  /\ controls = <<>> => pos = Len(doc) + 1
  /\ Top(controls) \in {"RULE_OBJECT", "RULE_ARRAY"} => Current.type = Opening(Top(controls))

Statuses == {"parsing", "accepted", "MALFORMED_JSON", "MAXIMUM_NESTED_DEPTH_REACHED"}

\* The depth is that of the scopes, of which there is one for each end mark.
StatusOK ==
  /\ status \in Statuses
  /\ depth \in 0 .. MaxDepth + 1
  /\ Len(scopes) <= MaxDepth
  /\ status = "parsing" => depth = Len(scopes)
  /\ status = "accepted" => controls = <<>>
  /\ status = "MAXIMUM_NESTED_DEPTH_REACHED" =>
       Top(controls) \in {"RULE_OBJECT", "RULE_ARRAY"} /\ Len(scopes) = MaxDepth

Read == Counts(doc)[pos - 1]

ParserInv ==
  /\ TablesOK
  /\ TextOK
  /\ StatusOK
  /\ StackOK(controls)
  /\ Cardinality(Marks(controls)) = Len(scopes)
  /\ TreeOK(nodes, scopes)
  /\ Nested(nodes, scopes)
  /\ Balanced(Read, Top(controls), nodes, Len(scopes))

(* What a parse starts with.                                               *)
LEMMA InvHoldsAtFirst ==
  ASSUME ParserInit
  PROVE  ParserInv
  <1>1. /\ doc \in Document /\ pos = 1 /\ controls = <<"RULE_JSON">> /\ depth = 0 /\ status = "parsing"
        /\ scopes = <<>> /\ nodes = <<>> /\ keyTree = <<>>
        /\ capacity = TableCapacity(Estimate(doc).values)
        /\ keys = EmptyTable(capacity)
    BY DEF ParserInit, AstInit
  <1>2. doc \in Seq(AnyToken) /\ Len(doc) \in Nat
    BY <1>1, TokensAssumption DEF AnyToken
  <1>3. Counts(doc)[0] = NothingCounted /\ \A i \in 0 .. Len(doc) : Counts(doc)[i] \in Count
    BY <1>2, CountsUnfold
  <1>4. TablesOK
    <2>1. Estimate(doc).values \in Nat
      BY <1>2, <1>3 DEF Estimate, Count
    <2>2. capacity \in Nat \ {0}
      BY <1>1, <2>1, CapacityPositive
    <2>3. DOMAIN keys = 0 .. capacity - 1 /\ \A e \in DOMAIN keys : keys[e] = Free
      BY <1>1 DEF EmptyTable
    <2> QED
      BY <1>1, <2>2, <2>3 DEF TablesOK
  <1>5. controls # <<>> /\ Len(controls) = 1 /\ controls[1] = "RULE_JSON" /\ Top(controls) = "RULE_JSON"
    BY <1>1 DEF Top
  <1>6. TextOK
    BY <1>1, <1>2, <1>5 DEF TextOK
  <1>7. StatusOK
    BY <1>1, ParserAssumption DEF StatusOK, Statuses
  <1>8. StackOK(controls)
    <2>1. controls \in Seq(Expectable)
      BY <1>1 DEF Expectable, Rules
    <2> QED
      BY <1>5, <2>1 DEF StackOK
  <1>9. Cardinality(Marks(controls)) = Len(scopes)
    <2>1. Marks(controls) = {}
      BY <1>5 DEF Marks, EndMarks
    <2> QED
      BY <1>1, <2>1, FS_EmptySet
  <1>10. TreeOK(nodes, scopes) /\ Nested(nodes, scopes)
    BY <1>1 DEF TreeOK, Nested
  <1>11. Balanced(Read, Top(controls), nodes, Len(scopes))
    <2>1. Read = NothingCounted /\ Read \in Count
      BY <1>1, <1>2, <1>3 DEF Read
    <2>2. Len(nodes) = 0 /\ Len(scopes) = 0
      BY <1>1
    <2>3. \A type : Number(nodes, type) = 0
      <3>1. \A type : {i \in 1 .. Len(nodes) : nodes[i].token.type = type} = {}
        BY <2>2
      <3> QED
        BY <3>1, FS_EmptySet DEF Number
    <2>4. Top(controls) \in Firsts /\ Top(controls) \notin Openers /\ Top(controls) \notin EndMarks
      BY <1>5 DEF Firsts, Openers, EndMarks
    <2>5. Deepest(Read, Top(controls), Len(scopes)) = 0
      BY <2>1, <2>4 DEF Deepest, NothingCounted
    <2>6. Read.depth = 0 /\ Read.maxDepth = 0 /\ Read.objects = 0 /\ Read.arrays = 0 /\ Read.values = 0
      BY <2>1 DEF NothingCounted
    <2>7. Number(nodes, "string") + Number(nodes, "scalar") = 0
      BY <2>3
    <2>8. 0 <= MaxDepth
      BY ParserAssumption
    <2>9. Top(controls) # "{" /\ Top(controls) # "["
      BY <1>5
    <2>10. Number(nodes, "{") = 0 /\ Number(nodes, "[") = 0
      BY <2>3
    <2>11. \A i \in 1 .. Len(nodes) : FALSE
      BY <2>2
    <2>12. ~ (Len(nodes) > 0)
      BY <2>2
    <2> QED
      BY <2>1, <2>2, <2>4, <2>5, <2>6, <2>7, <2>8, <2>9, <2>10, <2>11, <2>12 DEF Balanced
  <1> QED
    BY <1>4, <1>6, <1>7, <1>8, <1>9, <1>10, <1>11 DEF ParserInv

(* The token at hand.                                                      *)
LEMMA CurrentFacts ==
  ASSUME TextOK
  PROVE  /\ Current.type \in Symbols \cup {"error"}
         /\ Current.type = "eof" => pos = Len(doc) + 1
         /\ Current.type \in Symbols \ {"eof"} =>
              Current \in Token /\ pos \in 1 .. Len(doc) /\ Adds(Read, Current, Counts(doc)[pos])
  <1>1. doc \in Seq(AnyToken) /\ pos \in 1 .. Len(doc) + 1 /\ Len(doc) \in Nat
    <2>1. doc \in Seq(AnyToken) /\ pos \in 1 .. Len(doc) + 1
      BY DEF TextOK
    <2> QED
      BY <2>1
  <1>2. CASE pos <= Len(doc)
    <2>1. pos \in 1 .. Len(doc) /\ Current = doc[pos]
      BY <1>1, <1>2 DEF Current, TokenAt
    <2>2. Current \in AnyToken
      BY <1>1, <2>1
    <2>3. /\ Current.type \in Punctuation \cup {"string", "scalar", "error"}
          /\ Current.type # "error" => Current \in Token
      BY <2>2, TokenFacts
    <2>4. Adds(Read, Current, Counts(doc)[pos])
      <3>1. pos - 1 \in 0 .. Len(doc)
        BY <2>1
      <3>2. Counts(doc)[pos - 1] \in Count /\ Counts(doc)[pos] = Counted(Counts(doc)[pos - 1], doc[pos])
        BY <1>1, <2>1, <3>1, CountsUnfold
      <3> QED
        BY <2>1, <2>2, <3>2, CountedFacts DEF Read
    <2> QED
      BY <2>1, <2>3, <2>4 DEF Symbols, Punctuation
  <1>3. CASE ~ (pos <= Len(doc))
    <2>1. pos = Len(doc) + 1 /\ Current = EndOfFile
      BY <1>1, <1>3 DEF Current, TokenAt
    <2> QED
      BY <2>1, TokenFacts DEF Symbols
  <1> QED
    BY <1>2, <1>3

(* A node is added for the token at hand.                                  *)
LEMMA NodeAdded ==
  ASSUME ParserInv, Current \in Token, NEW type \in {"OBJECT", "ARRAY", "LEAF"}, LinkNode(type, Current, HugeName)
  PROVE  /\ TablesOK'
         /\ Extends(nodes, scopes, nodes', Current)
         /\ TreeOK(nodes', Linked) /\ Nested(nodes', Linked) /\ Len(Linked) = Len(scopes)
         /\ Current.type \in Openers =>
              /\ TreeOK(nodes', Append(Linked, NewScope))
              /\ Nested(nodes', Append(Linked, NewScope))
              /\ Len(Append(Linked, NewScope)) = Len(scopes) + 1
  <1> DEFINE n == Len(nodes)
             g == Grown(scopes, n + 1)
  <1>1. TablesOK /\ TreeOK(nodes, scopes) /\ Nested(nodes, scopes)
    BY DEF ParserInv
  <1>2. scopes \in Seq(ScopeOf(n)) /\ n \in Nat
    BY <1>1 DEF TreeOK
  <1>3. /\ nodes' \in Seq(NodeOf(n + 1, Len(keyTree')))
        /\ keyTree' \in Seq(KeyOf(n + 1, Len(keyTree')))
        /\ Extends(nodes, scopes, nodes', Current)
    BY <1>1, <1>2, LinkFacts DEF TablesOK
  <1>4. Len(nodes') = n + 1
    BY <1>3 DEF Extends
  <1>5. /\ capacity' = capacity
        /\ DOMAIN keys' = DOMAIN keys
        /\ \A e \in DOMAIN keys : keys'[e] = keys[e] \/ (keys'[e][1] = Last(scopes).parent /\ scopes # <<>>)
    <2> DEFINE key == ScopedKey(Current.name)
               at == EntryAt(capacity, key, EndOf(keys, capacity, key))
    <2>1. capacity' = capacity
      BY DEF LinkNode
    <2>2. keys' = keys \/ (keys' = TableWith(keys, capacity, key) /\ IsKey)
      BY DEF LinkNode
    <2>3. keys' = keys \/ (keys' = [keys EXCEPT ![at] = key] /\ scopes # <<>>)
      BY <2>2 DEF TableWith, IsKey, InObject
    <2>4. key[1] = Last(scopes).parent
      BY DEF ScopedKey
    <2> HIDE DEF key, at
    <2> QED
      BY <2>1, <2>3, <2>4
  <1>6. TablesOK'
    <2>1. scopes # <<>> => Last(scopes).parent \in 1 .. n
      <3> SUFFICES ASSUME scopes # <<>> PROVE Last(scopes).parent \in 1 .. n
        OBVIOUS
      <3>1. Len(scopes) \in 1 .. Len(scopes)
        BY <1>2
      <3>2. scopes[Len(scopes)] \in ScopeOf(n)
        BY <1>2, <3>1
      <3> QED
        BY <3>2 DEF Last, ScopeOf
    <2>2. \A e \in DOMAIN keys : keys'[e] = Free \/ keys'[e][1] \in 1 .. n + 1
      <3>1. \A e \in DOMAIN keys : keys[e] = Free \/ keys[e][1] \in 1 .. n
        BY <1>1 DEF TablesOK
      <3>2. \A i \in 1 .. n : i \in 1 .. n + 1
        BY <1>2
      <3> HIDE DEF n
      <3> QED
        BY <1>5, <2>1, <3>1, <3>2
    <2> HIDE DEF n
    <2> QED
      BY <1>1, <1>3, <1>4, <1>5, <2>2 DEF TablesOK
  <1>7. Linked = g /\ NewScope = Fresh(n + 1)
    <2>1. NewScope = Fresh(n + 1)
      BY DEF NewScope, Fresh
    <2>2. CASE scopes = <<>>
      BY <2>1, <2>2 DEF Linked, Grown
    <2>3. CASE scopes # <<>>
      <3>1. Linked = [scopes EXCEPT ![Len(scopes)] = Enlarged(scopes[Len(scopes)], n + 1)]
        BY <2>3 DEF Linked, Last
      <3>2. g = [scopes EXCEPT ![Len(scopes)] = Enlarged(scopes[Len(scopes)], n + 1)]
        BY <2>3 DEF Grown
      <3> QED
        BY <2>1, <3>1, <3>2
    <2> QED
      BY <2>2, <2>3
  <1>8. /\ TreeOK(nodes', g)
        /\ Len(g) = Len(scopes)
        /\ \A s \in 1 .. Len(scopes) : g[s].parent = scopes[s].parent
    BY <1>1, <1>3, TreeGrows
  <1>9. \A s \in 1 .. Len(scopes) : scopes[s].parent \in 1 .. n
    <2> TAKE s \in 1 .. Len(scopes)
    <2>1. scopes[s] \in ScopeOf(n)
      BY <1>2
    <2> QED
      BY <2>1 DEF ScopeOf
  <1>10. /\ \A i \in 1 .. n : Nesting(nodes')[i] = Nesting(nodes)[i]
         /\ Nesting(nodes')[n + 1] = Len(scopes) + Opens(Current)
         /\ Len(scopes) \in Nat
    BY <1>1, <1>3, NewNesting
  <1> HIDE DEF g, n
  <1>11. Nested(nodes', g)
    BY <1>1, <1>8, <1>9, <1>10 DEF Nested
  <1>12. ASSUME Current.type \in Openers
         PROVE  /\ TreeOK(nodes', Append(g, Fresh(n + 1)))
                /\ Nested(nodes', Append(g, Fresh(n + 1)))
                /\ Len(Append(g, Fresh(n + 1))) = Len(scopes) + 1
    <2>1. Opens(Current) = 1
      BY <1>12 DEF Opens
    <2>2. \A s \in 1 .. Len(g) : g[s].parent # n + 1
      BY <1>2, <1>8, <1>9
    <2>3. TreeOK(nodes', Append(g, Fresh(n + 1)))
      <3>1. Len(nodes') > 0
        BY <1>2, <1>4
      <3> QED
        BY <1>4, <1>8, <2>2, <3>1, TreeOpens
    <2>4. /\ Len(Append(g, Fresh(n + 1))) = Len(scopes) + 1
          /\ \A s \in 1 .. Len(scopes) : Append(g, Fresh(n + 1))[s] = g[s]
          /\ Append(g, Fresh(n + 1))[Len(scopes) + 1] = Fresh(n + 1)
      <3>1. g \in Seq(ScopeOf(n + 1)) /\ Fresh(n + 1) \in ScopeOf(n + 1)
        BY <1>2, <1>4, <1>8 DEF TreeOK, Fresh, ScopeOf
      <3> QED
        BY <1>8, <3>1, AppendProperties
    <2>5. Fresh(n + 1).parent = n + 1
      BY DEF Fresh
    <2>6. Nested(nodes', Append(g, Fresh(n + 1)))
      <3> DEFINE a == Append(g, Fresh(n + 1))
      <3>1. \A s \in 1 .. Len(scopes) + 1 : s \in 1 .. Len(scopes) \/ s = Len(scopes) + 1
        BY <1>10
      <3>2. Nesting(nodes')[n + 1] = Len(scopes) + 1
        BY <1>10, <2>1
      <3> HIDE DEF a
      <3>3. \A s \in 1 .. Len(scopes) + 1 : Nesting(nodes')[a[s].parent] = s
        BY <1>8, <1>11, <2>4, <2>5, <3>1, <3>2 DEF Nested, a
      <3> QED
        BY <2>4, <3>3 DEF Nested, a
    <2> QED
      BY <2>3, <2>4, <2>6
  <1> QED
    BY <1>3, <1>6, <1>7, <1>8, <1>11, <1>12

(* What the invariant says of the top of the stack.                        *)
LEMMA TopFacts ==
  ASSUME ParserInv, controls # <<>>
  PROVE  /\ Len(controls) \in Nat \ {0}
         /\ Expected = Top(controls) /\ Top(controls) = controls[Len(controls)]
         /\ Top(controls) \in Expectable
         /\ Len(controls) = 1 => Top(controls) \in {"RULE_JSON", "eof"}
         /\ Len(nodes) \in Nat /\ Len(scopes) \in Nat
  <1>1. StackOK(controls) /\ TreeOK(nodes, scopes)
    BY DEF ParserInv
  <1>2. controls \in Seq(Expectable) /\ (Len(controls) > 0 => controls[1] \in {"RULE_JSON", "eof"})
    BY <1>1 DEF StackOK
  <1>3. Len(nodes) \in Nat /\ Len(scopes) \in Nat
    BY <1>1 DEF TreeOK
  <1>4. Len(controls) \in Nat \ {0} /\ controls[Len(controls)] \in Expectable
    BY <1>2
  <1>5. Expected = controls[Len(controls)] /\ Top(controls) = controls[Len(controls)]
    BY DEF Expected, Last, Top
  <1> QED
    BY <1>2, <1>3, <1>4, <1>5

(* A parse that stops leaves everything else as it is.                     *)
LEMMA StopStep ==
  ASSUME ParserInv, status = "parsing",
         UNCHANGED <<doc, pos, controls, scopes, nodes, keys, keyTree, capacity>>,
         StatusOK'
  PROVE  ParserInv'
  <1> QED
    BY DEF ParserInv, TablesOK, TextOK, Current, TokenAt, EndOfFile, Read

(* A rule is replaced by others.                                           *)
LEMMA ExpandStep ==
  ASSUME ParserInv, status = "parsing", controls # <<>>, Top(controls) \in Rules \ {"RULE_OBJECT", "RULE_ARRAY"},
         NEW s, Plain(s), Expand(s),
         Len(controls) = 1 => Len(s) > 0 /\ s[1] \in {"RULE_JSON", "eof"},
         Len(s) > 0 /\ s[Len(s)] \in {"RULE_OBJECT", "RULE_ARRAY"} => Current.type = Opening(s[Len(s)]),
         Len(nodes) = 0 => Len(s) > 0 /\ s[Len(s)] \in Firsts
  PROVE  ParserInv'
  <1> DEFINE c == controls
             d == Front(c) \o s
  <1>1. /\ controls' = d
        /\ UNCHANGED <<doc, pos, depth, status, scopes, nodes, keys, keyTree, capacity>>
    BY DEF Expand, Push, astVars
  <1>2. /\ StackOK(c) /\ Len(c) \in Nat \ {0}
        /\ c[Len(c)] \notin EndMarks \cup Closers /\ Top(c) \notin Openers \cup EndMarks
    BY TopFacts DEF ParserInv, Rules, EndMarks, Closers, Openers
  <1>3. /\ StackOK(d)
        /\ Marks(d) = Marks(c)
        /\ Len(d) = Len(c) - 1 + Len(s)
        /\ Len(s) > 0 => d[Len(d)] = s[Len(s)]
        /\ Len(s) = 0 /\ Len(d) > 0 =>
             d[Len(d)] \notin EndMarks \cup Openers \cup {"RULE_OBJECT", "RULE_ARRAY"}
    BY <1>2, ExpandStack
  <1>4. s \in Seq(Expectable) /\ d \in Seq(Expectable) /\ Len(s) \in Nat
    <2>1. s \in Seq(Expectable) /\ d \in Seq(Expectable)
      BY <1>3 DEF Plain, StackOK
    <2> QED
      BY <2>1
  <1> HIDE DEF d
  <1>5. d # <<>> /\ Len(d) \in Nat \ {0}
    <2>1. Len(c) = 1 => Len(s) > 0
      OBVIOUS
    <2>2. Len(d) = Len(c) - 1 + Len(s) /\ Len(c) \in Nat \ {0} /\ Len(s) \in Nat
      BY <1>2, <1>3, <1>4
    <2>3. Len(d) \in Nat \ {0}
      <3> DEFINE a == Len(c)  b == Len(s)
      <3>1. a \in Nat /\ a # 0 /\ b \in Nat /\ Len(d) = a - 1 + b /\ (a = 1 => b > 0)
        BY <2>1, <2>2
      <3> HIDE DEF a, b
      <3>2. a - 1 + b \in Nat /\ a - 1 + b # 0
        BY <3>1
      <3> QED
        BY <3>1, <3>2
    <2>4. Len(<<>>) = 0
      OBVIOUS
    <2> QED
      BY <2>3, <2>4
  <1>6. Top(d) = d[Len(d)]
    BY <1>5 DEF Top
  <1>7. Top(d) \notin Openers \cup EndMarks
    <2>1. CASE Len(s) = 0
      BY <1>3, <1>5, <1>6, <2>1
    <2>2. CASE Len(s) > 0
      <3>1. Len(s) \in 1 .. Len(s)
        BY <1>4, <2>2
      <3>2. s[Len(s)] \notin EndMarks \cup Closers \cup Openers
        BY <3>1 DEF Plain
      <3> QED
        BY <1>3, <1>6, <2>2, <3>2
    <2> QED
      BY <1>4, <2>1, <2>2
  <1>8. /\ Top(d) \in {"RULE_OBJECT", "RULE_ARRAY"} => Current.type = Opening(Top(d))
        /\ Len(nodes) = 0 => Top(d) \in Firsts
    <2>1. Len(d) > 0
      BY <1>5
    <2>2. CASE Len(s) > 0
      BY <1>3, <1>6, <2>2
    <2>3. CASE ~ (Len(s) > 0)
      <3>1. Len(s) = 0
        BY <1>4, <2>3
      <3>2. Top(d) \notin {"RULE_OBJECT", "RULE_ARRAY"}
        BY <1>3, <1>6, <2>1, <3>1
      <3> QED
        BY <2>3, <3>2
    <2> QED
      BY <2>2, <2>3
  <1>9. Balanced(Read, Top(d), nodes, Len(scopes))
    <2>1. Len(scopes) \in Nat
      BY TopFacts
    <2>2. Balanced(Read, Top(c), nodes, Len(scopes))
      BY DEF ParserInv
    <2> QED
      BY <1>2, <1>7, <1>8, <2>1, <2>2, BalancedExpand
  <1>10. TextOK'
    <2>1. Current' = Current
      BY <1>1 DEF Current, TokenAt, EndOfFile
    <2> QED
      BY <1>1, <1>5, <1>8, <2>1 DEF ParserInv, TextOK
  <1>11. StatusOK'
    BY <1>1 DEF ParserInv, StatusOK
  <1>12. TablesOK'
    BY <1>1 DEF ParserInv, TablesOK
  <1>13. Read' = Read
    BY <1>1 DEF Read
  <1>14. Cardinality(Marks(c)) = Len(scopes) /\ TreeOK(nodes, scopes) /\ Nested(nodes, scopes)
    BY DEF ParserInv
  <1> QED
    BY <1>1, <1>3, <1>9, <1>10, <1>11, <1>12, <1>13, <1>14 DEF ParserInv

(* An object or an array is opened.                                        *)
LEMMA OpenStep ==
  ASSUME ParserInv, status = "parsing", controls # <<>>,
         NEW rule \in {"RULE_OBJECT", "RULE_ARRAY"}, NEW type \in {"OBJECT", "ARRAY"},
         NEW open \in Openers, NEW close \in Closers, NEW end \in EndMarks,
         NEW content \in {"RULE_MEMBERS", "RULE_ELEMENTS"},
         Open(rule, type, open, close, end, content),
         open = Opening(rule)
  PROVE  ParserInv'
  <1> DEFINE c == controls
             s == IF Ahead.type = close THEN <<end, close, open>> ELSE <<end, close, content, open>>
             d == Front(c) \o s
             t == Current
  <1>1. Top(c) = rule /\ c[Len(c)] = rule /\ Len(c) \in Nat \ {0} /\ Len(nodes) \in Nat /\ Len(scopes) \in Nat
    BY TopFacts DEF Open
  <1>2. /\ depth = Len(scopes) /\ Len(scopes) <= MaxDepth /\ MaxDepth \in Nat
        /\ StackOK(c)
        /\ Cardinality(Marks(c)) = Len(scopes)
        /\ TextOK
        /\ TreeOK(nodes, scopes) /\ Nested(nodes, scopes)
        /\ Balanced(Read, rule, nodes, Len(scopes))
    BY <1>1, ParserAssumption DEF ParserInv, StatusOK
  <1>3. t.type = open
    BY <1>1, <1>2 DEF TextOK
  <1>4. CASE depth + 1 > MaxDepth
    <2>1. /\ depth' = depth + 1
          /\ status' = "MAXIMUM_NESTED_DEPTH_REACHED"
          /\ UNCHANGED <<doc, pos, controls, scopes, nodes, keys, keyTree, capacity>>
      <3>1. ~ (depth + 1 <= MaxDepth)
        BY <1>1, <1>2, <1>4
      <3> QED
        BY <1>4, <3>1 DEF Open, astVars
    <2>2. depth' \in 0 .. MaxDepth + 1 /\ Len(scopes) = MaxDepth
      BY <1>1, <1>2, <1>4, <2>1
    <2>3. StatusOK'
      BY <1>1, <1>2, <2>1, <2>2 DEF StatusOK, Statuses
    <2> QED
      BY <2>1, <2>3, StopStep
  <1>5. CASE ~ (depth + 1 > MaxDepth)
    <2>1. /\ depth' = depth + 1
          /\ LinkNode(type, t, HugeName)
          /\ scopes' = Append(Linked, NewScope)
          /\ controls' = d
          /\ UNCHANGED <<doc, pos, status>>
      BY <1>5 DEF Open, Push
    <2>2. t \in Token
      <3>1. open \in Symbols \ {"eof"}
        BY DEF Symbols, Punctuation, Openers
      <3> QED
        BY <1>2, <1>3, <3>1, CurrentFacts
    <2>3. /\ TablesOK'
          /\ Extends(nodes, scopes, nodes', t)
          /\ TreeOK(nodes', scopes')
          /\ Nested(nodes', scopes')
          /\ Len(scopes') = Len(scopes) + 1
      BY <1>3, <2>1, <2>2, NodeAdded
    <2>4. /\ StackOK(d)
          /\ Len(d) > 0
          /\ d[Len(d)] = open
          /\ Marks(d) = Marks(c) \cup {Len(c)}
          /\ Len(c) \notin Marks(c)
      <3>1. s = <<end, close, open>> \/ s = <<end, close, content, open>>
        OBVIOUS
      <3> HIDE DEF s
      <3> QED
        BY <1>1, <1>2, <3>1, OpenStack
    <2> HIDE DEF d, s
    <2>5. Top(d) = open
      <3>1. Len(<<>>) = 0
        OBVIOUS
      <3> QED
        BY <2>4, <3>1 DEF Top
    <2>6. Cardinality(Marks(d)) = Len(scopes) + 1
      <3>1. IsFiniteSet(Marks(c))
        BY <1>2, MarksFinite DEF StackOK
      <3> QED
        <4>1. Cardinality(Marks(c) \cup {Len(c)}) = Cardinality(Marks(c)) + 1
          BY <2>4, <3>1, FS_AddElement
        <4> QED
          BY <1>2, <2>4, <4>1
    <2>7. Balanced(Read, open, nodes', Len(scopes) + 1)
      <3>1. Len(scopes) + 1 <= MaxDepth
        BY <1>1, <1>2, <1>5
      <3>2. t.type \in Openers
        BY <1>3
      <3> HIDE DEF t
      <3> QED
        BY <1>2, <1>3, <2>3, <3>1, <3>2, BalancedOpen
    <2>8. TextOK'
      <3>1. d # <<>> /\ open # "RULE_OBJECT" /\ open # "RULE_ARRAY"
        <4>1. open # "RULE_OBJECT" /\ open # "RULE_ARRAY"
          BY DEF Openers
        <4>2. Len(<<>>) = 0
          OBVIOUS
        <4>3. d # <<>>
          BY <2>4, <4>2
        <4> QED
          BY <4>1, <4>3
      <3> QED
        BY <1>2, <2>1, <2>5, <3>1 DEF TextOK
    <2>9. StatusOK'
      <3>1. depth' = Len(scopes') /\ Len(scopes') <= MaxDepth /\ depth' \in 0 .. MaxDepth + 1
        BY <1>1, <1>2, <1>5, <2>1, <2>3
      <3> QED
        BY <2>1, <3>1 DEF StatusOK, Statuses
    <2>10. Read' = Read
      BY <2>1 DEF Read
    <2> QED
      BY <2>1, <2>3, <2>4, <2>5, <2>6, <2>7, <2>8, <2>9, <2>10 DEF ParserInv
  <1> QED
    BY <1>4, <1>5

(* An object or an array is closed.                                        *)
LEMMA CloseStep ==
  ASSUME ParserInv, status = "parsing", controls # <<>>, Close
  PROVE  ParserInv'
  <1> DEFINE c == controls
             d == Front(c) \o <<>>
  <1>1. /\ Top(c) \in EndMarks /\ c[Len(c)] \in EndMarks /\ Len(c) \in Nat \ {0}
        /\ Len(c) # 1
        /\ Len(nodes) \in Nat /\ Len(scopes) \in Nat
    <2>1. Expected \in EndMarks
      BY DEF Close, EndMarks
    <2> QED
      BY <2>1, TopFacts DEF EndMarks
  <1>2. /\ depth = Len(scopes) /\ Len(scopes) <= MaxDepth /\ MaxDepth \in Nat
        /\ StackOK(c)
        /\ Cardinality(Marks(c)) = Len(scopes)
        /\ TextOK /\ TablesOK
        /\ TreeOK(nodes, scopes) /\ Nested(nodes, scopes)
        /\ Balanced(Read, Top(c), nodes, Len(scopes))
    BY ParserAssumption DEF ParserInv, StatusOK
  <1>3. /\ controls' = d
        /\ scopes' = Front(scopes)
        /\ depth' = depth - 1
        /\ UNCHANGED <<doc, pos, nodes, keys, keyTree, capacity, status>>
    BY DEF Close, Push
  <1>4. /\ StackOK(d)
        /\ Len(d) = Len(c) - 1
        /\ Marks(d) = Marks(c) \ {Len(c)}
        /\ Len(d) > 0 => /\ d[Len(d)] \notin Openers \cup {"RULE_OBJECT", "RULE_ARRAY"}
                         /\ d[Len(d)] \in EndMarks <=> c[Len(c)] \in Closers
    BY <1>2, PopStack
  <1> HIDE DEF d
  <1>5. d # <<>> /\ Top(d) = d[Len(d)] /\ Len(d) > 0
    <2>1. Len(d) > 0
      BY <1>1, <1>4
    <2>2. Len(<<>>) = 0
      OBVIOUS
    <2> QED
      BY <2>1, <2>2 DEF Top
  <1>6. Top(d) \notin Openers \cup EndMarks /\ Top(d) \notin {"RULE_OBJECT", "RULE_ARRAY"}
    BY <1>1, <1>4, <1>5 DEF EndMarks, Closers
  <1>7. Cardinality(Marks(d)) = Len(scopes) - 1 /\ Len(scopes) > 0
    <2>1. IsFiniteSet(Marks(c)) /\ Len(c) \in Marks(c)
      BY <1>1, <1>2, MarksFinite DEF StackOK, Marks
    <2>2. Cardinality(Marks(d)) = Cardinality(Marks(c)) - 1
      BY <1>4, <2>1, FS_RemoveElement
    <2>3. Marks(c) # {}
      BY <2>1
    <2>4. Cardinality(Marks(c)) # 0
      BY <2>1, <2>3, FS_EmptySet
    <2> QED
      BY <1>1, <1>2, <2>2, <2>4
  <1>8. scopes # <<>>
    <2>1. Len(<<>>) = 0
      OBVIOUS
    <2> QED
      BY <1>7, <2>1
  <1>9. /\ TreeOK(nodes, Front(scopes))
        /\ Len(Front(scopes)) = Len(scopes) - 1
        /\ \A s \in 1 .. Len(scopes) - 1 : Front(scopes)[s] = scopes[s]
    BY <1>2, <1>8, TreeCloses
  <1>10. Nested(nodes, Front(scopes))
    <2>1. \A s \in 1 .. Len(scopes) - 1 : s \in 1 .. Len(scopes)
      BY <1>1
    <2> QED
      BY <1>2, <1>9, <2>1 DEF Nested
  <1>11. Balanced(Read, Top(d), nodes, Len(scopes) - 1)
    BY <1>1, <1>2, <1>6, BalancedClose
  <1>12. TextOK'
    BY <1>2, <1>3, <1>5, <1>6 DEF TextOK
  <1>13. StatusOK'
    <2>1. depth' = Len(scopes') /\ Len(scopes') <= MaxDepth /\ depth' \in 0 .. MaxDepth + 1
      BY <1>1, <1>2, <1>3, <1>7, <1>9
    <2> QED
      BY <1>3, <2>1 DEF StatusOK, Statuses
  <1>14. TablesOK'
    BY <1>2, <1>3 DEF TablesOK
  <1>15. Read' = Read
    BY <1>3 DEF Read
  <1> QED
    BY <1>3, <1>4, <1>7, <1>9, <1>10, <1>11, <1>12, <1>13, <1>14, <1>15 DEF ParserInv

(* A terminal is matched.                                                  *)
LEMMA MatchStep ==
  ASSUME ParserInv, status = "parsing", controls # <<>>, Match
  PROVE  ParserInv'
  <1> DEFINE c == controls
             d == Front(c) \o <<>>
             t == Current
  <1>1. /\ Top(c) \in Symbols /\ c[Len(c)] = Top(c) /\ Expected = Top(c) /\ Len(c) \in Nat \ {0}
        /\ Len(c) = 1 => Top(c) \in {"RULE_JSON", "eof"}
        /\ Len(nodes) \in Nat /\ Len(scopes) \in Nat
    BY TopFacts DEF Match
  <1>2. /\ depth = Len(scopes) /\ Len(scopes) <= MaxDepth /\ MaxDepth \in Nat
        /\ depth \in 0 .. MaxDepth + 1
        /\ StackOK(c)
        /\ Cardinality(Marks(c)) = Len(scopes)
        /\ TextOK /\ TablesOK
        /\ TreeOK(nodes, scopes) /\ Nested(nodes, scopes)
        /\ Balanced(Read, Top(c), nodes, Len(scopes))
    BY ParserAssumption DEF ParserInv, StatusOK
  <1>3. CASE Top(c) # t.type
    <2>1. status' = "MALFORMED_JSON" /\ UNCHANGED <<doc, pos, controls, depth, scopes, nodes, keys, keyTree, capacity>>
      BY <1>1, <1>3 DEF Match, Raise, astVars
    <2>2. StatusOK'
      BY <1>2, <2>1 DEF StatusOK, Statuses
    <2> QED
      BY <2>1, <2>2, StopStep
  <1>4. CASE Top(c) = t.type
    <2>1. /\ \/ IsLeaf(t.type) /\ LinkNode("LEAF", t, HugeName) /\ scopes' = Linked
             \/ ~IsLeaf(t.type) /\ UNCHANGED <<scopes, nodes, keys, keyTree, capacity>>
          /\ pos' = IF pos <= Len(doc) THEN pos + 1 ELSE pos
          /\ controls' = d
          /\ UNCHANGED <<doc, depth, status>>
      BY <1>1, <1>4 DEF Match, Push, astVars
    <2>2. /\ StackOK(d)
          /\ Len(d) = Len(c) - 1
          /\ Marks(d) = Marks(c) \ {Len(c)}
          /\ Len(d) > 0 => /\ d[Len(d)] \notin Openers \cup {"RULE_OBJECT", "RULE_ARRAY"}
                           /\ d[Len(d)] \in EndMarks <=> t.type \in Closers
          /\ t.type \in Closers => Len(d) > 0
          /\ t.type \in Closers => c[Len(c) - 1] \in EndMarks /\ Len(c) - 1 \in 1 .. Len(c)
      <3>1. /\ StackOK(d)
            /\ Len(d) = Len(c) - 1
            /\ Marks(d) = Marks(c) \ {Len(c)}
            /\ Len(d) > 0 => /\ d[Len(d)] = c[Len(c) - 1]
                             /\ d[Len(d)] \notin Openers \cup {"RULE_OBJECT", "RULE_ARRAY"}
                             /\ d[Len(d)] \in EndMarks <=> c[Len(c)] \in Closers
            /\ c[Len(c)] \in Closers => Len(d) > 0
        BY <1>2, PopStack
      <3>2. c[Len(c)] = t.type
        BY <1>1, <1>4
      <3> HIDE DEF d, t
      <3>3. Len(d) > 0 => Len(c) - 1 \in 1 .. Len(c)
        BY <1>1, <3>1
      <3> QED
        BY <3>1, <3>2, <3>3
    <2> HIDE DEF d
    <2>3. /\ Top(d) \notin Openers \cup {"RULE_OBJECT", "RULE_ARRAY"}
          /\ Top(d) \in EndMarks <=> t.type \in Closers
      <3>1. CASE d = <<>>
        <4>1. Len(d) = 0 /\ Top(d) = "none"
          BY <3>1 DEF Top
        <4>2. t.type \notin Closers
          <5>1. t.type \in Closers => Len(d) > 0
            BY <2>2
          <5>2. ~ (Len(d) > 0)
            BY <4>1
          <5> QED
            BY <5>1, <5>2
        <4>3. "none" \notin Openers \cup {"RULE_OBJECT", "RULE_ARRAY"} /\ "none" \notin EndMarks
          BY DEF Openers, EndMarks
        <4> QED
          BY <4>1, <4>2, <4>3
      <3>2. CASE d # <<>>
        <4>1. Len(d) > 0 /\ Top(d) = d[Len(d)]
          <5>1. d \in Seq(Expectable)
            BY <2>2 DEF StackOK
          <5>2. Len(d) > 0
            BY <3>2, <5>1
          <5> QED
            BY <3>2, <5>2 DEF Top
        <4> QED
          BY <2>2, <4>1
      <3> QED
        BY <3>1, <3>2
    <2>4. Marks(d) = Marks(c)
      <3>1. Len(c) \notin Marks(c)
        BY <1>1 DEF Marks, Symbols, Punctuation, EndMarks
      <3> QED
        BY <2>2, <3>1
    <2>5. TablesOK' /\ TreeOK(nodes', scopes') /\ Nested(nodes', scopes') /\ Len(scopes') = Len(scopes)
      <3>1. CASE IsLeaf(t.type)
        <4>1. t.type \in Symbols \ {"eof"}
          BY <3>1 DEF IsLeaf, Symbols
        <4>2. t \in Token
          BY <1>2, <4>1, CurrentFacts
        <4>3. LinkNode("LEAF", t, HugeName) /\ scopes' = Linked
          BY <2>1, <3>1
        <4> QED
          BY <4>2, <4>3, NodeAdded
      <3>2. CASE ~IsLeaf(t.type)
        <4>1. UNCHANGED <<scopes, nodes, keys, keyTree, capacity>>
          BY <2>1, <3>2
        <4> QED
          BY <1>2, <4>1 DEF TablesOK
      <3> QED
        BY <3>1, <3>2
    <2>6. doc \in Seq(AnyToken) /\ pos \in 1 .. Len(doc) + 1 /\ Len(doc) \in Nat
      <3>1. doc \in Seq(AnyToken) /\ pos \in 1 .. Len(doc) + 1
        BY <1>2 DEF TextOK
      <3> QED
        BY <3>1
    <2>7. pos' \in 1 .. Len(doc) + 1 /\ (d = <<>> => pos' = Len(doc) + 1)
      <3>1. pos' \in 1 .. Len(doc) + 1
        BY <2>1, <2>6
      <3>2. ASSUME d = <<>> PROVE pos' = Len(doc) + 1
        <4>1. Len(d) = 0
          BY <3>2
        <4>2. Len(c) = 1
          BY <1>1, <2>2, <4>1
        <4>3. t.type = "eof"
          BY <1>1, <1>4, <4>2 DEF Symbols, Punctuation
        <4>4. pos = Len(doc) + 1
          BY <1>2, <4>3, CurrentFacts
        <4> QED
          BY <2>1, <2>6, <4>4
      <3> QED
        BY <3>1, <3>2
    <2>8. TextOK'
      BY <2>1, <2>3, <2>6, <2>7 DEF TextOK
    <2>9. StatusOK'
      BY <1>2, <2>1, <2>5 DEF StatusOK, Statuses
    <2>10. Balanced(Read', Top(d), nodes', Len(scopes))
      <3>1. CASE t.type = "eof"
        <4>1. pos = Len(doc) + 1
          BY <1>2, <3>1, CurrentFacts
        <4>2. pos' = pos /\ Read' = Read
          BY <2>1, <2>6, <4>1 DEF Read
        <4>3. nodes' = nodes
          BY <2>1, <3>1 DEF IsLeaf
        <4>4. Top(c) \notin Openers \cup EndMarks /\ Top(c) \notin Firsts /\ Top(d) \notin Openers \cup EndMarks
          BY <1>4, <2>3, <3>1 DEF Openers, EndMarks, Firsts, Closers
        <4>5. Len(nodes) # 0
          BY <1>2, <4>4 DEF Balanced
        <4> QED
          BY <1>1, <1>2, <4>2, <4>3, <4>4, <4>5, BalancedExpand
      <3>2. CASE t.type # "eof"
        <4>1. t.type \in Symbols \ {"eof"}
          BY <1>1, <1>4, <3>2
        <4>2. pos \in 1 .. Len(doc) /\ Adds(Read, t, Counts(doc)[pos])
          BY <1>2, <4>1, CurrentFacts
        <4>3. pos' = pos + 1 /\ pos' - 1 = pos
          BY <2>1, <2>6, <4>2
        <4>4. Adds(Read, t, Read')
          BY <2>1, <4>2, <4>3 DEF Read
        <4>5. Balanced(Read, t.type, nodes, Len(scopes))
          BY <1>2, <1>4
        <4>6. CASE IsLeaf(t.type)
          <5>1. t.type \in {"string", "scalar"}
            BY <4>6 DEF IsLeaf
          <5>2. Extends(nodes, scopes, nodes', t)
            <6>1. t \in Token
              BY <1>2, <4>1, CurrentFacts
            <6>2. LinkNode("LEAF", t, HugeName)
              BY <2>1, <4>6
            <6> QED
              BY <6>1, <6>2, NodeAdded
          <5>3. Top(d) \notin Openers \cup EndMarks
            BY <2>3, <5>1 DEF Closers
          <5> HIDE DEF t
          <5> QED
            BY <1>2, <4>4, <4>5, <5>1, <5>2, <5>3, BalancedLeaf
        <4>7. CASE ~IsLeaf(t.type)
          <5>1. t.type \in Punctuation
            BY <4>1, <4>7 DEF Symbols, IsLeaf
          <5>2. nodes' = nodes
            BY <2>1, <4>7
          <5>3. t.type \in Closers => Len(scopes) > 0
            <6> SUFFICES ASSUME t.type \in Closers PROVE Len(scopes) > 0
              OBVIOUS
            <6>1. Len(c) - 1 \in Marks(c)
              BY <2>2 DEF Marks
            <6>2. IsFiniteSet(Marks(c))
              BY <1>2, MarksFinite DEF StackOK
            <6>3. Cardinality(Marks(c)) # 0
              BY <6>1, <6>2, FS_EmptySet
            <6> QED
              BY <1>1, <1>2, <6>3
          <5>4. Top(d) \notin Openers
            BY <2>3
          <5> HIDE DEF t
          <5> QED
            BY <1>1, <2>3, <4>4, <4>5, <5>1, <5>2, <5>3, <5>4, BalancedRead
        <4> QED
          BY <4>6, <4>7
      <3> QED
        BY <3>1, <3>2
    <2> QED
      BY <1>2, <2>1, <2>2, <2>4, <2>5, <2>8, <2>9, <2>10 DEF ParserInv
  <1> QED
    BY <1>3, <1>4

Harmless == Expectable \ (EndMarks \cup Closers \cup Openers)

(* The replacements there are.                                             *)
LEMMA PlainFacts ==
  ASSUME NEW a \in Harmless \ {"RULE_OBJECT", "RULE_ARRAY"}, NEW b \in Harmless \ {"RULE_OBJECT", "RULE_ARRAY"},
         NEW c \in Harmless
  PROVE  /\ Plain(<<>>) /\ Plain(<<c>>) /\ Plain(<<a, c>>) /\ Plain(<<a, b, c>>)
         /\ Len(<<>>) = 0 /\ Len(<<c>>) = 1 /\ Len(<<a, c>>) = 2 /\ Len(<<a, b, c>>) = 3
         /\ <<c>>[1] = c /\ <<a, c>>[2] = c /\ <<a, b, c>>[3] = c
  <1>1. /\ a \in Expectable /\ b \in Expectable /\ c \in Expectable
        /\ a \notin EndMarks \cup Closers \cup Openers /\ b \notin EndMarks \cup Closers \cup Openers
        /\ c \notin EndMarks \cup Closers \cup Openers
    BY DEF Harmless
  <1>2. /\ Len(<<>>) = 0 /\ Len(<<c>>) = 1 /\ Len(<<a, c>>) = 2 /\ Len(<<a, b, c>>) = 3
        /\ <<c>>[1] = c /\ <<a, c>>[1] = a /\ <<a, c>>[2] = c
        /\ <<a, b, c>>[1] = a /\ <<a, b, c>>[2] = b /\ <<a, b, c>>[3] = c
    OBVIOUS
  <1>3. Plain(<<>>)
    BY DEF Plain
  <1>4. Plain(<<c>>)
    BY <1>1 DEF Plain
  <1>5. Plain(<<a, c>>)
    BY <1>1 DEF Plain
  <1>6. Plain(<<a, b, c>>)
    <2> DEFINE s == <<a, b, c>>
    <2>1. s \in Seq(Expectable) /\ Len(s) = 3 /\ s[1] = a /\ s[2] = b /\ s[3] = c
      BY <1>1
    <2> HIDE DEF s
    <2>2. (\A i \in 1 .. Len(s) : i = 1 \/ i = 2 \/ i = 3) /\ \A i \in 1 .. Len(s) - 1 : i = 1 \/ i = 2
      BY <2>1
    <2>3. \A i \in 1 .. Len(s) : s[i] \notin EndMarks \cup Closers \cup Openers
      BY <1>1, <2>1, <2>2
    <2>4. \A i \in 1 .. Len(s) - 1 : s[i] \notin {"RULE_OBJECT", "RULE_ARRAY"}
      BY <2>1, <2>2
    <2> QED
      BY <2>1, <2>3, <2>4 DEF Plain, s
  <1> QED
    BY <1>2, <1>3, <1>4, <1>5, <1>6

(* What the replacements are made of.                                      *)
LEMMA HarmlessFacts ==
  /\ "eof" \in Harmless \ {"RULE_OBJECT", "RULE_ARRAY"}
  /\ ":" \in Harmless \ {"RULE_OBJECT", "RULE_ARRAY"}
  /\ "," \in Harmless
  /\ "string" \in Harmless /\ "scalar" \in Harmless
  /\ \A rule \in Rules : rule \in Harmless
  /\ \A rule \in Rules \ {"RULE_OBJECT", "RULE_ARRAY"} : rule \in Harmless \ {"RULE_OBJECT", "RULE_ARRAY"}
  <1>1. \A rule \in Rules : rule \in Harmless
    BY DEF Harmless, Expectable, Rules, EndMarks, Closers, Openers
  <1>2. "eof" \in Harmless /\ ":" \in Harmless /\ "," \in Harmless /\ "string" \in Harmless /\ "scalar" \in Harmless
    <2>1. "eof" \in Expectable /\ ":" \in Expectable /\ "," \in Expectable /\ "string" \in Expectable /\ "scalar" \in Expectable
      BY DEF Expectable, Symbols, Punctuation
    <2>2. /\ "eof" \notin EndMarks \cup Closers \cup Openers
          /\ ":" \notin EndMarks \cup Closers \cup Openers
          /\ "," \notin EndMarks \cup Closers \cup Openers
          /\ "string" \notin EndMarks \cup Closers \cup Openers
          /\ "scalar" \notin EndMarks \cup Closers \cup Openers
      BY DEF EndMarks, Closers, Openers
    <2> QED
      BY <2>1, <2>2 DEF Harmless
  <1>3. "eof" \notin {"RULE_OBJECT", "RULE_ARRAY"} /\ ":" \notin {"RULE_OBJECT", "RULE_ARRAY"}
    OBVIOUS
  <1> QED
    BY <1>1, <1>2, <1>3

(* A turn of the loop.                                                     *)
LEMMA InvKeptByStep ==
  ASSUME ParserInv, ParserStep
  PROVE  ParserInv'
  <1>1. /\ status = "parsing" /\ controls # <<>>
        /\ Expected = Top(controls)
        /\ Len(controls) = 1 => Top(controls) \in {"RULE_JSON", "eof"}
        /\ Len(nodes) \in Nat
        /\ Len(nodes) = 0 => Top(controls) \in Firsts
    <2>1. status = "parsing" /\ controls # <<>>
      BY DEF ParserStep
    <2>2. Balanced(Read, Top(controls), nodes, Len(scopes))
      BY DEF ParserInv
    <2>3. Len(nodes) = 0 => Top(controls) \in Firsts
      BY <2>2 DEF Balanced
    <2> QED
      BY <2>1, <2>3, TopFacts
  <1>2. CASE Match
    BY <1>1, <1>2, MatchStep
  <1>3. CASE ExpandJson
    <2> DEFINE s == <<"eof", "RULE_VALUE">>
    <2>1. Plain(s) /\ Len(s) = 2 /\ s[2] = "RULE_VALUE" /\ s[1] = "eof"
      <3>1. "RULE_VALUE" \in Rules
        BY DEF Rules
      <3> QED
        BY <3>1, HarmlessFacts, PlainFacts
    <2>2. Top(controls) = "RULE_JSON" /\ Expand(s)
      BY <1>1, <1>3 DEF ExpandJson
    <2>3. "RULE_JSON" \in Rules \ {"RULE_OBJECT", "RULE_ARRAY"} /\ "RULE_VALUE" \in Firsts
      BY DEF Rules, Firsts
    <2> HIDE DEF s
    <2> QED
      BY <1>1, <2>1, <2>2, <2>3, ExpandStep
  <1>4. CASE ExpandValue
    <2>1. Top(controls) = "RULE_VALUE" /\ Top(controls) \in Rules \ {"RULE_OBJECT", "RULE_ARRAY"} /\ Len(controls) # 1
      BY <1>1, <1>4 DEF ExpandValue, Rules
    <2>2. ASSUME NEW a \in {"RULE_OBJECT", "RULE_ARRAY", "string", "scalar"}, Expand(<<a>>),
                 a \in {"RULE_OBJECT", "RULE_ARRAY"} => Current.type = Opening(a)
          PROVE  ParserInv'
      <3> DEFINE s == <<a>>
      <3>1. Plain(s) /\ Len(s) = 1 /\ s[1] = a
        <4>1. a \in Harmless
          BY HarmlessFacts DEF Rules
        <4>2. "RULE_JSON" \in Harmless \ {"RULE_OBJECT", "RULE_ARRAY"}
          BY HarmlessFacts DEF Rules
        <4> QED
          BY <4>1, <4>2, PlainFacts
      <3>2. a \in Firsts /\ Expand(s)
        BY <2>2 DEF Firsts
      <3> HIDE DEF s
      <3>3. Len(s) > 0 /\ s[Len(s)] = a
        BY <3>1
      <3>4. s[Len(s)] \in {"RULE_OBJECT", "RULE_ARRAY"} => Current.type = Opening(s[Len(s)])
        BY <2>2, <3>3
      <3>5. s[Len(s)] \in Firsts
        BY <3>2, <3>3
      <3> QED
        BY <1>1, <2>1, <3>1, <3>2, <3>3, <3>4, <3>5, ExpandStep
    <2>3. CASE Current.type = "{" /\ Expand(<<"RULE_OBJECT">>)
      <3>1. Current.type = Opening("RULE_OBJECT")
        BY <2>3 DEF Opening
      <3> QED
        BY <2>2, <2>3, <3>1
    <2>4. CASE Current.type = "[" /\ Expand(<<"RULE_ARRAY">>)
      <3>1. Current.type = Opening("RULE_ARRAY")
        BY <2>4 DEF Opening
      <3> QED
        BY <2>2, <2>4, <3>1
    <2>5. CASE IsLeaf(Current.type) /\ Expand(<<Current.type>>)
      <3>1. Current.type \in {"string", "scalar"}
        BY <2>5 DEF IsLeaf
      <3>2. Current.type \notin {"RULE_OBJECT", "RULE_ARRAY"}
        BY <3>1
      <3> QED
        BY <2>2, <2>5, <3>1, <3>2
    <2>6. CASE Raise("MALFORMED_JSON")
      <3>1. status' = "MALFORMED_JSON" /\ UNCHANGED <<doc, pos, controls, depth, scopes, nodes, keys, keyTree, capacity>>
        BY <2>6 DEF Raise, astVars
      <3>2. StatusOK'
        BY <3>1 DEF ParserInv, StatusOK, Statuses
      <3> QED
        BY <1>1, <3>1, <3>2, StopStep
    <2> QED
      BY <1>4, <2>3, <2>4, <2>5, <2>6 DEF ExpandValue
  <1>5. CASE ExpandObject
    <2>1. "{" \in Openers /\ "}" \in Closers /\ "MARK_OBJECT_END" \in EndMarks /\ "{" = Opening("RULE_OBJECT")
      BY DEF Openers, Closers, EndMarks, Opening
    <2> QED
      BY <1>1, <1>5, <2>1, OpenStep DEF ExpandObject
  <1>6. CASE ExpandArray
    <2>1. "[" \in Openers /\ "]" \in Closers /\ "MARK_ARRAY_END" \in EndMarks /\ "[" = Opening("RULE_ARRAY")
      BY DEF Openers, Closers, EndMarks, Opening
    <2> QED
      BY <1>1, <1>6, <2>1, OpenStep DEF ExpandArray
  \* The rules that are replaced by others whatever the tokens are.
  <1>7. ASSUME NEW rule \in Rules \ {"RULE_OBJECT", "RULE_ARRAY", "RULE_JSON", "RULE_VALUE"}, Expected = rule,
               NEW s, Plain(s), Expand(s),
               Len(s) > 0 => s[Len(s)] \notin {"RULE_OBJECT", "RULE_ARRAY"}
        PROVE  ParserInv'
    <2>1. Top(controls) = rule /\ rule \notin Firsts /\ rule \notin {"RULE_JSON", "eof"}
      BY <1>1, <1>7 DEF Rules, Firsts
    <2>2. Len(controls) # 1 /\ Len(nodes) # 0 /\ Top(controls) \in Rules \ {"RULE_OBJECT", "RULE_ARRAY"}
      BY <1>1, <2>1
    <2> QED
      BY <1>1, <1>7, <2>2, ExpandStep
  <1>8. CASE ExpandMembers \/ ExpandElements
    <2>1. ASSUME NEW rule \in Rules \ {"RULE_OBJECT", "RULE_ARRAY", "RULE_JSON", "RULE_VALUE"}, Expected = rule,
                 NEW a \in Rules \ {"RULE_OBJECT", "RULE_ARRAY"}, NEW b \in Rules \ {"RULE_OBJECT", "RULE_ARRAY"},
                 Expand(<<a, b>>)
          PROVE  ParserInv'
      <3> DEFINE s == <<a, b>>
      <3>1. Plain(s) /\ Len(s) = 2 /\ s[2] = b
        BY HarmlessFacts, PlainFacts
      <3>2. Expand(s)
        BY <2>1
      <3> HIDE DEF s
      <3> QED
        BY <1>7, <2>1, <3>1, <3>2
    <2>2. /\ "RULE_MEMBERS" \in Rules \ {"RULE_OBJECT", "RULE_ARRAY", "RULE_JSON", "RULE_VALUE"}
          /\ "RULE_ELEMENTS" \in Rules \ {"RULE_OBJECT", "RULE_ARRAY", "RULE_JSON", "RULE_VALUE"}
          /\ "RULE_NEXT_MEMBER" \in Rules \ {"RULE_OBJECT", "RULE_ARRAY"}
          /\ "RULE_NEXT_ELEMENT" \in Rules \ {"RULE_OBJECT", "RULE_ARRAY"}
          /\ "RULE_PAIR" \in Rules \ {"RULE_OBJECT", "RULE_ARRAY"}
          /\ "RULE_VALUE" \in Rules \ {"RULE_OBJECT", "RULE_ARRAY"}
      BY DEF Rules
    <2>3. CASE ExpandMembers
      BY <2>1, <2>2, <2>3 DEF ExpandMembers
    <2>4. CASE ExpandElements
      BY <2>1, <2>2, <2>4 DEF ExpandElements
    <2> QED
      BY <1>8, <2>3, <2>4
  <1>9. CASE ExpandPair
    <2> DEFINE s == <<"RULE_VALUE", ":", "string">>
    <2>1. Plain(s) /\ Len(s) = 3 /\ s[3] = "string"
      <3>1. "RULE_VALUE" \in Rules \ {"RULE_OBJECT", "RULE_ARRAY"}
        BY DEF Rules
      <3> QED
        BY <3>1, HarmlessFacts, PlainFacts
    <2>2. Expected = "RULE_PAIR" /\ Expand(s)
      BY <1>9 DEF ExpandPair
    <2>3. "RULE_PAIR" \in Rules \ {"RULE_OBJECT", "RULE_ARRAY", "RULE_JSON", "RULE_VALUE"}
      BY DEF Rules
    <2> HIDE DEF s
    <2> QED
      BY <1>7, <2>1, <2>2, <2>3
  <1>10. CASE ExpandNextMember \/ ExpandNextElement
    <2>1. ASSUME NEW rule \in Rules \ {"RULE_OBJECT", "RULE_ARRAY", "RULE_JSON", "RULE_VALUE"},
                 NEW content \in Rules \ {"RULE_OBJECT", "RULE_ARRAY"}, ExpandNext(rule, content)
          PROVE  ParserInv'
      <3> DEFINE s == <<content, ",">>
                 e == << >>
      <3>1. Plain(s) /\ Len(s) = 2 /\ s[2] = "," /\ Plain(e) /\ Len(e) = 0
        <4>1. content \in Harmless \ {"RULE_OBJECT", "RULE_ARRAY"} /\ "," \in Harmless
          BY HarmlessFacts
        <4> QED
          BY <4>1, PlainFacts
      <3>2. Expected = rule /\ (Expand(s) \/ Expand(e))
        BY <2>1 DEF ExpandNext
      <3>3. "," \notin {"RULE_OBJECT", "RULE_ARRAY"}
        OBVIOUS
      <3>4. s[Len(s)] \notin {"RULE_OBJECT", "RULE_ARRAY"} /\ ~ (Len(e) > 0)
        <4> HIDE DEF s, e
        <4>1. Len(e) = 0
          BY <3>1
        <4>2. s[Len(s)] = ","
          BY <3>1
        <4>3. ~ (Len(e) > 0)
          BY <4>1
        <4> QED
          BY <3>3, <4>2, <4>3
      <3> HIDE DEF s, e
      <3> QED
        BY <1>7, <3>1, <3>2, <3>4
    <2>2. /\ "RULE_NEXT_MEMBER" \in Rules \ {"RULE_OBJECT", "RULE_ARRAY", "RULE_JSON", "RULE_VALUE"}
          /\ "RULE_NEXT_ELEMENT" \in Rules \ {"RULE_OBJECT", "RULE_ARRAY", "RULE_JSON", "RULE_VALUE"}
          /\ "RULE_MEMBERS" \in Rules \ {"RULE_OBJECT", "RULE_ARRAY"}
          /\ "RULE_ELEMENTS" \in Rules \ {"RULE_OBJECT", "RULE_ARRAY"}
      BY DEF Rules
    <2>3. CASE ExpandNextMember
      BY <2>1, <2>2, <2>3 DEF ExpandNextMember
    <2>4. CASE ExpandNextElement
      BY <2>1, <2>2, <2>4 DEF ExpandNextElement
    <2> QED
      BY <1>10, <2>3, <2>4
  <1>11. CASE Close
    BY <1>1, <1>11, CloseStep
  <1> QED
    BY <1>2, <1>3, <1>4, <1>5, <1>6, <1>8, <1>9, <1>10, <1>11 DEF ParserStep

(* The end of a parse.                                                     *)
LEMMA InvKeptByFinish ==
  ASSUME ParserInv, Finish
  PROVE  ParserInv'
  <1>1. /\ status = "parsing" /\ controls = <<>>
        /\ status' \in {"accepted", "MALFORMED_JSON"}
        /\ UNCHANGED <<doc, pos, controls, depth, scopes, nodes, keys, keyTree, capacity>>
    BY DEF Finish, astVars
  <1>2. StatusOK'
    BY <1>1 DEF ParserInv, StatusOK, Statuses
  <1> QED
    BY <1>1, <1>2, StopStep

(* The event parser keeps the text.                                        *)
LEMMA SaxKeepsText ==
  ASSUME SaxNext
  PROVE  doc' = doc
  <1> QED
    BY DEF SaxNext, Start, ParseLeaf, ParseOpen, NoValue, ParseClose, ParseComma, ParseItem, ParseColon,
           SaxFinish, Tell, Advance, Reject

(* Nothing that happens breaks the invariant.                              *)
LEMMA InvKept ==
  ASSUME ParserInv, [ReadersNext]_readersVars
  PROVE  ParserInv'
  <1>1. CASE ParserStep
    BY <1>1, InvKeptByStep
  <1>2. CASE Finish
    BY <1>2, InvKeptByFinish
  <1>3. CASE UNCHANGED <<doc, pos, controls, depth, status, scopes, nodes, keys, keyTree, capacity>>
    BY <1>3 DEF ParserInv, TablesOK, TextOK, StatusOK, Current, TokenAt, EndOfFile, Read
  <1>4. CASE status # "parsing" /\ SaxNext /\ UNCHANGED <<pos, controls, depth, status, astVars>>
    <2>1. doc' = doc
      BY <1>4, SaxKeepsText
    <2> QED
      BY <1>3, <1>4, <2>1 DEF astVars
  <1>5. CASE UNCHANGED readersVars
    BY <1>3, <1>5 DEF readersVars, parserVars, astVars
  <1> QED
    BY <1>1, <1>2, <1>4, <1>5 DEF ReadersNext, ParserNext

(* In every run of the two readers.                                        *)
LEMMA InvAlways ==
  ReadersSpec => []ParserInv
  <1>1. ReadersInit => ParserInv
    BY InvHoldsAtFirst DEF ReadersInit
  <1>2. ParserInv /\ [ReadersNext]_readersVars => ParserInv'
    BY InvKept
  <1> QED
    BY <1>1, <1>2, PTL DEF ReadersSpec

\* What lies below the i-th symbol of a stack.
Below(c, i) == IF i = 1 THEN "none" ELSE c[i - 1]

---------------------------------------------------------------------------
(* The walks of keytree.c and parser.c as functions of the pool and of the *)
(* array they walk along.                                                  *)

\* Where the way for a name goes on from a tree node, and where it ends.
Child(kt, ns, i, name) == kt[i][Side(name, ns[kt[i].key].token.name)]

PathEnds(kt, ns, name) ==
  LET walk[i \in 1 .. Len(kt)] ==
        LET child == kt[i][Side(name, ns[kt[i].key].token.name)]
        IN  IF child = 0 THEN i ELSE walk[child]
  IN  walk

(* Where the way for a name ends.                                          *)
LEMMA PathEndsUnfold ==
  ASSUME NEW kt, PoolOK(kt), NEW ns, NEW name
  PROVE  \A i \in 1 .. Len(kt) :
           PathEnds(kt, ns, name)[i] = IF Child(kt, ns, i, name) = 0 THEN i
                                       ELSE PathEnds(kt, ns, name)[Child(kt, ns, i, name)]
  <1> DEFINE n == Len(kt)
             S == Nat
             child(i) == Child(kt, ns, i, name)
             left == [i \in 1 .. n |-> child(i)]
             right == [i \in 1 .. n |-> 0]
             step == [i \in 1 .. n |-> [p \in S \X S |-> IF child(i) = 0 THEN i ELSE p[1]]]
             Is(f) == f = [i \in 1 .. n |-> IF child(i) = 0 THEN i ELSE f[child(i)]]
  <1>1. n \in Nat /\ \A i \in 1 .. n : child(i) \in Onward(i, n)
    BY DEF PoolOK, Child, Side
  <1>2. \A i \in 1 .. n : left[i] \in Onward(i, n) /\ right[i] \in Onward(i, n)
    <2> HIDE DEF child
    <2> QED
      BY <1>1 DEF Onward
  <1>3. \A i \in 1 .. n : step[i] \in [S \X S -> S]
    <2> HIDE DEF child
    <2> QED
      OBVIOUS
  <1>4. \E f \in [0 .. n -> S] : MadeOfTwo(f, n, 0, left, right, step)
    <2>1. 0 \in S
      OBVIOUS
    <2> HIDE DEF n, S, left, right, step
    <2> QED
      BY <1>1, <1>2, <1>3, <2>1, OnwardExists
  <1>5. PICK f \in [0 .. n -> S] : MadeOfTwo(f, n, 0, left, right, step)
    BY <1>4
  <1> DEFINE g == [i \in 1 .. n |-> f[i]]
  <1>6. Is(g)
    <2>1. ASSUME NEW i \in 1 .. n
          PROVE  g[i] = IF child(i) = 0 THEN i ELSE g[child(i)]
      <3>1. f[i] = step[i][<<f[left[i]], f[right[i]]>>]
        <4> HIDE DEF step, left, right
        <4> QED
          BY <1>5 DEF MadeOfTwo
      <3>2. child(i) \in 0 .. n /\ (child(i) # 0 => child(i) \in 1 .. n) /\ left[i] = child(i) /\ right[i] = 0
        <4>1. child(i) \in Onward(i, n)
          BY <1>1
        <4> HIDE DEF child
        <4> QED
          BY <1>1, <4>1 DEF Onward
      <3>3. <<f[left[i]], f[right[i]]>> \in S \X S
        <4>1. f[child(i)] \in S /\ f[0] \in S
          <5> HIDE DEF child
          <5> QED
            BY <1>1, <1>5, <3>2
        <4> HIDE DEF child
        <4> QED
          BY <3>2, <4>1
      <3> HIDE DEF child
      <3>4. f[i] = IF child(i) = 0 THEN i ELSE f[child(i)]
        BY <3>1, <3>2, <3>3
      <3> QED
        BY <3>2, <3>4
    <2>2. g = [i \in 1 .. n |-> g[i]]
      OBVIOUS
    <2> HIDE DEF g, n, child
    <2> QED
      BY <2>1, <2>2
  <1>7. Is(PathEnds(kt, ns, name))
    <2>1. PathEnds(kt, ns, name) = CHOOSE h : Is(h)
      BY DEF PathEnds, Child
    <2>2. Is(CHOOSE h : Is(h))
      <3> HIDE DEF Is, g
      <3> QED
        BY <1>6
    <2> QED
      BY <2>1, <2>2
  <1> DEFINE w == PathEnds(kt, ns, name)
  <1> HIDE DEF w
  <1>8. \A i \in 1 .. n : w[i] = IF child(i) = 0 THEN i ELSE w[child(i)]
    <2> HIDE DEF child
    <2> QED
      BY <1>7 DEF w
  <1> QED
    BY <1>8 DEF w

---------------------------------------------------------------------------
(* The children of a node, in the order of their links.                    *)

\* Every node has its children in a chain, and an open scope knows how many
\* there are and which is the last.
KidsOK(ns, sc) ==
  /\ SiblingsOK(ns)
  /\ \A o \in 1 .. Len(ns) : Chain(ns, o, Kids(ns, o))
  /\ \A s \in 1 .. Len(sc) :
       /\ Len(Kids(ns, sc[s].parent)) = sc[s].count
       /\ sc[s].tail = IF Kids(ns, sc[s].parent) = <<>> THEN 0 ELSE Kids(ns, sc[s].parent)[sc[s].count]

\* What else linking a node of type ty behind the innermost scope does: the
\* key tree of that scope's node is then w.
LinksNode(ns, sc, ns2, ty, w) ==
  /\ \A i \in 1 .. Len(ns) :
       /\ ns2[i].type = ns[i].type
       /\ ns2[i].firstChild = IF sc # <<>> /\ sc[Len(sc)].tail = 0 /\ i = sc[Len(sc)].parent THEN Len(ns) + 1
                              ELSE ns[i].firstChild
       /\ ns2[i].keyTree = IF sc # <<>> /\ i = sc[Len(sc)].parent THEN w ELSE ns[i].keyTree
  /\ ns2[Len(ns) + 1].type = ty
  /\ ns2[Len(ns) + 1].firstChild = 0
  /\ ns2[Len(ns) + 1].keyTree = 0

(* Siblings still come later once a node is linked.                        *)
LEMMA SiblingsGrow ==
  ASSUME NEW ns, SiblingsOK(ns), NEW sc, NEW ns2, NEW t, Extends(ns, sc, ns2, t)
  PROVE  SiblingsOK(ns2)
  <1> DEFINE n == Len(ns)
             m == n + 1
  <1>1. n \in Nat /\ \A i \in 1 .. n : ns[i].nextSibling \in Onward(i, n)
    BY DEF SiblingsOK
  <1>2. /\ Len(ns2) = m
        /\ ns2[m].nextSibling = 0
        /\ \A i \in 1 .. n : ns2[i].nextSibling \in {m, ns[i].nextSibling}
    BY DEF Extends
  <1>3. m = n + 1
    OBVIOUS
  <1> HIDE DEF n, m
  <1>4. ASSUME NEW i \in 1 .. m PROVE ns2[i].nextSibling \in Onward(i, m)
    <2>1. CASE i = m
      BY <1>2, <2>1 DEF Onward
    <2>2. CASE i # m
      <3>1. i \in 1 .. n
        BY <1>1, <1>3, <2>2
      <3>2. m \in Onward(i, m) /\ Onward(i, n) \subseteq Onward(i, m)
        BY <1>1, <1>3, <3>1 DEF Onward
      <3> QED
        BY <1>1, <1>2, <3>1, <3>2
    <2> QED
      BY <2>1, <2>2
  <1> QED
    BY <1>1, <1>2, <1>3, <1>4 DEF SiblingsOK

(* The last child of the innermost scope is one of its node's children.    *)
LEMMA TailIsLast ==
  ASSUME NEW ns, NEW sc, KidsOK(ns, sc), TreeOK(ns, sc), sc # <<>>
  PROVE  /\ sc[Len(sc)].parent \in 1 .. Len(ns)
         /\ Kids(ns, sc[Len(sc)].parent) \in Seq(1 .. Len(ns))
         /\ Len(Kids(ns, sc[Len(sc)].parent)) = sc[Len(sc)].count /\ sc[Len(sc)].count \in Nat
         /\ sc[Len(sc)].tail = 0 <=> Kids(ns, sc[Len(sc)].parent) = <<>>
         /\ sc[Len(sc)].tail # 0 =>
              /\ sc[Len(sc)].count \in 1 .. sc[Len(sc)].count
              /\ sc[Len(sc)].tail = Kids(ns, sc[Len(sc)].parent)[sc[Len(sc)].count]
              /\ sc[Len(sc)].tail \in 1 .. Len(ns)
              /\ ns[sc[Len(sc)].tail].parent = sc[Len(sc)].parent
              /\ ns[sc[Len(sc)].tail].nextSibling = 0
  <1> DEFINE a == sc[Len(sc)]
             c == Kids(ns, a.parent)
  <1>1. Len(sc) \in 1 .. Len(sc) /\ Len(ns) \in Nat
    <2>1. sc \in Seq(ScopeOf(Len(ns))) /\ Len(ns) \in Nat
      BY DEF TreeOK
    <2> QED
      BY <2>1
  <1>2. a \in ScopeOf(Len(ns))
    BY <1>1 DEF TreeOK
  <1>3. a.parent \in 1 .. Len(ns) /\ a.count \in Nat
    BY <1>2 DEF ScopeOf
  <1>4. Len(c) = a.count /\ a.tail = IF c = <<>> THEN 0 ELSE c[a.count]
    BY <1>1 DEF KidsOK
  <1>5. Chain(ns, a.parent, c)
    BY <1>3 DEF KidsOK
  <1> HIDE DEF a, c
  <1>6. c \in Seq(1 .. Len(ns))
    BY <1>5 DEF Chain
  <1>7. ASSUME c # <<>>
        PROVE  /\ a.count \in 1 .. a.count /\ a.tail = c[a.count] /\ a.tail \in 1 .. Len(ns)
               /\ ns[a.tail].parent = a.parent /\ ns[a.tail].nextSibling = 0
    <2>1. Len(c) \in Nat \ {0}
      BY <1>6, <1>7, EmptySeq
    <2>2. a.count \in 1 .. Len(c) /\ a.tail = c[a.count]
      BY <1>4, <1>7, <2>1
    <2>3. c[a.count] \in 1 .. Len(ns)
      BY <1>6, <2>2, ElementOfSeq
    <2>4. ns[c[a.count]].parent = a.parent /\ ns[c[a.count]].nextSibling = 0
      BY <1>4, <1>5, <2>2 DEF Chain
    <2> QED
      BY <1>4, <2>2, <2>3, <2>4
  <1>8. a.tail = 0 <=> c = <<>>
    BY <1>1, <1>4, <1>7
  <1> QED
    BY <1>3, <1>4, <1>6, <1>7, <1>8 DEF a, c

\* The children once a node is linked behind the innermost scope.
KidsWith(ns, sc, o) ==
  IF o = Len(ns) + 1 THEN <<>>
  ELSE IF sc # <<>> /\ o = sc[Len(sc)].parent THEN Append(Kids(ns, o), Len(ns) + 1)
  ELSE Kids(ns, o)

(* A linked node is the last child of the innermost scope's node and       *)
(* touches no other chain.                                                 *)
LEMMA KidsLinked ==
  ASSUME NEW ns, NEW sc, KidsOK(ns, sc), TreeOK(ns, sc), NEW ns2, NEW t, Extends(ns, sc, ns2, t),
         NEW ty, NEW w, LinksNode(ns, sc, ns2, ty, w), NEW o \in 1 .. Len(ns) + 1
  PROVE  Kids(ns2, o) = KidsWith(ns, sc, o) /\ Chain(ns2, o, Kids(ns2, o))
  <1> DEFINE n == Len(ns)
             m == n + 1
             a == sc[Len(sc)]
             d == KidsWith(ns, sc, o)
             c == Kids(ns, o)
  <1> SUFFICES Chain(ns2, o, d)
    <2>1. SiblingsOK(ns2)
      BY SiblingsGrow DEF KidsOK
    <2> HIDE DEF d
    <2> QED
      BY <2>1, ChainIsKids DEF d
  <1>1. n \in Nat /\ m = n + 1 /\ o \in 1 .. m /\ Len(ns2) = m
    BY DEF TreeOK, Extends
  <1>2. /\ \A i \in 1 .. n : /\ ns2[i].parent = ns[i].parent
                             /\ ns2[i].nextSibling = IF sc # <<>> /\ a.tail = i THEN m ELSE ns[i].nextSibling
                             /\ ns2[i].firstChild = IF sc # <<>> /\ a.tail = 0 /\ i = a.parent THEN m ELSE ns[i].firstChild
        /\ ns2[m].parent = IF sc = <<>> THEN 0 ELSE a.parent
        /\ ns2[m].nextSibling = 0
        /\ ns2[m].firstChild = 0
    BY DEF Extends, LinksNode
  <1>3. sc # <<>> => /\ a.parent \in 1 .. n
                     /\ a.tail = 0 <=> Kids(ns, a.parent) = <<>>
                     /\ a.tail # 0 => /\ a.tail = Kids(ns, a.parent)[Len(Kids(ns, a.parent))]
                                      /\ ns[a.tail].parent = a.parent
    BY TailIsLast
  <1>4. o \in 1 .. n => Chain(ns, o, c)
    BY DEF KidsOK
  <1>5. d = IF o = m THEN <<>> ELSE IF sc # <<>> /\ o = a.parent THEN Append(c, m) ELSE c
    BY DEF KidsWith
  <1> HIDE DEF n, m, a, d, c
  <1>6. CASE o = m
    <2>1. d = <<>> /\ Len(d) = 0
      BY <1>5, <1>6
    <2>2. d \in Seq(1 .. Len(ns2))
      BY <2>1
    <2> QED
      BY <1>2, <1>6, <2>1, <2>2 DEF Chain
  <1>7. ASSUME o # m
        PROVE  /\ o \in 1 .. n
               /\ c \in Seq(1 .. n) /\ Len(c) \in Nat
               /\ \A i \in 1 .. Len(c) : c[i] \in 1 .. n
               /\ ns[o].firstChild = IF c = <<>> THEN 0 ELSE c[1]
               /\ \A i \in 1 .. Len(c) : /\ ns[c[i]].parent = o
                                         /\ ns[c[i]].nextSibling = IF i = Len(c) THEN 0 ELSE c[i + 1]
               /\ c \in Seq(1 .. m)
    <2>1. o \in 1 .. n
      BY <1>1, <1>7
    <2>2. c \in Seq(1 .. n)
      BY <1>4, <2>1 DEF Chain, n
    <2>3. c \in Seq(1 .. m)
      <3>1. 1 .. n \subseteq 1 .. m
        BY <1>1
      <3> QED
        BY <2>2, <3>1, SeqMonotonic
    <2>4. Len(c) \in Nat /\ \A i \in 1 .. Len(c) : c[i] \in 1 .. n
      BY <2>2, LenProperties, ElementOfSeq
    <2>5. /\ ns[o].firstChild = IF c = <<>> THEN 0 ELSE c[1]
          /\ \A i \in 1 .. Len(c) : /\ ns[c[i]].parent = o
                                    /\ ns[c[i]].nextSibling = IF i = Len(c) THEN 0 ELSE c[i + 1]
      BY <1>4, <2>1 DEF Chain
    <2> QED
      BY <2>1, <2>2, <2>3, <2>4, <2>5
  <1>8. CASE o # m /\ ~ (sc # <<>> /\ o = a.parent)
    <2>1. d = c
      BY <1>5, <1>8
    <2>2. \A i \in 1 .. Len(c) : ns2[c[i]].parent = o /\ ns2[c[i]].nextSibling = ns[c[i]].nextSibling
      <3> TAKE i \in 1 .. Len(c)
      <3>1. c[i] \in 1 .. n /\ ns[c[i]].parent = o
        BY <1>7, <1>8
      <3>2. ~ (sc # <<>> /\ a.tail = c[i])
        <4>1. 0 \notin 1 .. n
          OBVIOUS
        <4> QED
          BY <1>3, <1>8, <3>1, <4>1
      <3> QED
        BY <1>2, <3>1, <3>2
    <2>3. ns2[o].firstChild = ns[o].firstChild
      BY <1>2, <1>7, <1>8
    <2> QED
      BY <1>1, <1>7, <1>8, <2>1, <2>2, <2>3 DEF Chain
  <1>9. CASE o # m /\ sc # <<>> /\ o = a.parent
    <2> DEFINE k == Len(c)
    <2>1. d = Append(c, m)
      BY <1>5, <1>9
    <2>2. /\ d \in Seq(1 .. m) /\ Len(d) = k + 1 /\ k \in Nat /\ d[k + 1] = m
          /\ \A i \in 1 .. k : d[i] = c[i]
      <3>1. m \in 1 .. m
        BY <1>1
      <3> QED
        BY <1>7, <1>9, <2>1, <3>1, AppendProperties
    <2>3. Kids(ns, a.parent) = c
      BY <1>9 DEF c
    <2>4. c = <<>> <=> k = 0
      <3>1. c \in Seq(1 .. n)
        BY <1>7, <1>9
      <3> QED
        BY <3>1, EmptySeq
    <2> HIDE DEF k
    <2>5. d # <<>> /\ ns2[o].firstChild = d[1]
      <3>1. d # <<>>
        BY <2>2, EmptySeq
      <3>2. CASE k = 0
        <4>1. ns2[o].firstChild = m
          BY <1>2, <1>3, <1>7, <1>9, <2>3, <2>4, <3>2
        <4> QED
          BY <2>2, <3>1, <3>2, <4>1
      <3>3. CASE k # 0
        <4>1. ns2[o].firstChild = ns[o].firstChild
          BY <1>2, <1>3, <1>7, <1>9, <2>3, <2>4, <3>3
        <4>2. 1 \in 1 .. k
          BY <2>2, <3>3
        <4> QED
          BY <1>7, <1>9, <2>2, <2>4, <3>1, <3>3, <4>1, <4>2
      <3> QED
        BY <3>2, <3>3
    <2>6. \A i \in 1 .. k + 1 : /\ ns2[d[i]].parent = o
                                /\ ns2[d[i]].nextSibling = IF i = k + 1 THEN 0 ELSE d[i + 1]
      <3> TAKE i \in 1 .. k + 1
      <3>1. CASE i = k + 1
        BY <1>2, <1>9, <2>2, <3>1
      <3>2. CASE i # k + 1
        <4>1. i \in 1 .. k /\ d[i] = c[i] /\ c[i] \in 1 .. n /\ ns[c[i]].parent = o
          BY <1>7, <1>9, <2>2, <3>2 DEF k
        <4>2. a.tail = c[k] /\ k \in 1 .. k
          <5>1. k # 0 /\ k \in 1 .. k
            BY <2>2, <4>1
          <5> QED
            BY <1>3, <1>9, <2>3, <2>4, <5>1 DEF k
        <4>3. CASE i = k
          <5>1. ns2[c[i]].nextSibling = m
            BY <1>2, <1>9, <4>1, <4>2, <4>3
          <5> QED
            BY <1>2, <2>2, <3>2, <4>1, <4>3, <5>1
        <4>4. CASE i # k
          <5>1. i + 1 \in 1 .. k
            BY <2>2, <4>1, <4>4
          <5>2. c[i + 1] \in 1 .. n /\ d[i + 1] = c[i + 1]
            BY <1>7, <1>9, <2>2, <5>1 DEF k
          <5>3. ns[c[i]].nextSibling = c[i + 1] /\ ns[c[k]].nextSibling = 0
            BY <1>7, <1>9, <4>1, <4>2, <4>4 DEF k
          <5>4. c[i] # c[k]
            <6>1. 0 \notin 1 .. n
              OBVIOUS
            <6> QED
              BY <5>2, <5>3, <6>1
          <5>5. ns2[c[i]].nextSibling = ns[c[i]].nextSibling
            BY <1>2, <4>1, <4>2, <5>4
          <5> QED
            BY <1>2, <3>2, <4>1, <5>2, <5>3, <5>5
        <4> QED
          BY <4>3, <4>4
      <3> QED
        BY <3>1, <3>2
    <2> QED
      BY <1>1, <2>2, <2>5, <2>6 DEF Chain
  <1> QED
    BY <1>6, <1>8, <1>9

(* So the chains and the scopes still fit ...                              *)
LEMMA KidsGrow ==
  ASSUME NEW ns, NEW sc, KidsOK(ns, sc), TreeOK(ns, sc), NEW ns2, NEW t, Extends(ns, sc, ns2, t),
         NEW ty, NEW w, LinksNode(ns, sc, ns2, ty, w)
  PROVE  KidsOK(ns2, Grown(sc, Len(ns) + 1))
  <1> DEFINE n == Len(ns)
             g == Grown(sc, n + 1)
  <1>1. n \in Nat /\ Len(ns2) = n + 1 /\ SiblingsOK(ns2)
    BY SiblingsGrow DEF TreeOK, Extends, KidsOK
  <1>2. \A o \in 1 .. n + 1 : Kids(ns2, o) = KidsWith(ns, sc, o) /\ Chain(ns2, o, Kids(ns2, o))
    BY KidsLinked
  <1>3. /\ Len(g) = Len(sc)
        /\ \A s \in 1 .. Len(sc) : g[s].parent = sc[s].parent
    BY TreeGrows
  <1>4. \A s \in 1 .. Len(sc) : sc[s].parent \in 1 .. n
    <2> TAKE s \in 1 .. Len(sc)
    <2>1. sc[s] \in ScopeOf(n)
      BY DEF TreeOK
    <2> QED
      BY <2>1 DEF ScopeOf
  <1>5. \A s, u \in 1 .. Len(sc) : sc[s].parent = sc[u].parent => s = u
    BY DEF TreeOK
  <1>6. \A s \in 1 .. Len(sc) : g[s] = IF s = Len(sc) THEN Enlarged(sc[Len(sc)], n + 1) ELSE sc[s]
    <2>1. CASE sc = <<>>
      BY <2>1
    <2>2. CASE sc # <<>>
      <3>1. g = [sc EXCEPT ![Len(sc)] = Enlarged(sc[Len(sc)], n + 1)]
        BY <2>2 DEF Grown
      <3>2. DOMAIN sc = 1 .. Len(sc)
        BY DEF TreeOK
      <3> HIDE DEF g
      <3> QED
        BY <3>1, <3>2
    <2> QED
      BY <2>1, <2>2
  <1>7. ASSUME NEW s \in 1 .. Len(sc)
        PROVE  /\ Len(Kids(ns2, g[s].parent)) = g[s].count
               /\ g[s].tail = IF Kids(ns2, g[s].parent) = <<>> THEN 0 ELSE Kids(ns2, g[s].parent)[g[s].count]
    <2> DEFINE p == sc[s].parent
    <2>1. p \in 1 .. n /\ g[s].parent = p /\ p \in 1 .. n + 1 /\ p # n + 1
      BY <1>1, <1>3, <1>4
    <2>2. Kids(ns2, p) = KidsWith(ns, sc, p)
      BY <1>2, <2>1
    <2>3. sc # <<>>
      BY <1>7
    <2>4. CASE s # Len(sc)
      <3>1. Len(sc) \in 1 .. Len(sc)
        <4>1. Len(sc) \in Nat
          BY DEF TreeOK
        <4> QED
          BY <1>7, <4>1
      <3>2. p # sc[Len(sc)].parent
        BY <1>5, <2>4, <3>1
      <3>3. Kids(ns2, p) = Kids(ns, p)
        BY <2>1, <2>2, <3>2 DEF KidsWith
      <3> QED
        BY <1>6, <2>1, <2>4, <3>3 DEF KidsOK
    <2>5. CASE s = Len(sc)
      <3> DEFINE a == sc[Len(sc)]
                 c == Kids(ns, p)
      <3>1. /\ c \in Seq(1 .. n) /\ Len(c) = a.count /\ a.count \in Nat
        BY <2>3, <2>5, TailIsLast
      <3>2. Kids(ns2, p) = Append(c, n + 1)
        BY <2>1, <2>2, <2>3, <2>5 DEF KidsWith
      <3>3. Append(c, n + 1) # <<>> /\ Len(Append(c, n + 1)) = a.count + 1 /\ Append(c, n + 1)[a.count + 1] = n + 1
        <4> DEFINE m == n + 1
        <4>1. c \in Seq(1 .. m) /\ m \in 1 .. m
          <5>1. 1 .. n \subseteq 1 .. m /\ m \in 1 .. m
            BY <1>1
          <5> HIDE DEF c, m
          <5> QED
            BY <3>1, <5>1, SeqMonotonic
        <4> HIDE DEF c, m
        <4>2. Append(c, m) \in Seq(1 .. m) /\ Len(Append(c, m)) = Len(c) + 1 /\ Append(c, m)[Len(c) + 1] = m
          BY <4>1, AppendProperties
        <4>3. Append(c, m) # <<>>
          BY <3>1, <4>2, EmptySeq
        <4> QED
          BY <3>1, <4>2, <4>3 DEF m
      <3>4. g[s].tail = n + 1 /\ g[s].count = a.count + 1
        <4>1. g[s] = Enlarged(a, n + 1)
          BY <1>6, <2>5
        <4>2. a \in ScopeOf(n)
          BY <2>5 DEF TreeOK
        <4> QED
          BY <4>1, <4>2 DEF Enlarged, ScopeOf
      <3> QED
        BY <2>1, <3>2, <3>3, <3>4
    <2> QED
      BY <2>4, <2>5
  <1> HIDE DEF g, n
  <1>8. KidsOK(ns2, g)
    BY <1>1, <1>2, <1>3, <1>7 DEF KidsOK
  <1> QED
    BY <1>8 DEF g, n

(* ... also where the new node gets a scope ...                            *)
LEMMA KidsOpen ==
  ASSUME NEW ns, NEW sc, KidsOK(ns, sc), NEW X, sc \in Seq(X), Kids(ns, Len(ns)) = <<>>, Fresh(Len(ns)) \in X
  PROVE  KidsOK(ns, Append(sc, Fresh(Len(ns))))
  <1> DEFINE f == Fresh(Len(ns))
             d == Append(sc, f)
  <1>1. f.parent = Len(ns) /\ f.tail = 0 /\ f.count = 0
    BY DEF Fresh
  <1>2. Len(d) = Len(sc) + 1 /\ Len(sc) \in Nat /\ d[Len(sc) + 1] = f /\ \A s \in 1 .. Len(sc) : d[s] = sc[s]
    <2> HIDE DEF f
    <2> QED
      BY AppendProperties DEF f
  <1> HIDE DEF d, f
  <1>3. ASSUME NEW s \in 1 .. Len(d)
        PROVE  /\ Len(Kids(ns, d[s].parent)) = d[s].count
               /\ d[s].tail = IF Kids(ns, d[s].parent) = <<>> THEN 0 ELSE Kids(ns, d[s].parent)[d[s].count]
    <2>1. CASE s \in 1 .. Len(sc)
      BY <1>2, <2>1 DEF KidsOK
    <2>2. CASE s = Len(sc) + 1
      BY <1>1, <1>2, <2>2, EmptySeq
    <2> QED
      BY <1>2, <2>1, <2>2
  <1>4. KidsOK(ns, d)
    BY <1>3 DEF KidsOK
  <1> QED
    BY <1>4 DEF d, f

(* ... and where one is closed.                                            *)
LEMMA KidsClose ==
  ASSUME NEW ns, NEW sc, KidsOK(ns, sc), TreeOK(ns, sc), sc # <<>>
  PROVE  KidsOK(ns, Front(sc))
  <1>1. Len(Front(sc)) = Len(sc) - 1 /\ \A s \in 1 .. Len(sc) - 1 : Front(sc)[s] = sc[s]
    BY TreeCloses
  <1>2. Len(sc) \in Nat
    BY DEF TreeOK
  <1>3. \A s \in 1 .. Len(Front(sc)) : s \in 1 .. Len(sc) /\ Front(sc)[s] = sc[s]
    BY <1>1, <1>2
  <1> QED
    BY <1>3 DEF KidsOK

---------------------------------------------------------------------------
(* The set of keys: what a search in it finds.                             *)

(* The entries looked at for a key are all there are.                      *)
LEMMA EntryFacts ==
  ASSUME NEW cap \in Nat \ {0}, NEW key, Hash(key) \in Nat
  PROVE  /\ \A i \in 0 .. cap - 1 : EntryAt(cap, key, i) \in 0 .. cap - 1
         /\ \A e \in 0 .. cap - 1 : \E i \in 0 .. cap - 1 : EntryAt(cap, key, i) = e
  <1> DEFINE h == Home(cap, key)
  <1>1. h \in 0 .. cap - 1
    BY DEF Home
  <1>2. \A i : EntryAt(cap, key, i) = IF h + i < cap THEN h + i ELSE h + i - cap
    BY DEF EntryAt, Probe
  <1> HIDE DEF h
  <1>3. \A i \in 0 .. cap - 1 : EntryAt(cap, key, i) \in 0 .. cap - 1
    BY <1>1, <1>2
  <1>4. ASSUME NEW e \in 0 .. cap - 1 PROVE \E i \in 0 .. cap - 1 : EntryAt(cap, key, i) = e
    <2> DEFINE i == IF h <= e THEN e - h ELSE e - h + cap
    <2>1. i \in 0 .. cap - 1 /\ EntryAt(cap, key, i) = e
      BY <1>1, <1>2
    <2> QED
      BY <2>1
  <1> QED
    BY <1>3, <1>4

\* A table of as many entries as cap with the keys of S, each where a search
\* for it ends.
SetOK(ks, cap, S) ==
  /\ DOMAIN ks = 0 .. cap - 1
  /\ Free \notin S /\ \A key \in S : Hash(key) \in Nat
  /\ \A e \in 0 .. cap - 1 : ks[e] = Free \/ ks[e] \in S
  /\ \A e, f \in 0 .. cap - 1 : ks[e] = ks[f] => e = f \/ ks[e] = Free
  /\ \A key \in S : \E i \in 0 .. cap - 1 : EndsAt(ks, cap, key, i) /\ ks[EntryAt(cap, key, i)] = key

(* There is an unused entry as long as there are fewer keys than entries.  *)
LEMMA RoomForKey ==
  ASSUME NEW cap \in Nat \ {0}, NEW ks, NEW S, SetOK(ks, cap, S), IsFiniteSet(S), Cardinality(S) < cap
  PROVE  \E e \in 0 .. cap - 1 : ks[e] = Free
  <1> SUFFICES ASSUME \A e \in 0 .. cap - 1 : ks[e] # Free PROVE FALSE
    OBVIOUS
  <1> DEFINE E == 0 .. cap - 1
             f == [e \in E |-> ks[e]]
  <1>1. IsFiniteSet(E) /\ Cardinality(E) = cap
    BY FS_Interval
  <1>2. f \in [E -> S]
    BY DEF SetOK
  <1>3. \A x, y \in E : f[x] = f[y] => x = y
    BY DEF SetOK
  <1> HIDE DEF E, f
  <1>4. \E x, y \in E : x # y /\ f[x] = f[y]
    BY <1>1, <1>2, FS_PigeonHole
  <1> QED
    BY <1>3, <1>4

(* A search ends at one entry only.                                        *)
LEMMA OneEnd ==
  ASSUME NEW cap \in Nat \ {0}, NEW ks, NEW key, NEW i \in 0 .. cap - 1, NEW j \in 0 .. cap - 1,
         EndsAt(ks, cap, key, i), EndsAt(ks, cap, key, j)
  PROVE  i = j
  <1>1. ~ (i < j)
    <2> SUFFICES ASSUME i < j PROVE FALSE
      OBVIOUS
    <2>1. i \in 0 .. j - 1
      OBVIOUS
    <2> QED
      BY <2>1 DEF EndsAt
  <1>2. ~ (j < i)
    <2> SUFFICES ASSUME j < i PROVE FALSE
      OBVIOUS
    <2>1. j \in 0 .. i - 1
      OBVIOUS
    <2> QED
      BY <2>1 DEF EndsAt
  <1> QED
    BY <1>1, <1>2

(* And where there is an unused entry it ends.                             *)
LEMMA SearchEnds ==
  ASSUME NEW cap \in Nat \ {0}, NEW ks, NEW key, Hash(key) \in Nat, \E e \in 0 .. cap - 1 : ks[e] = Free
  PROVE  /\ EndOf(ks, cap, key) \in 0 .. cap - 1
         /\ EndsAt(ks, cap, key, EndOf(ks, cap, key))
         /\ EntryAt(cap, key, EndOf(ks, cap, key)) \in 0 .. cap - 1
         /\ ~IsFull(ks, cap, key)
  <1> DEFINE T == {i \in 0 .. cap - 1 : ks[EntryAt(cap, key, i)] \in {Free, key}}
  <1>1. T # {}
    <2>1. PICK e \in 0 .. cap - 1 : ks[e] = Free
      OBVIOUS
    <2>2. PICK i \in 0 .. cap - 1 : EntryAt(cap, key, i) = e
      BY EntryFacts
    <2> QED
      BY <2>1, <2>2
  <1>2. PICK m \in T : \A i \in T : m <= i
    <2>1. T \subseteq Nat
      OBVIOUS
    <2> HIDE DEF T
    <2> QED
      BY <1>1, <2>1, LeastNat
  <1>3. m \in 0 .. cap - 1 /\ ks[EntryAt(cap, key, m)] \in {Free, key}
    OBVIOUS
  <1>4. ASSUME NEW j \in 0 .. m - 1 PROVE ks[EntryAt(cap, key, j)] \notin {Free, key}
    <2>1. j \in 0 .. cap - 1 /\ j \notin T
      BY <1>2, <1>3
    <2> QED
      BY <2>1
  <1>5. EndsAt(ks, cap, key, m)
    BY <1>3, <1>4 DEF EndsAt
  <1>6. EndOf(ks, cap, key) \in 0 .. cap - 1 /\ EndsAt(ks, cap, key, EndOf(ks, cap, key))
    BY <1>3, <1>5 DEF EndOf
  <1>7. ~IsFull(ks, cap, key)
    BY <1>3, <1>5 DEF IsFull
  <1> QED
    BY <1>6, <1>7, EntryFacts

(* set_insert with room: the answer tells whether the key was there, and   *)
(* afterwards it is.                                                       *)
LEMMA KeyInserted ==
  ASSUME NEW cap \in Nat \ {0}, NEW ks, NEW S, SetOK(ks, cap, S), NEW key, Hash(key) \in Nat, key # Free,
         \E e \in 0 .. cap - 1 : ks[e] = Free
  PROVE  /\ Answer(ks, cap, key) = "ALREADY_EXIST" <=> key \in S
         /\ SetOK(TableWith(ks, cap, key), cap, S \cup {key})
  <1> DEFINE m == EndOf(ks, cap, key)
             a == EntryAt(cap, key, m)
             ks2 == [ks EXCEPT ![a] = key]
  <1>1. m \in 0 .. cap - 1 /\ EndsAt(ks, cap, key, m) /\ a \in 0 .. cap - 1 /\ ~IsFull(ks, cap, key)
    BY SearchEnds
  <1>2. Answer(ks, cap, key) = IF ks[a] = key THEN "ALREADY_EXIST" ELSE "IS_UNIQ"
    BY <1>1 DEF Answer
  <1>3. CASE key \in S
    <2>1. PICK i \in 0 .. cap - 1 : EndsAt(ks, cap, key, i) /\ ks[EntryAt(cap, key, i)] = key
      BY <1>3 DEF SetOK
    <2>2. i = m
      BY <1>1, <2>1, OneEnd
    <2>3. Answer(ks, cap, key) = "ALREADY_EXIST"
      BY <1>2, <2>1, <2>2
    <2>4. TableWith(ks, cap, key) = ks /\ S \cup {key} = S
      BY <1>3, <2>3 DEF TableWith
    <2> QED
      BY <1>3, <2>3, <2>4
  <1>4. CASE key \notin S
    <2>1. ks[a] = Free
      <3>1. ks[a] \in {Free, key} /\ (ks[a] = Free \/ ks[a] \in S)
        BY <1>1 DEF EndsAt, SetOK
      <3> QED
        BY <1>4, <3>1
    <2>2. Answer(ks, cap, key) = "IS_UNIQ" /\ Answer(ks, cap, key) # "ALREADY_EXIST"
      BY <1>2, <2>1
    <2>3. TableWith(ks, cap, key) = ks2
      BY <2>2 DEF TableWith
    <2>4. DOMAIN ks2 = 0 .. cap - 1 /\ ks2[a] = key /\ \A e \in 0 .. cap - 1 : e # a => ks2[e] = ks[e]
      BY <1>1 DEF SetOK
    <2> HIDE DEF m, ks2, a
    <2>5. ASSUME NEW k2, Hash(k2) \in Nat, NEW i \in 0 .. cap - 1, EndsAt(ks, cap, k2, i),
                 ks2[EntryAt(cap, k2, i)] = k2
          PROVE  EndsAt(ks2, cap, k2, i)
      <3>1. ASSUME NEW j \in 0 .. i - 1 PROVE ks2[EntryAt(cap, k2, j)] \notin {Free, k2}
        <4>1. ks[EntryAt(cap, k2, j)] \notin {Free, k2}
          BY <2>5 DEF EndsAt
        <4>2. j \in 0 .. cap - 1
          OBVIOUS
        <4>3. EntryAt(cap, k2, j) # a /\ EntryAt(cap, k2, j) \in 0 .. cap - 1
          BY <2>1, <2>5, <4>1, <4>2, EntryFacts
        <4> QED
          BY <2>4, <4>1, <4>3
      <3> QED
        BY <2>5, <3>1 DEF EndsAt
    <2>6. ASSUME NEW k2 \in S \cup {key}
          PROVE  \E i \in 0 .. cap - 1 : EndsAt(ks2, cap, k2, i) /\ ks2[EntryAt(cap, k2, i)] = k2
      <3>1. CASE k2 = key
        BY <1>1, <2>4, <2>5, <3>1 DEF a
      <3>2. CASE k2 # key
        <4>1. k2 \in S /\ k2 # Free /\ Hash(k2) \in Nat
          BY <3>2 DEF SetOK
        <4>2. PICK i \in 0 .. cap - 1 : EndsAt(ks, cap, k2, i) /\ ks[EntryAt(cap, k2, i)] = k2
          BY <4>1 DEF SetOK
        <4>3. EntryAt(cap, k2, i) # a /\ EntryAt(cap, k2, i) \in 0 .. cap - 1
          BY <2>1, <4>1, <4>2, EntryFacts
        <4>4. ks2[EntryAt(cap, k2, i)] = k2
          BY <2>4, <4>2, <4>3
        <4> QED
          BY <2>5, <4>1, <4>2, <4>4
      <3> QED
        BY <3>1, <3>2
    <2>7. \A e \in 0 .. cap - 1 : ks2[e] = Free \/ ks2[e] \in S \cup {key}
      <3>1. \A e \in 0 .. cap - 1 : ks[e] = Free \/ ks[e] \in S
        BY DEF SetOK
      <3> QED
        BY <2>4, <3>1
    <2>8. \A e, f \in 0 .. cap - 1 : ks2[e] = ks2[f] => e = f \/ ks2[e] = Free
      <3>1. \A e \in 0 .. cap - 1 : ks[e] = Free \/ ks[e] \in S
        BY DEF SetOK
      <3>2. \A e \in 0 .. cap - 1 : ks[e] # key
        BY <1>4, <3>1
      <3>3. \A e, f \in 0 .. cap - 1 : ks[e] = ks[f] => e = f \/ ks[e] = Free
        BY DEF SetOK
      <3> QED
        BY <2>4, <3>2, <3>3
    <2>9. Free \notin S \cup {key} /\ \A k \in S \cup {key} : Hash(k) \in Nat
      BY DEF SetOK
    <2>10. SetOK(ks2, cap, S \cup {key})
      BY <2>4, <2>6, <2>7, <2>8, <2>9 DEF SetOK
    <2> QED
      BY <1>4, <2>2, <2>3, <2>10
  <1> QED
    BY <1>3, <1>4

---------------------------------------------------------------------------
(* The search tree of an object, in a pool of nodes it shares with those   *)
(* of the others.                                                          *)

(* The way for a name ends below a node of the tree.                       *)
LEMMA PathInside ==
  ASSUME NEW kt, PoolOK(kt), NEW ns, NEW name, NEW r \in 1 .. Len(kt)
  PROVE  /\ PathEnds(kt, ns, name)[r] \in 1 .. Len(kt)
         /\ kt[PathEnds(kt, ns, name)[r]].key \in ToSet(InOrder(kt)[r])
         /\ Child(kt, ns, PathEnds(kt, ns, name)[r], name) = 0
  <1> DEFINE n == Len(kt)
             w == InOrder(kt)
             p == PathEnds(kt, ns, name)
             In(i) == p[i] \in 1 .. n /\ kt[p[i]].key \in ToSet(w[i]) /\ Child(kt, ns, p[i], name) = 0
             T == {i \in 1 .. n : ~In(i)}
  <1>1. n \in Nat /\ \A i \in 1 .. n : kt[i].left \in Onward(i, n) /\ kt[i].right \in Onward(i, n) /\ kt[i].key \in Nat
    BY DEF PoolOK
  <1>2. /\ \A i \in 0 .. n : w[i] \in Seq(Nat)
        /\ \A i \in 1 .. n : w[i] = w[kt[i].left] \o <<kt[i].key>> \o w[kt[i].right]
    BY InOrderUnfold
  <1>3. \A i \in 1 .. n : p[i] = IF Child(kt, ns, i, name) = 0 THEN i ELSE p[Child(kt, ns, i, name)]
    BY PathEndsUnfold
  <1>4. \A i \in 1 .. n : Child(kt, ns, i, name) \in {kt[i].left, kt[i].right}
    BY DEF Child, Side
  <1> HIDE DEF n, w, p
  <1>5. T = {}
    <2> SUFFICES ASSUME T # {} PROVE FALSE
      OBVIOUS
    <2>1. PICK i \in T : \A k \in T : k <= i
      <3>1. T \subseteq 0 .. n
        OBVIOUS
      <3> HIDE DEF T
      <3> QED
        BY <1>1, <3>1, GreatestNat
    <2>2. i \in 1 .. n /\ ~In(i)
      OBVIOUS
    <2> DEFINE l == kt[i].left
               q == kt[i].right
               K == kt[i].key
               c == Child(kt, ns, i, name)
    <2>3. l \in Onward(i, n) /\ q \in Onward(i, n) /\ K \in Nat /\ c \in {l, q} /\ w[i] = w[l] \o <<K>> \o w[q]
      BY <1>1, <1>2, <1>4, <2>2
    <2>4. p[i] = IF c = 0 THEN i ELSE p[c]
      BY <1>3, <2>2
    <2> HIDE DEF l, q, c, K
    <2>5. l \in 0 .. n /\ q \in 0 .. n
      BY <1>1, <2>2, <2>3 DEF Onward
    <2>6. ToSet(w[i]) = ToSet(w[l]) \cup {K} \cup ToSet(w[q])
      BY <1>2, <2>3, <2>5, AroundElements
    <2>7. CASE c = 0
      BY <2>2, <2>4, <2>6, <2>7 DEF K, c
    <2>8. CASE c # 0
      <3>1. c \in 1 .. n /\ ~ (c <= i)
        BY <1>1, <2>2, <2>3, <2>8 DEF Onward
      <3>2. In(c)
        BY <2>1, <3>1
      <3>3. ToSet(w[c]) \subseteq ToSet(w[i])
        BY <2>3, <2>6
      <3> QED
        BY <2>2, <2>4, <2>8, <3>2, <3>3
    <2> QED
      BY <2>7, <2>8
  <1>6. In(r)
    <2>1. r \in 1 .. n /\ r \notin T
      BY <1>5 DEF n
    <2> QED
      BY <2>1
  <1> QED
    BY <1>6 DEF n, w, p

(* A key goes where the way for its name ends, and so among the keys of    *)
(* the tree where it belongs.                                              *)
LEMMA KeyPlaced ==
  ASSUME NEW kt, NEW kt2, PoolOK(kt), NEW ns, NEW name \in Nat, NEW new \in Nat, NEW r \in 1 .. Len(kt), NEW a,
         a = PathEnds(kt, ns, name)[r],
         PoolGrown(kt, kt2, a, name < NameIn(ns, kt[a].key), new),
         \A k \in ToSet(InOrder(kt)[r]) : NameIn(ns, k) \in Nat,
         Sorted(ns, InOrder(kt)[r])
  PROVE  PutIn(ns, InOrder(kt)[r], InOrder(kt2)[r], new, name)
  <1> DEFINE n == Len(kt)
             m == n + 1
             w == InOrder(kt)
             w2 == InOrder(kt2)
             p == PathEnds(kt, ns, name)
             toLeft == name < NameIn(ns, kt[a].key)
             Hyp(i) == p[i] = a /\ Sorted(ns, w[i]) /\ \A k \in ToSet(w[i]) : NameIn(ns, k) \in Nat
             T == {i \in 1 .. n : Hyp(i) /\ ~PutIn(ns, w[i], w2[i], new, name)}
  <1>0. PoolOK(kt2) /\ w2[m] = <<new>> /\ w2[0] = <<>>
    BY PoolGrows
  <1>1. /\ n \in Nat /\ Len(kt2) = m
        /\ \A i \in 1 .. n : kt[i].left \in Onward(i, n) /\ kt[i].right \in Onward(i, n) /\ kt[i].key \in Nat
    BY DEF PoolOK, PoolGrown
  <1>2. /\ w[0] = <<>> /\ \A i \in 0 .. n : w[i] \in Seq(Nat)
        /\ \A i \in 1 .. n : w[i] = w[kt[i].left] \o <<kt[i].key>> \o w[kt[i].right]
    BY InOrderUnfold
  <1>3. \A i \in 1 .. n : w2[i] = w2[kt2[i].left] \o <<kt2[i].key>> \o w2[kt2[i].right]
    <2>1. \A i \in 1 .. Len(kt2) : w2[i] = w2[kt2[i].left] \o <<kt2[i].key>> \o w2[kt2[i].right]
      BY <1>0, InOrderUnfold
    <2>2. \A i \in 1 .. n : i \in 1 .. Len(kt2)
      BY <1>1
    <2> HIDE DEF w2, n
    <2> QED
      BY <2>1, <2>2
  <1>4. \A i \in 1 .. n : p[i] = IF Child(kt, ns, i, name) = 0 THEN i ELSE p[Child(kt, ns, i, name)]
    BY PathEndsUnfold
  <1>5. \A i \in 1 .. n : Child(kt, ns, i, name) = IF name < NameIn(ns, kt[i].key) THEN kt[i].left ELSE kt[i].right
    BY DEF Child, Side, NameIn
  <1>6. \A i \in 1 .. n : p[i] = a => a \in 1 .. n /\ kt[a].key \in ToSet(w[i])
    BY PathInside
  <1>7. \A i \in 0 .. n : (a \in 1 .. n => kt[a].key \notin ToSet(w[i])) => w2[i] = w[i]
    BY OtherTrees
  <1>8. PutIn(ns, <<>>, <<new>>, new, name)
    <2>1. /\ <<>> \in Seq(Nat) /\ <<>> = <<>> \o <<>> /\ <<new>> = <<>> \o <<new>> \o <<>>
          /\ \A x \in ToSet(<<>>) : FALSE
      BY DEF ToSet
    <2> QED
      BY <2>1 DEF PutIn
  <1>9. \A i \in 1 .. n :
          /\ kt2[i].key = kt[i].key
          /\ kt2[i].left = IF i = a /\ toLeft THEN m ELSE kt[i].left
          /\ kt2[i].right = IF i = a /\ ~toLeft THEN m ELSE kt[i].right
    BY DEF PoolGrown
  <1> HIDE DEF n, w, w2, p, m
  <1>10. T = {}
    <2> SUFFICES ASSUME T # {} PROVE FALSE
      OBVIOUS
    <2>1. PICK i \in T : \A k \in T : k <= i
      <3>1. T \subseteq 0 .. n
        OBVIOUS
      <3> HIDE DEF T
      <3> QED
        BY <1>1, <3>1, GreatestNat
    <2>2. i \in 1 .. n /\ Hyp(i) /\ ~PutIn(ns, w[i], w2[i], new, name)
      OBVIOUS
    <2> DEFINE l == kt[i].left
               q == kt[i].right
               K == kt[i].key
               c == Child(kt, ns, i, name)
               goes == name < NameIn(ns, K)
    <2>3. /\ l \in Onward(i, n) /\ q \in Onward(i, n) /\ K \in Nat
          /\ w[i] = w[l] \o <<K>> \o w[q]
          /\ w2[i] = w2[kt2[i].left] \o <<K>> \o w2[kt2[i].right]
      BY <1>1, <1>2, <1>3, <1>9, <2>2
    <2>4. c = (IF goes THEN l ELSE q) /\ p[i] = IF c = 0 THEN i ELSE p[c]
      BY <1>4, <1>5, <2>2
    <2>5. a \in 1 .. n /\ kt[a].key \in ToSet(w[i])
      BY <1>6, <2>2
    <2>6. /\ kt2[i].left = IF i = a /\ toLeft THEN m ELSE l
          /\ kt2[i].right = IF i = a /\ ~toLeft THEN m ELSE q
      BY <1>9, <2>2
    <2>7. i = a => (toLeft <=> goes)
      OBVIOUS
    <2> HIDE DEF l, q, c, goes, toLeft
    <2>8. l \in 0 .. n /\ q \in 0 .. n
      BY <1>1, <2>2, <2>3 DEF Onward
    <2>9. w[l] \in Seq(Nat) /\ w[q] \in Seq(Nat) /\ ToSet(w[i]) = ToSet(w[l]) \cup {K} \cup ToSet(w[q])
      <3>1. w[l] \in Seq(Nat) /\ w[q] \in Seq(Nat)
        BY <1>2, <2>8
      <3> QED
        BY <2>3, <3>1, AroundElements
    <2>10. /\ Sorted(ns, w[l]) /\ Sorted(ns, w[q])
           /\ Before(ns, ToSet(w[l]), {K}) /\ Before(ns, ToSet(w[l]), ToSet(w[q])) /\ Before(ns, {K}, ToSet(w[q]))
      <3>1. Sorted(ns, w[l] \o <<K>> \o w[q])
        BY <2>2, <2>3
      <3> HIDE DEF K
      <3> QED
        BY <2>3, <2>9, <3>1, AroundKey
    <2>11. Sorted(ns, w[l] \o <<K>> \o w[q]) /\ \A k \in ToSet(w[l] \o <<K>> \o w[q]) : NameIn(ns, k) \in Nat
      BY <2>2, <2>3
    <2>12. c = 0 => i = a
      BY <2>2, <2>4
    <2>13. ASSUME c # 0 PROVE kt[a].key \in ToSet(w[c]) /\ i # a /\ PutIn(ns, w[c], w2[c], new, name)
      <3>1. c \in 1 .. n /\ ~ (c <= i)
        BY <1>1, <2>2, <2>3, <2>4, <2>13 DEF Onward
      <3>2. p[c] = a
        BY <2>2, <2>4, <2>13
      <3>3. kt[a].key \in ToSet(w[c])
        BY <1>6, <3>1, <3>2
      <3>4. i # a
        BY <2>4, <2>10, <3>3 DEF Before, K
      <3>5. Hyp(c)
        BY <2>2, <2>4, <2>9, <2>10, <3>2
      <3> QED
        BY <2>1, <3>1, <3>3, <3>4, <3>5
    <2>14. CASE goes
      <3>1. w2[q] = w[q]
        <4>1. kt[a].key \notin ToSet(w[q])
          <5>1. CASE c = 0
            BY <2>10, <2>12, <5>1 DEF Before, K
          <5>2. CASE c # 0
            BY <2>4, <2>10, <2>13, <2>14, <5>2 DEF Before
          <5> QED
            BY <5>1, <5>2
        <4> QED
          BY <1>7, <2>8, <4>1
      <3>2. kt2[i].right = q
        BY <2>6, <2>7, <2>14
      <3>3. PutIn(ns, w[l], w2[kt2[i].left], new, name)
        <4>1. CASE c = 0
          BY <1>0, <1>2, <1>8, <2>4, <2>6, <2>7, <2>12, <2>14, <4>1
        <4>2. CASE c # 0
          BY <2>4, <2>6, <2>13, <2>14, <4>2
        <4> QED
          BY <4>1, <4>2
      <3> DEFINE x == w2[kt2[i].left]
      <3>4. PutIn(ns, w[l], x, new, name) /\ w2[i] = x \o <<K>> \o w[q] /\ name < NameIn(ns, K)
        BY <2>3, <2>14, <3>1, <3>2, <3>3 DEF goes
      <3> HIDE DEF x, K
      <3>5. PutIn(ns, w[l] \o <<K>> \o w[q], x \o <<K>> \o w[q], new, name)
        BY <2>3, <2>9, <2>11, <3>4, PutBeside
      <3> QED
        BY <2>2, <2>3, <3>4, <3>5
    <2>15. CASE ~goes
      <3>1. w2[l] = w[l]
        <4>1. kt[a].key \notin ToSet(w[l])
          <5>1. CASE c = 0
            BY <2>10, <2>12, <5>1 DEF Before, K
          <5>2. CASE c # 0
            BY <2>4, <2>10, <2>13, <2>15, <5>2 DEF Before
          <5> QED
            BY <5>1, <5>2
        <4> QED
          BY <1>7, <2>8, <4>1
      <3>2. kt2[i].left = l
        BY <2>6, <2>7, <2>15
      <3>3. PutIn(ns, w[q], w2[kt2[i].right], new, name)
        <4>1. CASE c = 0
          BY <1>0, <1>2, <1>8, <2>4, <2>6, <2>7, <2>12, <2>15, <4>1
        <4>2. CASE c # 0
          BY <2>4, <2>6, <2>13, <2>15, <4>2
        <4> QED
          BY <4>1, <4>2
      <3> DEFINE x == w2[kt2[i].right]
      <3>4. PutIn(ns, w[q], x, new, name) /\ w2[i] = w[l] \o <<K>> \o x /\ ~ (name < NameIn(ns, K))
        BY <2>3, <2>15, <3>1, <3>2, <3>3 DEF goes
      <3> HIDE DEF x, K
      <3>5. PutIn(ns, w[l] \o <<K>> \o w[q], w[l] \o <<K>> \o x, new, name)
        BY <2>3, <2>9, <2>11, <3>4, PutBeside
      <3> QED
        BY <2>2, <2>3, <3>4, <3>5
    <2> QED
      BY <2>14, <2>15
  <1>11. r \in 1 .. n /\ Hyp(r) /\ r \notin T
    BY <1>10 DEF n, w, p
  <1>12. PutIn(ns, w[r], w2[r], new, name)
    BY <1>11
  <1> QED
    BY <1>12 DEF w, w2

---------------------------------------------------------------------------
(* What lies on the stack for an object and what for an array, and when    *)
(* the value of a key is due.                                              *)

\* For the contents of objects, and of arrays.
Objectwise == {"MARK_OBJECT_END", "}", "{", "RULE_MEMBERS", "RULE_PAIR", "RULE_NEXT_MEMBER", ":"}
Arraywise  == {"MARK_ARRAY_END", "]", "[", "RULE_ELEMENTS", "RULE_NEXT_ELEMENT"}

\* What may follow a value.
AfterValue == {"RULE_NEXT_MEMBER", "RULE_NEXT_ELEMENT", "eof"}

\* What a value is still expected as.
Unread == {"RULE_VALUE", "RULE_OBJECT", "RULE_ARRAY", "scalar"}

\* What may lie below a symbol.
Lies(below, x) ==
  /\ x \in EndMarks \cup Unread => below \in AfterValue
  /\ x = "string" => below \in AfterValue \cup {":"}
  /\ x = ":" => below = "RULE_VALUE"
  /\ x = "," => below \in {"RULE_MEMBERS", "RULE_ELEMENTS"}
  /\ x = "RULE_PAIR" => below = "RULE_NEXT_MEMBER"
  /\ x \in {"RULE_MEMBERS", "RULE_NEXT_MEMBER"} => below = "}"
  /\ x \in {"RULE_ELEMENTS", "RULE_NEXT_ELEMENT"} => below = "]"
  /\ x \in Closers => below \in EndMarks
  /\ x \in Openers => below \in Closers \cup {"RULE_MEMBERS", "RULE_ELEMENTS"}
  /\ x \in {"RULE_JSON", "eof"} => below = "none"

\* What a symbol is for, the open objects and arrays being S.
Fits(x, S) ==
  /\ x \in Objectwise => S # <<>> /\ Last(S) = "{"
  /\ x \in Arraywise => S # <<>> /\ Last(S) = "["
  /\ x \in {"RULE_JSON", "eof"} => S = <<>>

\* An end mark is there for an object or an array.
Entered(x, S) ==
  IF x = "MARK_OBJECT_END" THEN Append(S, "{") ELSE IF x = "MARK_ARRAY_END" THEN Append(S, "[") ELSE S

\* L[i] are the objects and arrays the lowest i symbols close.
KindLevels(L, c) ==
  /\ L[0] = <<>>
  /\ \A i \in 1 .. Len(c) : /\ L[i] \in Seq(Openers) /\ L[i] = Entered(c[i], L[i - 1])
                            /\ Lies(Below(c, i), c[i]) /\ Fits(c[i], L[i])

\* The stack c is for the open objects and arrays S.
Owned(c, S) == \E L : KindLevels(L, c) /\ S = L[Len(c)]

(* Nothing is open where nothing is expected.                              *)
LEMMA OwnedNone == Owned(<<>>, <<>>) /\ \A S : Owned(<<>>, S) => S = <<>>
  <1> DEFINE L == [i \in 0 .. 0 |-> <<>>]
  <1>1. KindLevels(L, <<>>) /\ <<>> = L[Len(<<>>)]
    BY DEF KindLevels
  <1>2. Owned(<<>>, <<>>)
    BY <1>1 DEF Owned
  <1>3. \A S : Owned(<<>>, S) => S = <<>>
    BY DEF Owned, KindLevels
  <1> QED
    BY <1>2, <1>3

(* One symbol more.                                                        *)
LEMMA OwnedMore ==
  ASSUME NEW c \in Seq(Expectable), NEW S \in Seq(Openers), Owned(c, S), NEW x \in Expectable,
         Lies(Top(c), x), Fits(x, Entered(x, S))
  PROVE  Entered(x, S) \in Seq(Openers) /\ Owned(Append(c, x), Entered(x, S))
  <1> DEFINE d == Append(c, x)
             n == Len(c)
             S2 == Entered(x, S)
  <1>1. /\ d \in Seq(Expectable) /\ n \in Nat /\ Len(d) = n + 1
        /\ \A i \in 1 .. n : d[i] = c[i]
        /\ d[n + 1] = x
    BY AppendFacts
  <1>2. PICK L : KindLevels(L, c) /\ S = L[n]
    BY DEF Owned
  <1>3. Top(c) = IF n = 0 THEN "none" ELSE c[n]
    <2>1. c = <<>> <=> n = 0
      BY EmptySeq
    <2> QED
      BY <2>1 DEF Top
  <1>4. S2 \in Seq(Openers)
    <2>1. \A o \in Openers : Append(S, o) \in Seq(Openers)
      BY AppendFacts
    <2>2. "{" \in Openers /\ "[" \in Openers
      BY Zenon DEF Openers
    <2>3. Append(S, "{") \in Seq(Openers) /\ Append(S, "[") \in Seq(Openers)
      BY <2>1, <2>2, Zenon
    <2> QED
      BY <2>3, Zenon DEF Entered
  <1> HIDE DEF d, n, S2
  <1> DEFINE M == [i \in 0 .. n + 1 |-> IF i = n + 1 THEN S2 ELSE L[i]]
  <1>5. M[n + 1] = S2 /\ \A i \in 0 .. n : M[i] = L[i]
    BY <1>1
  <1>6. M[0] = <<>>
    BY <1>1, <1>2, <1>5 DEF KindLevels
  <1> HIDE DEF M
  <1>7. ASSUME NEW i \in 1 .. Len(d)
        PROVE  M[i] \in Seq(Openers) /\ M[i] = Entered(d[i], M[i - 1]) /\ Lies(Below(d, i), d[i]) /\ Fits(d[i], M[i])
    <2>1. CASE i = n + 1
      <3>0. i - 1 = n /\ n \in 0 .. n
        BY <1>1, <2>1
      <3>1. M[i - 1] = S /\ M[i] = S2 /\ d[i] = x
        BY <1>1, <1>2, <1>5, <2>1, <3>0, Zenon
      <3>2. Below(d, i) = Top(c)
        <4>1. CASE n = 0
          BY <1>3, <2>1, <4>1 DEF Below
        <4>2. CASE n # 0
          <5>1. n \in 1 .. n /\ i # 1 /\ i - 1 = n
            BY <1>1, <2>1, <4>2
          <5> QED
            BY <1>1, <1>3, <4>2, <5>1 DEF Below
        <4> QED
          BY <4>1, <4>2
      <3> QED
        BY <1>4, <3>1, <3>2 DEF S2
    <2>2. CASE i # n + 1
      <3>1. i \in 1 .. n /\ i \in 0 .. n /\ i - 1 \in 0 .. n /\ (i # 1 => i - 1 \in 1 .. n)
        BY <1>1, <2>2
      <3>2. d[i] = c[i] /\ Below(d, i) = Below(c, i) /\ M[i] = L[i] /\ M[i - 1] = L[i - 1]
        BY <1>1, <1>5, <3>1 DEF Below
      <3>3. L[i] \in Seq(Openers) /\ L[i] = Entered(c[i], L[i - 1]) /\ Lies(Below(c, i), c[i]) /\ Fits(c[i], L[i])
        BY <1>2, <3>1 DEF KindLevels, n
      <3> QED
        BY <3>2, <3>3
    <2> QED
      BY <2>1, <2>2
  <1>8. KindLevels(M, d)
    BY <1>6, <1>7 DEF KindLevels
  <1>9. S2 = M[Len(d)]
    BY <1>1, <1>5
  <1> QED
    BY <1>4, <1>8, <1>9 DEF Owned, d, S2

(* One symbol less.                                                        *)
LEMMA OwnedLess ==
  ASSUME NEW c \in Seq(Expectable), c # <<>>, NEW S, Owned(c, S)
  PROVE  /\ S \in Seq(Openers) /\ Lies(Top(Front(c)), Top(c)) /\ Fits(Top(c), S)
         /\ \E R \in Seq(Openers) : Owned(Front(c), R) /\ S = Entered(Top(c), R)
  <1> DEFINE f == Front(c)
             n == Len(c)
  <1>1. /\ f \in Seq(Expectable) /\ n \in Nat \ {0} /\ Len(f) = n - 1
        /\ \A i \in 1 .. n - 1 : f[i] = c[i]
        /\ Top(c) = c[n]
    BY FrontFacts
  <1>2. PICK L : KindLevels(L, c) /\ S = L[n]
    BY DEF Owned
  <1>3. /\ L[0] = <<>>
        /\ \A i \in 1 .. n : /\ L[i] \in Seq(Openers) /\ L[i] = Entered(c[i], L[i - 1])
                             /\ Lies(Below(c, i), c[i]) /\ Fits(c[i], L[i])
    BY <1>2 DEF KindLevels
  <1>4. Top(f) = Below(c, n)
    <2>1. CASE n = 1
      <3>1. f = <<>>
        BY <1>1, <2>1, EmptySeq
      <3> QED
        BY <2>1, <3>1 DEF Top, Below
    <2>2. CASE n # 1
      <3>1. n - 1 \in 1 .. n - 1 /\ Len(f) = n - 1 /\ Len(f) # 0
        BY <1>1, <2>2
      <3>2. f # <<>>
        BY <3>1
      <3> HIDE DEF f, n
      <3> QED
        BY <1>1, <2>2, <3>1, <3>2 DEF Top, Below
    <2> QED
      BY <2>1, <2>2
  <1> HIDE DEF f, n
  <1>5. KindLevels(L, f)
    <2>1. ASSUME NEW i \in 1 .. Len(f)
          PROVE  L[i] \in Seq(Openers) /\ L[i] = Entered(f[i], L[i - 1]) /\ Lies(Below(f, i), f[i]) /\ Fits(f[i], L[i])
      <3>1. i \in 1 .. n - 1 /\ i \in 1 .. n /\ (i # 1 => i - 1 \in 1 .. n - 1)
        BY <1>1
      <3>2. f[i] = c[i] /\ Below(f, i) = Below(c, i)
        BY <1>1, <3>1 DEF Below
      <3> QED
        BY <1>3, <3>1, <3>2
    <2> QED
      BY <1>3, <2>1 DEF KindLevels
  <1>6. Owned(f, L[n - 1])
    BY <1>1, <1>5 DEF Owned
  <1>7. L[n - 1] \in Seq(Openers)
    <2>1. CASE n = 1
      <3>1. L[n - 1] = <<>>
        BY <1>3, <2>1
      <3> QED
        BY <3>1
    <2>2. CASE n # 1
      <3>1. n - 1 \in 1 .. n
        BY <1>1, <2>2
      <3> QED
        BY <1>3, <3>1
    <2> QED
      BY <2>1, <2>2
  <1>8. S \in Seq(Openers) /\ S = Entered(Top(c), L[n - 1]) /\ Lies(Top(f), Top(c)) /\ Fits(Top(c), S)
    <2>1. n \in 1 .. n
      BY <1>1
    <2> QED
      BY <1>1, <1>2, <1>3, <1>4, <2>1
  <1> QED
    BY <1>6, <1>7, <1>8 DEF f

\* Whether x, above below, stands for the value of a key or an item.
DueAt(below, x) == x \in {":"} \cup Unread \/ (x = "string" /\ below # ":")

\* With c on the stack the next node is the value of a key, or an item.
Due(c) == c # <<>> /\ DueAt(Top(Front(c)), Top(c))

\* What only takes itself off the stack.
Popped == Symbols \cup EndMarks \cup {"RULE_NEXT_MEMBER", "RULE_NEXT_ELEMENT"}

(* A stack with one symbol more, and whether a value is due with it.       *)
LEMMA DueMore ==
  ASSUME NEW c \in Seq(Expectable), NEW x \in Expectable
  PROVE  Due(Append(c, x)) <=> DueAt(Top(c), x)
  <1>1. Front(Append(c, x)) = c /\ Append(c, x) # <<>> /\ Top(Append(c, x)) = x
    <2>1. /\ Append(c, x) \in Seq(Expectable) /\ Len(c) \in Nat /\ Len(Append(c, x)) = Len(c) + 1
          /\ \A i \in 1 .. Len(c) : Append(c, x)[i] = c[i]
          /\ Append(c, x)[Len(c) + 1] = x /\ Top(Append(c, x)) = x
      BY AppendFacts
    <2>2. Append(c, x) # <<>>
      BY <2>1, EmptySeq
    <2>3. /\ Front(Append(c, x)) \in Seq(Expectable) /\ Len(Front(Append(c, x))) = Len(c)
          /\ \A i \in 1 .. Len(c) : Front(Append(c, x))[i] = Append(c, x)[i]
      <3>1. /\ Front(Append(c, x)) \in Seq(Expectable) /\ Len(Front(Append(c, x))) = Len(Append(c, x)) - 1
            /\ \A i \in 1 .. Len(Append(c, x)) - 1 : Front(Append(c, x))[i] = Append(c, x)[i]
        BY <2>1, <2>2, FrontFacts
      <3>2. Len(Append(c, x)) - 1 = Len(c)
        BY <2>1
      <3> QED
        BY <3>1, <3>2, Zenon
    <2>4. Front(Append(c, x)) = c
      BY <2>1, <2>3, SeqEqual
    <2> QED
      BY <2>1, <2>2, <2>4
  <1> QED
    BY <1>1 DEF Due

(* What lies below a symbol that is only taken off.                        *)
LEMMA BelowPopped ==
  ASSUME NEW b, NEW x \in Popped, Lies(b, x)
  PROVE  /\ b # "string"
         /\ b \in {":"} \cup Unread <=> x = ":" \/ (x = "string" /\ b = ":")
  <1>1. CASE x = ":"
    BY <1>1, Zenon DEF Lies, Unread
  <1>2. CASE x = "string"
    BY <1>2, Zenon DEF Lies, Unread, AfterValue
  <1>3. CASE x \in EndMarks
    BY <1>3, Zenon DEF Lies, Unread, AfterValue, EndMarks
  <1>4. CASE x = "scalar"
    BY <1>4, Zenon DEF Lies, Unread, AfterValue
  <1>5. CASE x \in Closers
    BY <1>5, Zenon DEF Lies, Unread, Closers, EndMarks
  <1>6. CASE x \in Openers
    BY <1>6, Zenon DEF Lies, Unread, Closers, Openers
  <1>7. CASE x = "eof"
    BY <1>7, Zenon DEF Lies, Unread
  <1>8. CASE x = ","
    BY <1>8, Zenon DEF Lies, Unread
  <1>9. CASE x \in {"RULE_NEXT_MEMBER", "RULE_NEXT_ELEMENT"}
    BY <1>9, Zenon DEF Lies, Unread
  <1> QED
    BY <1>1, <1>2, <1>3, <1>4, <1>5, <1>6, <1>7, <1>8, <1>9, Zenon DEF Popped, Symbols, Punctuation, Closers, Openers

(* Taking a symbol off: after a key its value is due, after a value none.  *)
LEMMA DuePop ==
  ASSUME NEW c \in Seq(Expectable), c # <<>>, NEW S, Owned(c, S), Top(c) \in Popped
  PROVE  Due(Front(c)) <=> Top(c) = ":" \/ (Top(c) = "string" /\ ~ Due(c))
  <1> DEFINE f == Front(c)
  <1>1. Lies(Top(f), Top(c))
    BY OwnedLess
  <1>2. /\ Top(f) # "string"
        /\ Top(f) \in {":"} \cup Unread <=> Top(c) = ":" \/ (Top(c) = "string" /\ Top(f) = ":")
    BY <1>1, BelowPopped
  <1>3. f = <<>> => Top(f) = "none"
    BY DEF Top
  <1>4. Due(f) <=> Top(f) \in {":"} \cup Unread
    BY <1>2, <1>3, Zenon DEF Due, DueAt, Unread
  <1>5. Top(c) = "string" => (Due(c) <=> Top(f) # ":")
    BY Zenon DEF Due, DueAt, Unread
  <1> QED
    BY <1>2, <1>4, <1>5, Zenon

(* What is not an end mark belongs to the same objects and arrays as what  *)
(* it lies on.                                                             *)
LEMMA OwnedPop ==
  ASSUME NEW c \in Seq(Expectable), c # <<>>, NEW S, Owned(c, S), Top(c) \notin EndMarks
  PROVE  Front(c) \in Seq(Expectable) /\ S \in Seq(Openers) /\ Owned(Front(c), S)
  <1>1. PICK R \in Seq(Openers) : Owned(Front(c), R) /\ S = Entered(Top(c), R)
    BY OwnedLess
  <1>2. S = R
    BY <1>1, Zenon DEF Entered, EndMarks
  <1> QED
    BY <1>1, <1>2, FrontFacts

---------------------------------------------------------------------------
(* Replacing a rule.                                                       *)

\* The stack d serves what c did.
Serves(c, d, S) ==
  /\ d \in Seq(Expectable)
  /\ Owned(d, S)
  /\ S # <<>> /\ Last(S) = "{" => (Due(d) <=> Due(c))

(* A symbol more where the rule was.                                       *)
LEMMA OneMore ==
  ASSUME NEW f \in Seq(Expectable), NEW S \in Seq(Openers), Owned(f, S), NEW x \in Expectable \ EndMarks,
         Lies(Top(f), x), Fits(x, S)
  PROVE  /\ Append(f, x) \in Seq(Expectable) /\ Owned(Append(f, x), S)
         /\ Top(Append(f, x)) = x /\ (Due(Append(f, x)) <=> DueAt(Top(f), x))
  <1>1. Entered(x, S) = S
    BY Zenon DEF Entered, EndMarks
  <1> QED
    BY <1>1, OwnedMore, DueMore, AppendFacts

(* A list that ends is no more on the stack.                               *)
LEMMA ServesNothing ==
  ASSUME NEW c \in Seq(Expectable), c # <<>>, NEW S, Owned(c, S), Top(c) \in {"RULE_NEXT_MEMBER", "RULE_NEXT_ELEMENT"}
  PROVE  Serves(c, Front(c), S)
  <1>1. Front(c) \in Seq(Expectable) /\ Owned(Front(c), S)
    BY OwnedPop, Zenon DEF EndMarks
  <1>2. ~ Due(Front(c))
    BY DuePop, Zenon DEF Popped
  <1>3. ~ Due(c)
    BY Zenon DEF Due, DueAt, Unread
  <1> QED
    BY <1>1, <1>2, <1>3 DEF Serves

(* What is known of a rule on top of a stack.                              *)
LEMMA RuleOnTop ==
  ASSUME NEW c \in Seq(Expectable), c # <<>>, NEW S, Owned(c, S), Top(c) \in Rules
  PROVE  /\ Front(c) \in Seq(Expectable) /\ S \in Seq(Openers) /\ Owned(Front(c), S)
         /\ Lies(Top(Front(c)), Top(c)) /\ Fits(Top(c), S)
         /\ Due(c) <=> Top(c) \in Unread
  <1>1. Top(c) \notin EndMarks
    BY Zenon DEF Rules, EndMarks
  <1>2. Due(c) <=> Top(c) \in Unread
    BY Zenon DEF Due, DueAt, Unread, Rules
  <1> QED
    BY <1>1, <1>2, OwnedPop, OwnedLess

\* A symbol that may be put on one that serves the same objects.
Laid(below, x, S) == x \in Expectable \ EndMarks /\ Lies(below, x) /\ Fits(x, S)

\* A rule c has on top may be due as x on top of below is.
AsDue(c, S, below, x) == S # <<>> /\ Last(S) = "{" => (DueAt(below, x) <=> Due(c))

(* One symbol for a rule ...                                               *)
LEMMA ServesOne ==
  ASSUME NEW c \in Seq(Expectable), c # <<>>, NEW S, Owned(c, S), Top(c) \in Rules, NEW x,
         Laid(Top(Front(c)), x, S), AsDue(c, S, Top(Front(c)), x)
  PROVE  Serves(c, Front(c) \o <<x>>, S)
  <1> DEFINE f == Front(c)
  <1>1. f \in Seq(Expectable) /\ S \in Seq(Openers) /\ Owned(f, S)
    BY RuleOnTop
  <1>2. x \in Expectable \ EndMarks /\ Lies(Top(f), x) /\ Fits(x, S)
    BY DEF Laid
  <1> HIDE DEF f
  <1>3. /\ Append(f, x) \in Seq(Expectable) /\ Owned(Append(f, x), S)
        /\ Top(Append(f, x)) = x /\ (Due(Append(f, x)) <=> DueAt(Top(f), x))
    BY <1>1, <1>2, OneMore
  <1>4. f \o <<x>> = Append(f, x)
    <2>1. x \in Expectable
      BY <1>2
    <2> QED
      BY <1>1, <2>1, Pushes
  <1> QED
    BY <1>3, <1>4, Zenon DEF Serves, AsDue, f

(* ... two ...                                                             *)
LEMMA ServesTwo ==
  ASSUME NEW c \in Seq(Expectable), c # <<>>, NEW S, Owned(c, S), Top(c) \in Rules, NEW x, NEW y,
         Laid(Top(Front(c)), x, S), Laid(x, y, S), AsDue(c, S, x, y)
  PROVE  Serves(c, Front(c) \o <<x, y>>, S)
  <1> DEFINE f == Front(c)
             g == Append(f, x)
             h == Append(g, y)
  <1>1. f \in Seq(Expectable) /\ S \in Seq(Openers) /\ Owned(f, S)
    BY RuleOnTop
  <1>2. x \in Expectable \ EndMarks /\ Lies(Top(f), x) /\ Fits(x, S)
    BY DEF Laid
  <1> HIDE DEF f
  <1>3. g \in Seq(Expectable) /\ Owned(g, S) /\ Top(g) = x
    BY <1>1, <1>2, OneMore
  <1>4. y \in Expectable \ EndMarks /\ Lies(x, y) /\ Fits(y, S)
    BY DEF Laid
  <1> HIDE DEF g
  <1>5. h \in Seq(Expectable) /\ Owned(h, S) /\ (Due(h) <=> DueAt(x, y))
    BY <1>1, <1>3, <1>4, OneMore
  <1>6. f \o <<x, y>> = h
    <2>1. x \in Expectable /\ y \in Expectable
      BY <1>2, <1>4
    <2> QED
      BY <1>1, <2>1, Pushes DEF g
  <1> QED
    BY <1>5, <1>6, Zenon DEF Serves, AsDue, f

(* ... or three.                                                           *)
LEMMA ServesThree ==
  ASSUME NEW c \in Seq(Expectable), c # <<>>, NEW S, Owned(c, S), Top(c) \in Rules, NEW x, NEW y, NEW z,
         Laid(Top(Front(c)), x, S), Laid(x, y, S), Laid(y, z, S), AsDue(c, S, y, z)
  PROVE  Serves(c, Front(c) \o <<x, y, z>>, S)
  <1> DEFINE f == Front(c)
             g == Append(f, x)
             h == Append(g, y)
             k == Append(h, z)
  <1>1. f \in Seq(Expectable) /\ S \in Seq(Openers) /\ Owned(f, S)
    BY RuleOnTop
  <1>2. x \in Expectable \ EndMarks /\ Lies(Top(f), x) /\ Fits(x, S)
    BY DEF Laid
  <1> HIDE DEF f
  <1>3. g \in Seq(Expectable) /\ Owned(g, S) /\ Top(g) = x
    BY <1>1, <1>2, OneMore
  <1>4. y \in Expectable \ EndMarks /\ Lies(x, y) /\ Fits(y, S)
    BY DEF Laid
  <1> HIDE DEF g
  <1>5. h \in Seq(Expectable) /\ Owned(h, S) /\ Top(h) = y
    BY <1>1, <1>3, <1>4, OneMore
  <1>6. z \in Expectable \ EndMarks /\ Lies(y, z) /\ Fits(z, S)
    BY DEF Laid
  <1> HIDE DEF h
  <1>7. k \in Seq(Expectable) /\ Owned(k, S) /\ (Due(k) <=> DueAt(y, z))
    BY <1>1, <1>5, <1>6, OneMore
  <1>8. f \o <<x, y, z>> = k
    <2>1. x \in Expectable /\ y \in Expectable /\ z \in Expectable
      BY <1>2, <1>4, <1>6
    <2> QED
      BY <1>1, <2>1, Pushes DEF g, h
  <1> QED
    BY <1>7, <1>8, Zenon DEF Serves, AsDue, f

(* What a rule is replaced by is in place, and as due as the rule was.     *)
(* The whole text ...                                                      *)
LEMMA ServesJson ==
  ASSUME NEW c \in Seq(Expectable), c # <<>>, NEW S, Owned(c, S), Top(c) = "RULE_JSON"
  PROVE  Serves(c, Front(c) \o <<"eof", "RULE_VALUE">>, S)
  <1>1. /\ Lies(Top(Front(c)), "RULE_JSON") /\ Fits("RULE_JSON", S)
        /\ Due(c) <=> "RULE_JSON" \in Unread
    BY RuleOnTop, Zenon DEF Rules
  <1>2. Laid(Top(Front(c)), "eof", S)
    <2>1. "eof" \in Expectable \ EndMarks
      BY Zenon DEF Expectable, Symbols, Punctuation, Rules, EndMarks
    <2>2. Lies(Top(Front(c)), "eof")
      BY <1>1, Zenon DEF Lies, AfterValue, EndMarks, Unread, Closers, Openers
    <2>3. Fits("eof", S)
      BY <1>1, Zenon DEF Fits, Objectwise, Arraywise
    <2> QED
      BY <2>1, <2>2, <2>3, Zenon DEF Laid
  <1>3. Laid("eof", "RULE_VALUE", S)
    <2>1. "RULE_VALUE" \in Expectable \ EndMarks
      BY Zenon DEF Expectable, Symbols, Punctuation, Rules, EndMarks
    <2>2. Lies("eof", "RULE_VALUE")
      BY Zenon DEF Lies, AfterValue, EndMarks, Unread, Closers, Openers
    <2>3. Fits("RULE_VALUE", S)
      BY <1>1, Zenon DEF Fits, Objectwise, Arraywise
    <2> QED
      BY <2>1, <2>2, <2>3, Zenon DEF Laid
  <1>4. AsDue(c, S, "eof", "RULE_VALUE")
    BY <1>1, Zenon DEF AsDue, DueAt, Unread, Fits, Lies, Objectwise, Arraywise, AfterValue, EndMarks
  <1> QED
    BY <1>2, <1>3, <1>4, ServesTwo, Zenon DEF Rules

(* ... a value ...                                                         *)
LEMMA ServesValue ==
  ASSUME NEW c \in Seq(Expectable), c # <<>>, NEW S, Owned(c, S), Top(c) = "RULE_VALUE",
         NEW t \in {"RULE_OBJECT", "RULE_ARRAY", "string", "scalar"}
  PROVE  Serves(c, Front(c) \o <<t>>, S)
  <1>1. /\ Lies(Top(Front(c)), "RULE_VALUE") /\ Fits("RULE_VALUE", S)
        /\ Due(c) <=> "RULE_VALUE" \in Unread
    BY RuleOnTop, Zenon DEF Rules
  <1>2. Laid(Top(Front(c)), t, S)
    <2>1. t \in Expectable \ EndMarks
      BY Zenon DEF Expectable, Symbols, Punctuation, Rules, EndMarks
    <2>2. Lies(Top(Front(c)), t)
      BY <1>1, Zenon DEF Lies, AfterValue, EndMarks, Unread, Closers, Openers
    <2>3. Fits(t, S)
      BY <1>1, Zenon DEF Fits, Objectwise, Arraywise
    <2> QED
      BY <2>1, <2>2, <2>3, Zenon DEF Laid
  <1>3. AsDue(c, S, Top(Front(c)), t)
    BY <1>1, Zenon DEF AsDue, DueAt, Unread, Fits, Lies, Objectwise, Arraywise, AfterValue, EndMarks
  <1> QED
    BY <1>2, <1>3, ServesOne, Zenon DEF Rules

(* ... the members of an object ...                                        *)
LEMMA ServesMembers ==
  ASSUME NEW c \in Seq(Expectable), c # <<>>, NEW S, Owned(c, S), Top(c) = "RULE_MEMBERS"
  PROVE  Serves(c, Front(c) \o <<"RULE_NEXT_MEMBER", "RULE_PAIR">>, S)
  <1>1. /\ Lies(Top(Front(c)), "RULE_MEMBERS") /\ Fits("RULE_MEMBERS", S)
        /\ Due(c) <=> "RULE_MEMBERS" \in Unread
    BY RuleOnTop, Zenon DEF Rules
  <1>2. Laid(Top(Front(c)), "RULE_NEXT_MEMBER", S)
    <2>1. "RULE_NEXT_MEMBER" \in Expectable \ EndMarks
      BY Zenon DEF Expectable, Symbols, Punctuation, Rules, EndMarks
    <2>2. Lies(Top(Front(c)), "RULE_NEXT_MEMBER")
      BY <1>1, Zenon DEF Lies, AfterValue, EndMarks, Unread, Closers, Openers
    <2>3. Fits("RULE_NEXT_MEMBER", S)
      BY <1>1, Zenon DEF Fits, Objectwise, Arraywise
    <2> QED
      BY <2>1, <2>2, <2>3, Zenon DEF Laid
  <1>3. Laid("RULE_NEXT_MEMBER", "RULE_PAIR", S)
    <2>1. "RULE_PAIR" \in Expectable \ EndMarks
      BY Zenon DEF Expectable, Symbols, Punctuation, Rules, EndMarks
    <2>2. Lies("RULE_NEXT_MEMBER", "RULE_PAIR")
      BY Zenon DEF Lies, AfterValue, EndMarks, Unread, Closers, Openers
    <2>3. Fits("RULE_PAIR", S)
      BY <1>1, Zenon DEF Fits, Objectwise, Arraywise
    <2> QED
      BY <2>1, <2>2, <2>3, Zenon DEF Laid
  <1>4. AsDue(c, S, "RULE_NEXT_MEMBER", "RULE_PAIR")
    BY <1>1, Zenon DEF AsDue, DueAt, Unread, Fits, Lies, Objectwise, Arraywise, AfterValue, EndMarks
  <1> QED
    BY <1>2, <1>3, <1>4, ServesTwo, Zenon DEF Rules

(* ... one of them ...                                                     *)
LEMMA ServesPair ==
  ASSUME NEW c \in Seq(Expectable), c # <<>>, NEW S, Owned(c, S), Top(c) = "RULE_PAIR"
  PROVE  Serves(c, Front(c) \o <<"RULE_VALUE", ":", "string">>, S)
  <1>1. /\ Lies(Top(Front(c)), "RULE_PAIR") /\ Fits("RULE_PAIR", S)
        /\ Due(c) <=> "RULE_PAIR" \in Unread
    BY RuleOnTop, Zenon DEF Rules
  <1>2. Laid(Top(Front(c)), "RULE_VALUE", S)
    <2>1. "RULE_VALUE" \in Expectable \ EndMarks
      BY Zenon DEF Expectable, Symbols, Punctuation, Rules, EndMarks
    <2>2. Lies(Top(Front(c)), "RULE_VALUE")
      BY <1>1, Zenon DEF Lies, AfterValue, EndMarks, Unread, Closers, Openers
    <2>3. Fits("RULE_VALUE", S)
      BY <1>1, Zenon DEF Fits, Objectwise, Arraywise
    <2> QED
      BY <2>1, <2>2, <2>3, Zenon DEF Laid
  <1>3. Laid("RULE_VALUE", ":", S)
    <2>1. ":" \in Expectable \ EndMarks
      BY Zenon DEF Expectable, Symbols, Punctuation, Rules, EndMarks
    <2>2. Lies("RULE_VALUE", ":")
      BY Zenon DEF Lies, AfterValue, EndMarks, Unread, Closers, Openers
    <2>3. Fits(":", S)
      BY <1>1, Zenon DEF Fits, Objectwise, Arraywise
    <2> QED
      BY <2>1, <2>2, <2>3, Zenon DEF Laid
  <1>4. Laid(":", "string", S)
    <2>1. "string" \in Expectable \ EndMarks
      BY Zenon DEF Expectable, Symbols, Punctuation, Rules, EndMarks
    <2>2. Lies(":", "string")
      BY Zenon DEF Lies, AfterValue, EndMarks, Unread, Closers, Openers
    <2>3. Fits("string", S)
      BY <1>1, Zenon DEF Fits, Objectwise, Arraywise
    <2> QED
      BY <2>1, <2>2, <2>3, Zenon DEF Laid
  <1>5. AsDue(c, S, ":", "string")
    BY <1>1, Zenon DEF AsDue, DueAt, Unread, Fits, Lies, Objectwise, Arraywise, AfterValue, EndMarks
  <1> QED
    BY <1>2, <1>3, <1>4, <1>5, ServesThree, Zenon DEF Rules

(* ... the elements of an array ...                                        *)
LEMMA ServesElements ==
  ASSUME NEW c \in Seq(Expectable), c # <<>>, NEW S, Owned(c, S), Top(c) = "RULE_ELEMENTS"
  PROVE  Serves(c, Front(c) \o <<"RULE_NEXT_ELEMENT", "RULE_VALUE">>, S)
  <1>1. /\ Lies(Top(Front(c)), "RULE_ELEMENTS") /\ Fits("RULE_ELEMENTS", S)
        /\ Due(c) <=> "RULE_ELEMENTS" \in Unread
    BY RuleOnTop, Zenon DEF Rules
  <1>2. Laid(Top(Front(c)), "RULE_NEXT_ELEMENT", S)
    <2>1. "RULE_NEXT_ELEMENT" \in Expectable \ EndMarks
      BY Zenon DEF Expectable, Symbols, Punctuation, Rules, EndMarks
    <2>2. Lies(Top(Front(c)), "RULE_NEXT_ELEMENT")
      BY <1>1, Zenon DEF Lies, AfterValue, EndMarks, Unread, Closers, Openers
    <2>3. Fits("RULE_NEXT_ELEMENT", S)
      BY <1>1, Zenon DEF Fits, Objectwise, Arraywise
    <2> QED
      BY <2>1, <2>2, <2>3, Zenon DEF Laid
  <1>3. Laid("RULE_NEXT_ELEMENT", "RULE_VALUE", S)
    <2>1. "RULE_VALUE" \in Expectable \ EndMarks
      BY Zenon DEF Expectable, Symbols, Punctuation, Rules, EndMarks
    <2>2. Lies("RULE_NEXT_ELEMENT", "RULE_VALUE")
      BY Zenon DEF Lies, AfterValue, EndMarks, Unread, Closers, Openers
    <2>3. Fits("RULE_VALUE", S)
      BY <1>1, Zenon DEF Fits, Objectwise, Arraywise
    <2> QED
      BY <2>1, <2>2, <2>3, Zenon DEF Laid
  <1>4. AsDue(c, S, "RULE_NEXT_ELEMENT", "RULE_VALUE")
    BY <1>1, Zenon DEF AsDue, DueAt, Unread, Fits, Lies, Objectwise, Arraywise, AfterValue, EndMarks
  <1> QED
    BY <1>2, <1>3, <1>4, ServesTwo, Zenon DEF Rules

(* ... those after a member ...                                            *)
LEMMA ServesNextMember ==
  ASSUME NEW c \in Seq(Expectable), c # <<>>, NEW S, Owned(c, S), Top(c) = "RULE_NEXT_MEMBER"
  PROVE  Serves(c, Front(c) \o <<"RULE_MEMBERS", ",">>, S)
  <1>1. /\ Lies(Top(Front(c)), "RULE_NEXT_MEMBER") /\ Fits("RULE_NEXT_MEMBER", S)
        /\ Due(c) <=> "RULE_NEXT_MEMBER" \in Unread
    BY RuleOnTop, Zenon DEF Rules
  <1>2. Laid(Top(Front(c)), "RULE_MEMBERS", S)
    <2>1. "RULE_MEMBERS" \in Expectable \ EndMarks
      BY Zenon DEF Expectable, Symbols, Punctuation, Rules, EndMarks
    <2>2. Lies(Top(Front(c)), "RULE_MEMBERS")
      BY <1>1, Zenon DEF Lies, AfterValue, EndMarks, Unread, Closers, Openers
    <2>3. Fits("RULE_MEMBERS", S)
      BY <1>1, Zenon DEF Fits, Objectwise, Arraywise
    <2> QED
      BY <2>1, <2>2, <2>3, Zenon DEF Laid
  <1>3. Laid("RULE_MEMBERS", ",", S)
    <2>1. "," \in Expectable \ EndMarks
      BY Zenon DEF Expectable, Symbols, Punctuation, Rules, EndMarks
    <2>2. Lies("RULE_MEMBERS", ",")
      BY Zenon DEF Lies, AfterValue, EndMarks, Unread, Closers, Openers
    <2>3. Fits(",", S)
      BY <1>1, Zenon DEF Fits, Objectwise, Arraywise
    <2> QED
      BY <2>1, <2>2, <2>3, Zenon DEF Laid
  <1>4. AsDue(c, S, "RULE_MEMBERS", ",")
    BY <1>1, Zenon DEF AsDue, DueAt, Unread, Fits, Lies, Objectwise, Arraywise, AfterValue, EndMarks
  <1> QED
    BY <1>2, <1>3, <1>4, ServesTwo, Zenon DEF Rules

(* ... and those after an element.                                         *)
LEMMA ServesNextElement ==
  ASSUME NEW c \in Seq(Expectable), c # <<>>, NEW S, Owned(c, S), Top(c) = "RULE_NEXT_ELEMENT"
  PROVE  Serves(c, Front(c) \o <<"RULE_ELEMENTS", ",">>, S)
  <1>1. /\ Lies(Top(Front(c)), "RULE_NEXT_ELEMENT") /\ Fits("RULE_NEXT_ELEMENT", S)
        /\ Due(c) <=> "RULE_NEXT_ELEMENT" \in Unread
    BY RuleOnTop, Zenon DEF Rules
  <1>2. Laid(Top(Front(c)), "RULE_ELEMENTS", S)
    <2>1. "RULE_ELEMENTS" \in Expectable \ EndMarks
      BY Zenon DEF Expectable, Symbols, Punctuation, Rules, EndMarks
    <2>2. Lies(Top(Front(c)), "RULE_ELEMENTS")
      BY <1>1, Zenon DEF Lies, AfterValue, EndMarks, Unread, Closers, Openers
    <2>3. Fits("RULE_ELEMENTS", S)
      BY <1>1, Zenon DEF Fits, Objectwise, Arraywise
    <2> QED
      BY <2>1, <2>2, <2>3, Zenon DEF Laid
  <1>3. Laid("RULE_ELEMENTS", ",", S)
    <2>1. "," \in Expectable \ EndMarks
      BY Zenon DEF Expectable, Symbols, Punctuation, Rules, EndMarks
    <2>2. Lies("RULE_ELEMENTS", ",")
      BY Zenon DEF Lies, AfterValue, EndMarks, Unread, Closers, Openers
    <2>3. Fits(",", S)
      BY <1>1, Zenon DEF Fits, Objectwise, Arraywise
    <2> QED
      BY <2>1, <2>2, <2>3, Zenon DEF Laid
  <1>4. AsDue(c, S, "RULE_ELEMENTS", ",")
    BY <1>1, Zenon DEF AsDue, DueAt, Unread, Fits, Lies, Objectwise, Arraywise, AfterValue, EndMarks
  <1> QED
    BY <1>2, <1>3, <1>4, ServesTwo, Zenon DEF Rules

\* The symbols that stand for an object, or for an array.
Bracketed(end, close, content, open) ==
  \/ end = "MARK_OBJECT_END" /\ close = "}" /\ content = "RULE_MEMBERS" /\ open = "{"
  \/ end = "MARK_ARRAY_END" /\ close = "]" /\ content = "RULE_ELEMENTS" /\ open = "["

(* What the symbols of a pair of brackets are, and where they may lie.     *)
LEMMA BracketFits ==
  ASSUME NEW end, NEW close, NEW content, NEW open, Bracketed(end, close, content, open),
         NEW S \in Seq(Openers), NEW below \in AfterValue
  PROVE  /\ end \in Expectable /\ close \in Expectable \ EndMarks /\ content \in Expectable \ EndMarks
         /\ open \in Expectable \ EndMarks /\ open \in Openers
         /\ Entered(end, S) = Append(S, open) /\ Append(S, open) \in Seq(Openers)
         /\ Lies(below, end) /\ Lies(end, close) /\ Lies(close, content) /\ Lies(close, open) /\ Lies(content, open)
         /\ Fits(end, Append(S, open)) /\ Fits(close, Append(S, open))
         /\ Fits(content, Append(S, open)) /\ Fits(open, Append(S, open))
         /\ \A b : ~ DueAt(b, open)
  <1>1. CASE end = "MARK_OBJECT_END" /\ close = "}" /\ content = "RULE_MEMBERS" /\ open = "{"
    <2>1. /\ end \in Expectable /\ close \in Expectable \ EndMarks /\ content \in Expectable \ EndMarks
          /\ open \in Expectable \ EndMarks /\ open \in Openers
      BY <1>1, Zenon DEF Expectable, Symbols, Punctuation, Rules, EndMarks, Openers
    <2>2. Append(S, open) \in Seq(Openers) /\ Append(S, open) # <<>> /\ Last(Append(S, open)) = open
      BY <2>1, AppendLast, Zenon
    <2>3. Entered(end, S) = Append(S, open)
      BY <1>1, Zenon DEF Entered
    <2>4. Lies(below, end) /\ Lies(end, close)
      BY <1>1, Zenon DEF Lies, Closers, Openers, EndMarks, Unread
    <2>5. Lies(close, content) /\ Lies(close, open) /\ Lies(content, open)
      BY <1>1, Zenon DEF Lies, Closers, Openers, EndMarks, Unread
    <2>6. /\ Fits(end, Append(S, open)) /\ Fits(close, Append(S, open))
          /\ Fits(content, Append(S, open)) /\ Fits(open, Append(S, open))
      BY <1>1, <2>2, Zenon DEF Fits, Objectwise, Arraywise
    <2>7. \A b : ~ DueAt(b, open)
      BY <1>1, Zenon DEF DueAt, Unread
    <2> QED
      BY <2>1, <2>2, <2>3, <2>4, <2>5, <2>6, <2>7
  <1>2. CASE end = "MARK_ARRAY_END" /\ close = "]" /\ content = "RULE_ELEMENTS" /\ open = "["
    <2>1. /\ end \in Expectable /\ close \in Expectable \ EndMarks /\ content \in Expectable \ EndMarks
          /\ open \in Expectable \ EndMarks /\ open \in Openers
      BY <1>2, Zenon DEF Expectable, Symbols, Punctuation, Rules, EndMarks, Openers
    <2>2. Append(S, open) \in Seq(Openers) /\ Append(S, open) # <<>> /\ Last(Append(S, open)) = open
      BY <2>1, AppendLast, Zenon
    <2>3. Entered(end, S) = Append(S, open)
      BY <1>2, Zenon DEF Entered
    <2>4. Lies(below, end) /\ Lies(end, close)
      BY <1>2, Zenon DEF Lies, Closers, Openers, EndMarks, Unread
    <2>5. Lies(close, content) /\ Lies(close, open) /\ Lies(content, open)
      BY <1>2, Zenon DEF Lies, Closers, Openers, EndMarks, Unread
    <2>6. /\ Fits(end, Append(S, open)) /\ Fits(close, Append(S, open))
          /\ Fits(content, Append(S, open)) /\ Fits(open, Append(S, open))
      BY <1>2, <2>2, Zenon DEF Fits, Objectwise, Arraywise
    <2>7. \A b : ~ DueAt(b, open)
      BY <1>2, Zenon DEF DueAt, Unread
    <2> QED
      BY <2>1, <2>2, <2>3, <2>4, <2>5, <2>6, <2>7
  <1> QED
    BY <1>1, <1>2, Zenon DEF Bracketed

(* An object or an array is opened: one more whose contents come next.     *)
LEMMA OwnedOpen ==
  ASSUME NEW c \in Seq(Expectable), c # <<>>, NEW S, Owned(c, S), Top(c) \in {"RULE_OBJECT", "RULE_ARRAY"},
         NEW end, NEW close, NEW content, NEW open, Bracketed(end, close, content, open), NEW s,
         s \in {<<end, close, open>>, <<end, close, content, open>>}
  PROVE  /\ Owned(Front(c) \o s, Append(S, open))
         /\ Due(c) /\ ~ Due(Front(c) \o s)
  <1> DEFINE f == Front(c)
             g == Append(f, end)
             h == Append(g, close)
             k == Append(h, content)
             T == Append(S, open)
  <1>1. /\ f \in Seq(Expectable) /\ S \in Seq(Openers) /\ Owned(f, S)
        /\ Lies(Top(f), Top(c)) /\ Due(c)
    BY RuleOnTop, Zenon DEF Rules, Unread
  <1>2. Top(f) \in AfterValue
    BY <1>1, Zenon DEF Lies, Unread
  <1>3. /\ end \in Expectable /\ close \in Expectable \ EndMarks /\ content \in Expectable \ EndMarks
        /\ open \in Expectable \ EndMarks
        /\ Entered(end, S) = T /\ T \in Seq(Openers)
        /\ Lies(Top(f), end) /\ Lies(end, close) /\ Lies(close, content) /\ Lies(close, open) /\ Lies(content, open)
        /\ Fits(end, T) /\ Fits(close, T) /\ Fits(content, T) /\ Fits(open, T)
        /\ \A b : ~ DueAt(b, open)
    BY <1>1, <1>2, BracketFits
  <1> HIDE DEF f, T
  <1>4. g \in Seq(Expectable) /\ Owned(g, T) /\ Top(g) = end
    BY <1>1, <1>3, OwnedMore, AppendFacts
  <1> HIDE DEF g
  <1>5. h \in Seq(Expectable) /\ Owned(h, T) /\ Top(h) = close
    BY <1>3, <1>4, OneMore
  <1> HIDE DEF h
  <1>6. k \in Seq(Expectable) /\ Owned(k, T) /\ Top(k) = content
    BY <1>3, <1>5, OneMore
  <1> HIDE DEF k
  <1>7. Owned(Append(h, open), T) /\ (Due(Append(h, open)) <=> DueAt(close, open))
    BY <1>3, <1>5, OneMore
  <1>8. Owned(Append(k, open), T) /\ (Due(Append(k, open)) <=> DueAt(content, open))
    BY <1>3, <1>6, OneMore
  <1>9. f \o <<end, close, open>> = Append(h, open) /\ f \o <<end, close, content, open>> = Append(k, open)
    <2>1. end \in Expectable /\ close \in Expectable /\ content \in Expectable /\ open \in Expectable
      BY <1>3
    <2>2. f \o <<end, close, open>> = Append(h, open)
      BY <1>1, <2>1, Pushes DEF g, h
    <2>3. f \o <<end, close, content, open>> = Append(k, open)
      BY <1>1, <2>1, Pushes DEF g, h, k
    <2> QED
      BY <2>2, <2>3
  <1>10. Owned(f \o s, T) /\ ~ Due(f \o s)
    <2>1. CASE s = <<end, close, open>>
      BY <1>3, <1>7, <1>9, <2>1, Zenon
    <2>2. CASE s = <<end, close, content, open>>
      BY <1>3, <1>8, <1>9, <2>2, Zenon
    <2> QED
      BY <2>1, <2>2
  <1> QED
    BY <1>1, <1>10 DEF f, T

(* And closed.                                                             *)
LEMMA OwnedClose ==
  ASSUME NEW c \in Seq(Expectable), c # <<>>, NEW S, Owned(c, S), Top(c) \in EndMarks
  PROVE  /\ S \in Seq(Openers) /\ S # <<>> /\ Owned(Front(c), Front(S))
         /\ ~ Due(c) /\ ~ Due(Front(c))
  <1>1. PICK R \in Seq(Openers) : Owned(Front(c), R) /\ S = Entered(Top(c), R)
    BY OwnedLess
  <1>2. PICK o \in Openers : S = Append(R, o)
    BY <1>1, Zenon DEF Entered, EndMarks, Openers
  <1>3. S \in Seq(Openers) /\ S # <<>> /\ Front(S) = R
    BY <1>2, AppendLast
  <1>4. ~ Due(c)
    BY Zenon DEF Due, DueAt, Unread, EndMarks
  <1>5. ~ Due(Front(c))
    BY DuePop, Zenon DEF Popped, EndMarks
  <1> QED
    BY <1>1, <1>3, <1>4, <1>5

(* A bracket, a separator or the end of the text is read.                  *)
LEMMA ServesRead ==
  ASSUME NEW c \in Seq(Expectable), c # <<>>, NEW S, Owned(c, S), Top(c) \in Punctuation \cup {"eof"}
  PROVE  Serves(c, Front(c), S)
  <1>1. Front(c) \in Seq(Expectable) /\ Owned(Front(c), S)
    BY OwnedPop, Zenon DEF EndMarks, Punctuation
  <1>2. Due(Front(c)) <=> Top(c) = ":"
    BY DuePop, Zenon DEF Popped, Symbols, Punctuation
  <1>3. Due(c) <=> Top(c) = ":"
    BY Zenon DEF Due, DueAt, Unread, Punctuation
  <1> QED
    BY <1>1, <1>2, <1>3 DEF Serves

(* A leaf is read: a key, after which its value is due, or a value.        *)
LEMMA OwnedLeaf ==
  ASSUME NEW c \in Seq(Expectable), c # <<>>, NEW S, Owned(c, S), Top(c) \in {"string", "scalar"}
  PROVE  /\ Front(c) \in Seq(Expectable) /\ Owned(Front(c), S)
         /\ Due(Front(c)) <=> ~ Due(c)
         /\ ~ Due(c) => Top(c) = "string"
  <1>1. Front(c) \in Seq(Expectable) /\ Owned(Front(c), S)
    BY OwnedPop, Zenon DEF EndMarks
  <1>2. Due(Front(c)) <=> (Top(c) = "string" /\ ~ Due(c))
    BY DuePop, Zenon DEF Popped, Symbols
  <1>3. Top(c) = "scalar" => Due(c)
    BY Zenon DEF Due, DueAt, Unread
  <1> QED
    BY <1>1, <1>2, <1>3

(* The innermost scope of an object has counted a key without its value    *)
(* just when a value is due, and the others no such key.                   *)
Paired(S, ns, sc, due) ==
  /\ S \in Seq(Openers) /\ Len(S) = Len(sc)
  /\ \A s \in 1 .. Len(sc) : /\ S[s] = ns[sc[s].parent].token.type
                             /\ S[s] = "{" => (sc[s].count % 2 = 1 <=> (s = Len(sc) /\ due))

(* What has an element is not empty.                                       *)
LEMMA NotEmptyAt ==
  ASSUME NEW X, NEW w \in Seq(X), NEW i \in 1 .. Len(w)
  PROVE  w # <<>>
  <1>1. Len(w) # 0
    BY LenProperties
  <1> QED
    BY <1>1, EmptySeq

(* Something else is expected.                                             *)
LEMMA PairedSame ==
  ASSUME NEW S, NEW ns, NEW sc, NEW due \in BOOLEAN, Paired(S, ns, sc, due),
         NEW due2 \in BOOLEAN, S # <<>> /\ Last(S) = "{" => (due2 <=> due)
  PROVE  Paired(S, ns, sc, due2)
  <1>1. ASSUME NEW s \in 1 .. Len(sc), S[s] = "{", s = Len(sc)
        PROVE  S # <<>> /\ Last(S) = "{"
    <2>1. S \in Seq(Openers) /\ Len(S) = Len(sc)
      BY DEF Paired
    <2>2. s \in 1 .. Len(S)
      BY <1>1, <2>1, Zenon
    <2>3. S # <<>>
      BY <2>1, <2>2, NotEmptyAt, Zenon
    <2> QED
      BY <1>1, <2>1, <2>3 DEF Last
  <1> QED
    BY <1>1, Zenon DEF Paired

(* A key or a value is linked.                                             *)
LEMMA PairedLeaf ==
  ASSUME NEW S, NEW ns, NEW sc, TreeOK(ns, sc), NEW due \in BOOLEAN, Paired(S, ns, sc, due),
         NEW ns2, NEW t, Extends(ns, sc, ns2, t), NEW due2 \in BOOLEAN, due2 <=> ~ due
  PROVE  Paired(S, ns2, Grown(sc, Len(ns) + 1), due2)
  <1> DEFINE sc2 == Grown(sc, Len(ns) + 1)
             n == Len(sc)
  <1>1. /\ n \in Nat /\ Len(sc2) = n /\ Len(ns) \in Nat
        /\ \A s \in 1 .. n : sc2[s].parent = sc[s].parent
        /\ sc \in Seq(ScopeOf(Len(ns)))
    BY TreeGrows, LenProperties DEF TreeOK
  <1>2. \A s \in 1 .. n : /\ sc[s].parent \in 1 .. Len(ns) /\ sc[s].count \in Nat
                          /\ sc2[s].count = IF s = n THEN sc[s].count + 1 ELSE sc[s].count
    <2>1. TAKE s \in 1 .. n
    <2>2. sc[s] \in ScopeOf(Len(ns)) /\ sc # <<>>
      BY <1>1, <2>1, ElementOfSeq, EmptySeq
    <2>3. sc[s].parent \in 1 .. Len(ns) /\ sc[s].count \in Nat /\ DOMAIN sc[s] = {"parent", "tail", "count"}
      BY <2>2 DEF ScopeOf
    <2>4. sc2[s] = IF s = n THEN Enlarged(sc[s], Len(ns) + 1) ELSE sc[s]
      BY <1>1, <2>2 DEF Grown
    <2>5. Enlarged(sc[s], Len(ns) + 1).count = sc[s].count + 1
      BY <2>2 DEF Enlarged, ScopeOf
    <2> QED
      BY <2>3, <2>4, <2>5
  <1> HIDE DEF sc2
  <1>3. ASSUME NEW s \in 1 .. n
        PROVE  S[s] = ns2[sc2[s].parent].token.type
    <2>1. S[s] = ns[sc[s].parent].token.type
      BY <1>3, Zenon DEF Paired
    <2>2. sc2[s].parent = sc[s].parent /\ sc[s].parent \in 1 .. Len(ns)
      BY <1>1, <1>2, <1>3
    <2>3. ns2[sc[s].parent].token = ns[sc[s].parent].token
      BY <2>2 DEF Extends
    <2> QED
      BY <2>1, <2>2, <2>3
  <1>4. ASSUME NEW s \in 1 .. n, S[s] = "{"
        PROVE  sc2[s].count % 2 = 1 <=> (s = n /\ due2)
    <2>1. sc[s].count % 2 = 1 <=> (s = n /\ due)
      BY <1>4, Zenon DEF Paired
    <2>2. (sc[s].count + 1) % 2 = 1 <=> ~ (sc[s].count % 2 = 1)
      BY <1>2, Parity
    <2>3. sc2[s].count = IF s = n THEN sc[s].count + 1 ELSE sc[s].count
      BY <1>2
    <2> HIDE DEF n
    <2> QED
      BY <2>1, <2>2, <2>3, Zenon
  <1>5. S \in Seq(Openers) /\ Len(S) = n
    BY DEF Paired
  <1> QED
    BY <1>1, <1>3, <1>4, <1>5, Zenon DEF Paired, sc2

(* An object or an array is opened, which is what was due.                 *)
LEMMA PairedOpen ==
  ASSUME NEW S, NEW ns, NEW sc, TreeOK(ns, sc), Paired(S, ns, sc, TRUE),
         NEW ns2, NEW t, Extends(ns, sc, ns2, t), t.type \in Openers
  PROVE  Paired(Append(S, t.type), ns2, Append(Grown(sc, Len(ns) + 1), Fresh(Len(ns) + 1)), FALSE)
  <1> DEFINE sc2 == Grown(sc, Len(ns) + 1)
             new == Fresh(Len(ns) + 1)
             sc3 == Append(sc2, new)
             T == Append(S, t.type)
             n == Len(sc)
  <1>1. Paired(S, ns2, sc2, FALSE)
    BY PairedLeaf
  <1>2. TreeOK(ns2, sc2) /\ Len(sc2) = n /\ Len(ns) \in Nat /\ Len(ns2) = Len(ns) + 1
    <2>1. TreeOK(ns2, sc2) /\ Len(sc2) = n
      BY TreeGrows, Zenon
    <2>2. Len(ns) \in Nat
      BY Zenon DEF TreeOK
    <2>3. Len(ns2) = Len(ns) + 1
      BY Zenon DEF Extends
    <2> QED
      BY <2>1, <2>2, <2>3
  <1>3. sc2 \in Seq(ScopeOf(Len(ns2))) /\ n \in Nat
    BY <1>2, LenProperties DEF TreeOK
  <1>4. new \in ScopeOf(Len(ns2)) /\ new.parent = Len(ns) + 1 /\ new.count = 0
    BY <1>2 DEF Fresh, ScopeOf
  <1>5. ns2[Len(ns) + 1].token = t
    BY DEF Extends
  <1> HIDE DEF sc2, new
  <1>6. /\ Len(sc3) = n + 1 /\ sc3[n + 1] = new
        /\ \A s \in 1 .. n : sc3[s] = sc2[s]
    BY <1>2, <1>3, <1>4, AppendFacts
  <1>7. S \in Seq(Openers) /\ Len(S) = n
    BY <1>1, <1>2 DEF Paired
  <1>8. /\ T \in Seq(Openers) /\ Len(T) = n + 1 /\ T[n + 1] = t.type
        /\ \A s \in 1 .. n : T[s] = S[s]
    BY <1>7, AppendFacts
  <1> HIDE DEF sc3, T
  <1>9. ASSUME NEW s \in 1 .. Len(sc3)
        PROVE  T[s] = ns2[sc3[s].parent].token.type /\ (T[s] = "{" => (sc3[s].count % 2 = 1 <=> (s = Len(sc3) /\ FALSE)))
    <2>1. CASE s = n + 1
      <3>1. sc3[s].parent = Len(ns) + 1 /\ sc3[s].count = 0 /\ T[s] = t.type
        BY <1>4, <1>6, <1>8, <2>1
      <3>2. ~ (0 % 2 = 1)
        OBVIOUS
      <3> QED
        BY <1>5, <3>1, <3>2, Zenon
    <2>2. CASE s # n + 1
      <3>1. s \in 1 .. n
        BY <1>3, <1>6, <2>2
      <3>2. S[s] = ns2[sc2[s].parent].token.type /\ (S[s] = "{" => ~ (sc2[s].count % 2 = 1))
        BY <1>1, <1>2, <3>1, Zenon DEF Paired
      <3> QED
        BY <1>6, <1>8, <3>1, <3>2, Zenon
    <2> QED
      BY <2>1, <2>2
  <1>10. Len(T) = Len(sc3)
    BY <1>6, <1>8
  <1>11. Paired(T, ns2, sc3, FALSE)
    BY <1>8, <1>9, <1>10, Zenon DEF Paired
  <1> QED
    BY <1>11 DEF T, sc3, sc2, new

(* One is closed, when nothing is due.                                     *)
LEMMA PairedClose ==
  ASSUME NEW S, NEW ns, NEW sc, TreeOK(ns, sc), Paired(S, ns, sc, FALSE), S # <<>>
  PROVE  sc # <<>> /\ Paired(Front(S), ns, Front(sc), FALSE)
  <1>1. S \in Seq(Openers) /\ Len(S) = Len(sc) /\ sc \in Seq(ScopeOf(Len(ns)))
    BY DEF Paired, TreeOK
  <1>2. sc # <<>>
    BY <1>1, EmptySeq
  <1>3. /\ Len(Front(sc)) = Len(sc) - 1
        /\ \A s \in 1 .. Len(sc) - 1 : Front(sc)[s] = sc[s]
        /\ Len(sc) \in Nat \ {0}
    BY <1>1, <1>2, FrontFacts
  <1>4. /\ Front(S) \in Seq(Openers) /\ Len(Front(S)) = Len(S) - 1
        /\ \A s \in 1 .. Len(S) - 1 : Front(S)[s] = S[s]
    BY <1>1, FrontFacts
  <1>5. ASSUME NEW s \in 1 .. Len(Front(sc))
        PROVE  /\ Front(S)[s] = ns[Front(sc)[s].parent].token.type
               /\ Front(S)[s] = "{" => (Front(sc)[s].count % 2 = 1 <=> (s = Len(Front(sc)) /\ FALSE))
    <2>1. s \in 1 .. Len(sc) - 1 /\ s \in 1 .. Len(sc) /\ s \in 1 .. Len(S) - 1
      BY <1>1, <1>3
    <2>2. Front(S)[s] = S[s] /\ Front(sc)[s] = sc[s]
      BY <1>3, <1>4, <2>1
    <2>3. S[s] = ns[sc[s].parent].token.type /\ (S[s] = "{" => ~ (sc[s].count % 2 = 1))
      BY <2>1, Zenon DEF Paired
    <2> QED
      BY <2>2, <2>3, Zenon
  <1>6. Len(Front(S)) = Len(Front(sc))
    BY <1>1, <1>3, <1>4
  <1> QED
    BY <1>2, <1>4, <1>5, <1>6, Zenon DEF Paired

\* The expected symbols belong to the open objects and arrays, and say of the
\* innermost whether the next child is a key.
StackInv == \E S : Owned(controls, S) /\ Paired(S, nodes, scopes, Due(controls))

\* What a step does to the tree: nothing, ...
TreeKept == UNCHANGED <<doc, scopes, nodes, keys, keyTree, capacity>>

\* ... a leaf is linked, a string if it is a key, ...
LeafLinked ==
  /\ Current \in Token /\ Current.type \in {"string", "scalar"}
  /\ IsKey => Current.type = "string"
  /\ LinkNode("LEAF", Current, HugeName)
  /\ scopes' = Grown(scopes, Len(nodes) + 1)
  /\ doc' = doc

\* ... an object or an array is linked as a value and opened, ...
NodeOpened ==
  /\ Current \in Token /\ Current.type \in Openers
  /\ ~ IsKey
  /\ \E type \in {"OBJECT", "ARRAY"} : LinkNode(type, Current, HugeName)
  /\ scopes' = Append(Grown(scopes, Len(nodes) + 1), Fresh(Len(nodes) + 1))
  /\ doc' = doc

\* ... or closed.
NodeClosed ==
  /\ scopes # <<>>
  /\ scopes' = Front(scopes)
  /\ UNCHANGED <<doc, nodes, keys, keyTree, capacity>>

(* Whether a value is due has an answer.                                   *)
LEMMA DueIsBoolean ==
  ASSUME NEW c
  PROVE  Due(c) \in BOOLEAN
  BY DEF Due

(* The scopes as their lemmas have them.                                   *)
LEMMA ScopesGrown == Linked = Grown(scopes, Len(nodes) + 1) /\ NewScope = Fresh(Len(nodes) + 1)
  <1> DEFINE n == Len(nodes)
  <1>1. NewScope = Fresh(n + 1)
    BY DEF NewScope, Fresh
  <1>2. CASE scopes = <<>>
    BY <1>1, <1>2 DEF Linked, Grown
  <1>3. CASE scopes # <<>>
    <2>1. Linked = [scopes EXCEPT ![Len(scopes)] = Enlarged(scopes[Len(scopes)], n + 1)]
      BY <1>3 DEF Linked, Last
    <2>2. Grown(scopes, n + 1) = [scopes EXCEPT ![Len(scopes)] = Enlarged(scopes[Len(scopes)], n + 1)]
      BY <1>3 DEF Grown
    <2> QED
      BY <1>1, <2>1, <2>2
  <1> QED
    BY <1>2, <1>3

(* Whether the next child is a key.                                        *)
LEMMA KeyWhenNotDue ==
  ASSUME TreeOK(nodes, scopes), NEW S, NEW due \in BOOLEAN, Paired(S, nodes, scopes, due)
  PROVE  IsKey => ~ due
  <1> SUFFICES ASSUME IsKey PROVE ~ due
    OBVIOUS
  <1> DEFINE n == Len(scopes)
  <1>1. scopes # <<>> /\ nodes[Last(scopes).parent].token.type = "{" /\ Last(scopes).count % 2 = 0
    BY DEF IsKey, InObject
  <1>2. scopes \in Seq(ScopeOf(Len(nodes))) /\ n \in 1 .. n
    <2>1. scopes \in Seq(ScopeOf(Len(nodes)))
      BY DEF TreeOK
    <2>2. n \in Nat /\ n # 0
      BY <1>1, <2>1, EmptySeq
    <2> QED
      BY <2>1, <2>2
  <1>3. Last(scopes) = scopes[n] /\ scopes[n].count \in Nat
    <2>1. scopes[n] \in ScopeOf(Len(nodes))
      BY <1>2, ElementOfSeq
    <2> QED
      BY <2>1 DEF ScopeOf, Last
  <1> HIDE DEF n
  <1>4. ~ (scopes[n].count % 2 = 1)
    <2>1. scopes[n].count % 2 = 0
      BY <1>1, <1>3, Zenon
    <2> QED
      BY <1>3, <2>1, Parity
  <1>5. S[n] = "{" /\ n \in 1 .. Len(scopes) /\ n = Len(scopes)
    BY <1>1, <1>2, <1>3, Zenon DEF Paired, n
  <1> QED
    BY <1>4, <1>5, Zenon DEF Paired

(* The stack of a parse that begins.                                       *)
LEMMA StackAtFirst ==
  ASSUME ParserInit
  PROVE  StackInv
  <1>1. controls = <<"RULE_JSON">> /\ scopes = <<>>
    BY DEF ParserInit, AstInit
  <1> DEFINE e == <<>>
             x == "RULE_JSON"
  <1>2. e \in Seq(Expectable) /\ e \in Seq(Openers) /\ Owned(e, e)
    BY OwnedNone
  <1>3. x \in Expectable /\ Lies("none", x) /\ Fits(x, e) /\ Entered(x, e) = e
    BY Zenon DEF Lies, Fits, Entered, Expectable, Rules, EndMarks, Unread, Closers, Openers, Objectwise, Arraywise
  <1>4. Top(e) = "none"
    BY DEF Top
  <1> HIDE DEF x
  <1>5. Owned(Append(e, x), e)
    <2>1. Lies(Top(e), x) /\ Fits(x, Entered(x, e))
      BY <1>3, <1>4
    <2> HIDE DEF e
    <2> QED
      BY <1>2, <1>3, <2>1, OwnedMore
  <1>6. Append(e, x) = <<x>>
    OBVIOUS
  <1>7. \A due : Paired(e, nodes, scopes, due)
    BY <1>1, <1>2 DEF Paired
  <1> QED
    BY <1>1, <1>5, <1>6, <1>7 DEF StackInv, x

(* A step that leaves the tree alone.                                      *)
LEMMA StackServed ==
  ASSUME ParserInv, StackInv, NEW d, controls' = d, \A S : Owned(controls, S) => Serves(controls, d, S), TreeKept
  PROVE  StackInv'
  <1>1. PICK S : Owned(controls, S) /\ Paired(S, nodes, scopes, Due(controls))
    BY DEF StackInv
  <1>2. Owned(d, S) /\ (S # <<>> /\ Last(S) = "{" => (Due(d) <=> Due(controls)))
    BY <1>1, Zenon DEF Serves
  <1>3. Paired(S, nodes, scopes, Due(d))
    <2>1. Due(d) \in BOOLEAN /\ Due(controls) \in BOOLEAN
      BY DueIsBoolean
    <2> QED
      BY <1>1, <1>2, <2>1, PairedSame, Zenon
  <1> QED
    BY <1>2, <1>3 DEF StackInv, TreeKept

(* A rule gives way to its symbols.                                        *)
LEMMA StackExpand ==
  ASSUME ParserInv, StackInv, NEW s, Expand(s), \A S : Owned(controls, S) => Serves(controls, Front(controls) \o s, S)
  PROVE  StackInv' /\ TreeKept
  <1>1. TreeKept /\ controls' = Front(controls) \o s
    BY DEF Expand, Push, TreeKept, astVars
  <1> QED
    BY <1>1, StackServed

(* A parse that stops.                                                     *)
LEMMA StackStops ==
  ASSUME StackInv, UNCHANGED <<doc, controls, astVars>>
  PROVE  StackInv' /\ TreeKept
  BY DEF StackInv, TreeKept, astVars

(* An object or an array is opened.                                        *)
LEMMA StackOpens ==
  ASSUME ParserInv, StackInv, status = "parsing", controls # <<>>,
         NEW rule, NEW type, NEW open, NEW close, NEW end, NEW content,
         Open(rule, type, open, close, end, content),
         rule \in {"RULE_OBJECT", "RULE_ARRAY"}, type \in {"OBJECT", "ARRAY"}, open = Opening(rule),
         Bracketed(end, close, content, open)
  PROVE  StackInv' /\ (TreeKept \/ NodeOpened)
  <1> DEFINE c == controls
             s == IF Ahead.type = close THEN <<end, close, open>> ELSE <<end, close, content, open>>
             n == Len(nodes)
  <1>1. /\ Top(c) = rule /\ c \in Seq(Expectable)
        /\ TreeOK(nodes, scopes) /\ TextOK
    BY TopFacts DEF Open, ParserInv, StackOK
  <1>2. CASE depth + 1 > MaxDepth
    <2>1. ~ (depth + 1 <= MaxDepth)
      <3>1. depth \in Nat /\ MaxDepth \in Nat
        BY ParserAssumption DEF ParserInv, StatusOK
      <3> QED
        BY <1>2, <3>1
    <2>2. UNCHANGED <<doc, controls, astVars>>
      BY <2>1 DEF Open
    <2> QED
      BY <2>2, StackStops
  <1>3. CASE ~ (depth + 1 > MaxDepth)
    <2>1. /\ LinkNode(type, Current, HugeName)
          /\ scopes' = Append(Linked, NewScope)
          /\ controls' = Front(c) \o s
          /\ doc' = doc
      BY <1>3 DEF Open, Push
    <2>2. Current.type = open /\ open \in Openers
      BY <1>1, Zenon DEF TextOK, Opening, Openers
    <2>3. Current \in Token
      <3>1. open \in Symbols \ {"eof"}
        BY <2>2, Zenon DEF Symbols, Punctuation, Openers
      <3> QED
        BY <1>1, <2>2, <3>1, CurrentFacts
    <2>4. Extends(nodes, scopes, nodes', Current)
      BY <2>1, <2>3, NodeAdded
    <2>5. scopes' = Append(Grown(scopes, n + 1), Fresh(n + 1))
      BY <2>1, ScopesGrown
    <2>6. PICK S : Owned(c, S) /\ Paired(S, nodes, scopes, Due(c))
      BY DEF StackInv
    <2>7. s \in {<<end, close, open>>, <<end, close, content, open>>}
      OBVIOUS
    <2> HIDE DEF s
    <2>8. Owned(Front(c) \o s, Append(S, open)) /\ Due(c) /\ ~ Due(Front(c) \o s)
      BY <1>1, <2>6, <2>7, OwnedOpen
    <2>9. Paired(S, nodes, scopes, TRUE)
      <3>1. Due(c) = TRUE
        BY <2>8, DueIsBoolean
      <3> QED
        BY <2>6, <3>1
    <2>10. Paired(Append(S, open), nodes', scopes', FALSE)
      <3>1. Current.type \in Openers
        BY <2>2
      <3> HIDE DEF n
      <3>2. Paired(Append(S, Current.type), nodes', Append(Grown(scopes, Len(nodes) + 1), Fresh(Len(nodes) + 1)), FALSE)
        BY <1>1, <2>4, <2>9, <3>1, PairedOpen
      <3> QED
        BY <2>2, <2>5, <3>2 DEF n
    <2>11. Due(Front(c) \o s) = FALSE
      BY <2>8, DueIsBoolean
    <2>12. StackInv'
      BY <2>1, <2>8, <2>10, <2>11 DEF StackInv
    <2>13. ~ IsKey
      BY <1>1, <2>9, KeyWhenNotDue
    <2> QED
      BY <2>1, <2>2, <2>3, <2>5, <2>12, <2>13 DEF NodeOpened
  <1> QED
    BY <1>2, <1>3

(* One is closed.                                                          *)
LEMMA StackCloses ==
  ASSUME ParserInv, StackInv, controls # <<>>, Close
  PROVE  StackInv' /\ NodeClosed
  <1> DEFINE c == controls
             d == Front(c) \o <<>>
  <1>1. Top(c) \in EndMarks /\ c \in Seq(Expectable) /\ TreeOK(nodes, scopes)
    <2>1. Expected \in EndMarks
      BY DEF Close, EndMarks
    <2> QED
      BY <2>1, TopFacts DEF ParserInv, StackOK
  <1>2. /\ controls' = d /\ scopes' = Front(scopes)
        /\ UNCHANGED <<doc, nodes, keys, keyTree, capacity>>
    BY DEF Close, Push
  <1>3. PICK S : Owned(c, S) /\ Paired(S, nodes, scopes, Due(c))
    BY DEF StackInv
  <1>4. S \in Seq(Openers) /\ S # <<>> /\ Owned(Front(c), Front(S)) /\ ~ Due(c) /\ ~ Due(Front(c))
    BY <1>1, <1>3, OwnedClose
  <1>5. Due(c) = FALSE /\ Due(Front(c)) = FALSE
    BY <1>4, DueIsBoolean
  <1>6. scopes # <<>> /\ Paired(Front(S), nodes, Front(scopes), FALSE)
    <2>1. Paired(S, nodes, scopes, FALSE)
      BY <1>3, <1>5
    <2> QED
      BY <1>1, <1>4, <2>1, PairedClose
  <1>7. d = Front(c)
    <2>1. Front(c) \in Seq(Expectable)
      BY <1>1, FrontFacts
    <2> QED
      BY <2>1, ConcatEmptySeq
  <1> HIDE DEF d
  <1>8. StackInv'
    BY <1>2, <1>4, <1>5, <1>6, <1>7 DEF StackInv
  <1> QED
    BY <1>2, <1>6, <1>8 DEF NodeClosed

(* A terminal is matched.                                                  *)
LEMMA StackMatches ==
  ASSUME ParserInv, StackInv, controls # <<>>, Match
  PROVE  StackInv' /\ (TreeKept \/ LeafLinked)
  <1> DEFINE c == controls
             d == Front(c) \o <<>>
             t == Current
             n == Len(nodes)
  <1>1. /\ Top(c) \in Symbols /\ Expected = Top(c) /\ c \in Seq(Expectable)
        /\ TreeOK(nodes, scopes) /\ TextOK
    BY TopFacts DEF Match, ParserInv, StackOK
  <1>2. d = Front(c)
    <2>1. Front(c) \in Seq(Expectable)
      BY <1>1, FrontFacts
    <2> QED
      BY <2>1, ConcatEmptySeq
  <1>3. CASE Top(c) # t.type
    <2>1. UNCHANGED <<doc, controls, astVars>>
      BY <1>1, <1>3 DEF Match, Raise
    <2> QED
      BY <2>1, StackStops
  <1>4. CASE Top(c) = t.type /\ ~ IsLeaf(t.type)
    <2>1. /\ controls' = d /\ UNCHANGED <<doc, astVars>>
      BY <1>1, <1>4 DEF Match, Push
    <2>2. Top(c) \in Punctuation \cup {"eof"}
      BY <1>1, <1>4 DEF Symbols, IsLeaf
    <2>3. \A S : Owned(c, S) => Serves(c, Front(c), S)
      BY <1>1, <2>2, ServesRead
    <2>4. TreeKept
      BY <2>1 DEF TreeKept, astVars
    <2> HIDE DEF d
    <2> QED
      BY <1>2, <2>1, <2>3, <2>4, StackServed
  <1>5. CASE Top(c) = t.type /\ IsLeaf(t.type)
    <2>1. /\ LinkNode("LEAF", t, HugeName) /\ scopes' = Linked
          /\ controls' = d /\ doc' = doc
      BY <1>1, <1>5 DEF Match, Push
    <2>2. t.type \in {"string", "scalar"} /\ Top(c) \in {"string", "scalar"}
      BY <1>5 DEF IsLeaf
    <2>3. t \in Token
      <3>1. t.type \in Symbols \ {"eof"}
        BY <2>2, Zenon DEF Symbols
      <3> QED
        BY <1>1, <3>1, CurrentFacts
    <2>4. Extends(nodes, scopes, nodes', t)
      BY <2>1, <2>3, NodeAdded
    <2>5. scopes' = Grown(scopes, n + 1)
      BY <2>1, ScopesGrown
    <2>6. PICK S : Owned(c, S) /\ Paired(S, nodes, scopes, Due(c))
      BY DEF StackInv
    <2>7. Owned(Front(c), S) /\ (Due(Front(c)) <=> ~ Due(c)) /\ (~ Due(c) => Top(c) = "string")
      BY <1>1, <2>2, <2>6, OwnedLeaf
    <2> HIDE DEF t, n, d
    <2>8. Paired(S, nodes', Grown(scopes, Len(nodes) + 1), Due(Front(c)))
      BY <1>1, <2>4, <2>6, <2>7, PairedLeaf, DueIsBoolean
    <2>9. StackInv'
      BY <1>2, <2>1, <2>5, <2>7, <2>8 DEF StackInv, n
    <2>10. IsKey => t.type = "string"
      <3>1. IsKey => ~ Due(c)
        BY <1>1, <2>6, KeyWhenNotDue, DueIsBoolean
      <3> QED
        BY <1>5, <2>7, <3>1
    <2> QED
      BY <2>1, <2>2, <2>3, <2>5, <2>9, <2>10 DEF LeafLinked, t, n
  <1> QED
    BY <1>3, <1>4, <1>5

(* A turn of the loop.                                                     *)
LEMMA StackStep ==
  ASSUME ParserInv, StackInv, ParserStep
  PROVE  StackInv' /\ (TreeKept \/ LeafLinked \/ NodeOpened \/ NodeClosed)
  <1> DEFINE c == controls
  <1>1. status = "parsing" /\ c # <<>> /\ Expected = Top(c) /\ c \in Seq(Expectable)
    BY TopFacts DEF ParserStep, ParserInv, StackOK
  <1>2. CASE Match
    BY <1>1, <1>2, StackMatches
  <1>3. CASE ExpandJson
    <2>1. Top(c) = "RULE_JSON" /\ Expand(<<"eof", "RULE_VALUE">>)
      BY <1>1, <1>3 DEF ExpandJson
    <2>2. \A S : Owned(c, S) => Serves(c, Front(c) \o <<"eof", "RULE_VALUE">>, S)
      BY <1>1, <2>1, ServesJson, Zenon
    <2> QED
      BY <2>1, <2>2, StackExpand, Zenon
  <1>4. CASE ExpandValue
    <2>1. Top(c) = "RULE_VALUE"
      BY <1>1, <1>4 DEF ExpandValue
    <2>2. ASSUME NEW a \in {"RULE_OBJECT", "RULE_ARRAY", "string", "scalar"}, Expand(<<a>>)
          PROVE  StackInv' /\ TreeKept
      <3>1. \A S : Owned(c, S) => Serves(c, Front(c) \o <<a>>, S)
        BY <1>1, <2>1, ServesValue, Zenon
      <3> QED
        BY <2>2, <3>1, StackExpand, Zenon
    <2>3. CASE Current.type = "{" /\ Expand(<<"RULE_OBJECT">>)
      BY <2>2, <2>3, Zenon
    <2>4. CASE Current.type = "[" /\ Expand(<<"RULE_ARRAY">>)
      BY <2>2, <2>4, Zenon
    <2>5. CASE IsLeaf(Current.type) /\ Expand(<<Current.type>>)
      <3>1. Current.type \in {"RULE_OBJECT", "RULE_ARRAY", "string", "scalar"}
        BY <2>5, Zenon DEF IsLeaf
      <3> QED
        BY <2>2, <2>5, <3>1, Zenon
    <2>6. CASE Raise("MALFORMED_JSON")
      <3>1. UNCHANGED <<doc, controls, astVars>>
        BY <2>6 DEF Raise
      <3> QED
        BY <3>1, StackStops
    <2> QED
      BY <1>4, <2>3, <2>4, <2>5, <2>6 DEF ExpandValue
  <1>5. CASE ExpandObject
    <2>1. /\ Open("RULE_OBJECT", "OBJECT", "{", "}", "MARK_OBJECT_END", "RULE_MEMBERS")
          /\ "{" = Opening("RULE_OBJECT") /\ Bracketed("MARK_OBJECT_END", "}", "RULE_MEMBERS", "{")
      BY <1>5, Zenon DEF ExpandObject, Opening, Bracketed
    <2> QED
      BY <1>1, <2>1, StackOpens, Zenon
  <1>6. CASE ExpandArray
    <2>1. /\ Open("RULE_ARRAY", "ARRAY", "[", "]", "MARK_ARRAY_END", "RULE_ELEMENTS")
          /\ "[" = Opening("RULE_ARRAY") /\ Bracketed("MARK_ARRAY_END", "]", "RULE_ELEMENTS", "[")
      BY <1>6, Zenon DEF ExpandArray, Opening, Bracketed
    <2> QED
      BY <1>1, <2>1, StackOpens, Zenon
  <1>7. CASE ExpandMembers
    <2>1. Top(c) = "RULE_MEMBERS" /\ Expand(<<"RULE_NEXT_MEMBER", "RULE_PAIR">>)
      BY <1>1, <1>7 DEF ExpandMembers
    <2>2. \A S : Owned(c, S) => Serves(c, Front(c) \o <<"RULE_NEXT_MEMBER", "RULE_PAIR">>, S)
      BY <1>1, <2>1, ServesMembers, Zenon
    <2> QED
      BY <2>1, <2>2, StackExpand, Zenon
  <1>8. CASE ExpandPair
    <2>1. Top(c) = "RULE_PAIR" /\ Expand(<<"RULE_VALUE", ":", "string">>)
      BY <1>1, <1>8 DEF ExpandPair
    <2>2. \A S : Owned(c, S) => Serves(c, Front(c) \o <<"RULE_VALUE", ":", "string">>, S)
      BY <1>1, <2>1, ServesPair, Zenon
    <2> QED
      BY <2>1, <2>2, StackExpand, Zenon
  <1>9. CASE ExpandElements
    <2>1. Top(c) = "RULE_ELEMENTS" /\ Expand(<<"RULE_NEXT_ELEMENT", "RULE_VALUE">>)
      BY <1>1, <1>9 DEF ExpandElements
    <2>2. \A S : Owned(c, S) => Serves(c, Front(c) \o <<"RULE_NEXT_ELEMENT", "RULE_VALUE">>, S)
      BY <1>1, <2>1, ServesElements, Zenon
    <2> QED
      BY <2>1, <2>2, StackExpand, Zenon
  <1>10. ASSUME NEW rule, NEW content, Expected = rule,
                Expand(<<content, ",">>) \/ Expand(<<>>),
                rule \in {"RULE_NEXT_MEMBER", "RULE_NEXT_ELEMENT"},
                \A S : Owned(c, S) => Serves(c, Front(c) \o <<content, ",">>, S)
         PROVE  StackInv' /\ TreeKept
    <2>1. CASE Expand(<<content, ",">>)
      BY <1>10, <2>1, StackExpand, Zenon
    <2>2. CASE Expand(<<>>)
      <3>1. \A S : Owned(c, S) => Serves(c, Front(c), S)
        BY <1>1, <1>10, ServesNothing, Zenon
      <3>2. Front(c) \o <<>> = Front(c)
        <4>1. Front(c) \in Seq(Expectable)
          BY <1>1, FrontFacts
        <4> QED
          BY <4>1, ConcatEmptySeq
      <3>3. \A S : Owned(c, S) => Serves(c, Front(c) \o <<>>, S)
        BY <3>1, <3>2, Zenon
      <3> QED
        BY <2>2, <3>3, StackExpand, Zenon
    <2> QED
      BY <1>10, <2>1, <2>2
  <1>11. CASE ExpandNextMember
    <2>1. Top(c) = "RULE_NEXT_MEMBER" /\ (Expand(<<"RULE_MEMBERS", ",">>) \/ Expand(<<>>))
      BY <1>1, <1>11 DEF ExpandNextMember, ExpandNext
    <2>2. \A S : Owned(c, S) => Serves(c, Front(c) \o <<"RULE_MEMBERS", ",">>, S)
      BY <1>1, <2>1, ServesNextMember, Zenon
    <2> QED
      BY <1>1, <1>10, <2>1, <2>2, Zenon
  <1>12. CASE ExpandNextElement
    <2>1. Top(c) = "RULE_NEXT_ELEMENT" /\ (Expand(<<"RULE_ELEMENTS", ",">>) \/ Expand(<<>>))
      BY <1>1, <1>12 DEF ExpandNextElement, ExpandNext
    <2>2. \A S : Owned(c, S) => Serves(c, Front(c) \o <<"RULE_ELEMENTS", ",">>, S)
      BY <1>1, <2>1, ServesNextElement, Zenon
    <2> QED
      BY <1>1, <1>10, <2>1, <2>2, Zenon
  <1>13. CASE Close
    BY <1>1, <1>13, StackCloses
  <1> QED
    BY <1>2, <1>3, <1>4, <1>5, <1>6, <1>7, <1>8, <1>9, <1>11, <1>12, <1>13 DEF ParserStep

---------------------------------------------------------------------------
(* What else link_node_to_scope changes.                                   *)

\* The fields the walks read that do not say who follows whom.
SameBut(ns, ms, N, q, v, w) ==
  \A i \in 1 .. N : /\ ms[i].type = ns[i].type
                    /\ ms[i].firstChild = IF i = q THEN v ELSE ns[i].firstChild
                    /\ ms[i].keyTree = IF i = q THEN w ELSE ns[i].keyTree

(* Changing one link in a row of nodes.                                    *)
LEMMA OneLink ==
  ASSUME NEW n, NEW k, NEW N, NEW ns \in [1 .. N -> NodeOf(n, k)], NEW q, NEW v, NEW ms
  PROVE  /\ ms = WithChild(ns, q, v) => SameBut(ns, ms, N, q, v, ns[q].keyTree)
         /\ ms = WithTree(ns, q, v) => SameBut(ns, ms, N, q, ns[q].firstChild, v)
         /\ ms = WithSibling(ns, q, v) => \A w : SameBut(ns, ms, N, w, ns[w].firstChild, ns[w].keyTree)
         /\ ms = ns => \A w : SameBut(ns, ms, N, w, ns[w].firstChild, ns[w].keyTree)
  <1>1. ASSUME NEW i \in 1 .. N
        PROVE  /\ [ns[i] EXCEPT !.firstChild = v].type = ns[i].type
               /\ [ns[i] EXCEPT !.firstChild = v].firstChild = v
               /\ [ns[i] EXCEPT !.firstChild = v].keyTree = ns[i].keyTree
               /\ [ns[i] EXCEPT !.keyTree = v].type = ns[i].type
               /\ [ns[i] EXCEPT !.keyTree = v].firstChild = ns[i].firstChild
               /\ [ns[i] EXCEPT !.keyTree = v].keyTree = v
               /\ [ns[i] EXCEPT !.nextSibling = v].type = ns[i].type
               /\ [ns[i] EXCEPT !.nextSibling = v].firstChild = ns[i].firstChild
               /\ [ns[i] EXCEPT !.nextSibling = v].keyTree = ns[i].keyTree
    <2>1. ns[i] \in NodeOf(n, k)
      OBVIOUS
    <2> QED
      BY <2>1 DEF NodeOf
  <1>2. ASSUME NEW i \in 1 .. N
        PROVE  /\ WithChild(ns, q, v)[i] = IF i = q THEN [ns[i] EXCEPT !.firstChild = v] ELSE ns[i]
               /\ WithTree(ns, q, v)[i] = IF i = q THEN [ns[i] EXCEPT !.keyTree = v] ELSE ns[i]
               /\ WithSibling(ns, q, v)[i] = IF i = q THEN [ns[i] EXCEPT !.nextSibling = v] ELSE ns[i]
    BY DEF WithChild, WithTree, WithSibling
  <1>3. ms = WithChild(ns, q, v) => SameBut(ns, ms, N, q, v, ns[q].keyTree)
    <2> SUFFICES ASSUME ms = WithChild(ns, q, v), NEW i \in 1 .. N
                 PROVE  /\ ms[i].type = ns[i].type
                        /\ ms[i].firstChild = IF i = q THEN v ELSE ns[i].firstChild
                        /\ ms[i].keyTree = IF i = q THEN ns[q].keyTree ELSE ns[i].keyTree
      BY DEF SameBut
    <2>1. CASE i = q
      BY <1>1, <1>2, <2>1
    <2>2. CASE i # q
      BY <1>2, <2>2
    <2> QED
      BY <2>1, <2>2
  <1>4. ms = WithTree(ns, q, v) => SameBut(ns, ms, N, q, ns[q].firstChild, v)
    <2> SUFFICES ASSUME ms = WithTree(ns, q, v), NEW i \in 1 .. N
                 PROVE  /\ ms[i].type = ns[i].type
                        /\ ms[i].firstChild = IF i = q THEN ns[q].firstChild ELSE ns[i].firstChild
                        /\ ms[i].keyTree = IF i = q THEN v ELSE ns[i].keyTree
      BY DEF SameBut
    <2>1. CASE i = q
      BY <1>1, <1>2, <2>1
    <2>2. CASE i # q
      BY <1>2, <2>2
    <2> QED
      BY <2>1, <2>2
  <1>5. ms = WithSibling(ns, q, v) => \A w : SameBut(ns, ms, N, w, ns[w].firstChild, ns[w].keyTree)
    <2>1. SUFFICES ASSUME ms = WithSibling(ns, q, v), NEW w, NEW i \in 1 .. N
                   PROVE  /\ ms[i].type = ns[i].type
                          /\ ms[i].firstChild = ns[i].firstChild
                          /\ ms[i].keyTree = ns[i].keyTree
      BY DEF SameBut
    <2> QED
      BY <1>1, <1>2, <2>1
  <1>6. ms = ns => \A w : SameBut(ns, ms, N, w, ns[w].firstChild, ns[w].keyTree)
    BY DEF SameBut
  <1> QED
    BY <1>3, <1>4, <1>5, <1>6

\* The object or array the next node goes into, what the node's type becomes,
\* and the key tree of that object afterwards.
Inner == Last(scopes).parent
\* The type of the new node, whether it goes into a tree, and that tree's root.
TypeAs(type, token) == IF IsDuplicate(token.name) \/ ValueOfSkipped THEN "SKIPPED" ELSE type
InTree(token) == IsKey /\ ~ IsDuplicate(token.name) /\ token.name \notin HugeName
RootWith(token) == IF InTree(token) THEN RootAfterInsert(nodes[Inner].keyTree) ELSE nodes[Inner].keyTree

(* What linking the token changes besides who follows whom.                *)
LEMMA LinkFields ==
  ASSUME nodes \in Seq(NodeOf(Len(nodes), Len(keyTree))),
         keyTree \in Seq(KeyOf(Len(nodes), Len(keyTree))),
         scopes \in Seq(ScopeOf(Len(nodes))),
         NEW type \in {"OBJECT", "ARRAY", "LEAF"}, NEW token \in Token, LinkNode(type, token, HugeName)
  PROVE  LinksNode(nodes, scopes, nodes', TypeAs(type, token), RootWith(token))
  <1> DEFINE n == Len(nodes)
             k == Len(keyTree)
             p == Inner
             scope == Last(scopes)
             inTree == IsKey /\ ~IsDuplicate(token.name) /\ token.name \notin HugeName
             skips == IsDuplicate(token.name) \/ ValueOfSkipped
             node == [Node(type, token) EXCEPT
                       !.parent = IF scopes = <<>> THEN 0 ELSE scope.parent,
                       !.type = IF skips THEN "SKIPPED" ELSE @]
             linked == IF scopes = <<>> THEN nodes
                       ELSE IF scope.tail = 0 THEN [nodes EXCEPT ![scope.parent].firstChild = n + 1]
                       ELSE [nodes EXCEPT ![scope.tail].nextSibling = n + 1]
             rooted == IF inTree THEN [linked EXCEPT ![scope.parent].keyTree = RootAfterInsert(@)] ELSE linked
  <1>1. nodes' = Append(rooted, node)
    <2>1. nodes' = LinkedNodes(type, token, inTree)
      BY DEF LinkNode
    <2>2. LinkedNodes(type, token, inTree) = Append(rooted, node)
      <3>1. CASE inTree
        BY <3>1 DEF LinkedNodes
      <3>2. CASE ~inTree
        BY <3>2 DEF LinkedNodes
      <3> QED
        BY <3>1, <3>2
    <2> QED
      BY <2>1, <2>2
  <1>2. n \in Nat /\ k \in Nat /\ nodes \in [1 .. n -> NodeOf(n, k)]
    OBVIOUS
  <1>3. scopes # <<>> => /\ scope = scopes[Len(scopes)]
                         /\ p = scope.parent
                         /\ scope.parent \in 1 .. n
                         /\ scope.tail \in 0 .. n
    <2> SUFFICES ASSUME scopes # <<>> PROVE scopes[Len(scopes)] \in ScopeOf(n)
      BY DEF Last, ScopeOf, Inner
    <2> QED
      OBVIOUS
  <1>4. (scopes = <<>> => ~inTree) /\ (inTree <=> InTree(token))
    BY DEF IsKey, InObject, InTree
  <1>5. /\ node.type = TypeAs(type, token)
        /\ node.firstChild = 0
        /\ node.keyTree = 0
    BY DEF Node, TypeAs
  <1>6. /\ linked \in [1 .. n -> NodeOf(n + 1, k)]
        /\ \A i \in 1 .. n : /\ linked[i].type = nodes[i].type
                             /\ linked[i].firstChild = IF scopes # <<>> /\ scope.tail = 0 /\ i = p THEN n + 1 ELSE nodes[i].firstChild
                             /\ linked[i].keyTree = nodes[i].keyTree
    <2>0. n + 1 \in Nat /\ n <= n + 1 /\ k <= k /\ n + 1 \in 0 .. n + 1 /\ 0 \in 0 .. k
      BY <1>2
    <2>1. CASE scopes = <<>>
      <3>1. linked = nodes
        BY <2>1
      <3> HIDE DEF linked, n, k
      <3>2. LinksChild(n, k, n + 1, k, n, nodes, 0, 0, 0, linked)
        BY <1>2, <2>0, <3>1 DEF LinksChild, Rows
      <3>3. linked \in [1 .. n -> NodeOf(n + 1, k)]
        BY <3>2, LinkChild
      <3> QED
        BY <2>1, <3>1, <3>3
    <2>2. CASE scopes # <<>> /\ scope.tail = 0
      <3>1. linked = WithChild(nodes, p, n + 1)
        BY <1>3, <2>2 DEF WithChild
      <3> HIDE DEF linked, n, k, p, scope
      <3>2. LinksChild(n, k, n + 1, k, n, nodes, p, n + 1, 0, linked)
        BY <1>2, <2>0, <3>1 DEF LinksChild, Rows
      <3>3. linked \in [1 .. n -> NodeOf(n + 1, k)]
        BY <3>2, LinkChild
      <3>4. SameBut(nodes, linked, n, p, n + 1, nodes[p].keyTree)
        BY <1>2, <3>1, OneLink
      <3> QED
        BY <2>2, <3>3, <3>4 DEF SameBut
    <2>3. CASE scopes # <<>> /\ scope.tail # 0
      <3>1. linked = WithSibling(nodes, scope.tail, n + 1)
        BY <2>3 DEF WithSibling
      <3> HIDE DEF linked, n, k, scope, p
      <3>2. LinksSibling(n, k, n + 1, k, n, nodes, scope.tail, n + 1, linked)
        BY <1>2, <2>0, <3>1 DEF LinksSibling, Rows
      <3>3. linked \in [1 .. n -> NodeOf(n + 1, k)]
        BY <3>2, LinkSibling
      <3>4. SameBut(nodes, linked, n, p, nodes[p].firstChild, nodes[p].keyTree)
        BY <1>2, <3>1, OneLink
      <3> QED
        BY <2>3, <3>3, <3>4 DEF SameBut
    <2> QED
      BY <2>1, <2>2, <2>3
  <1> HIDE DEF linked
  <1>7. /\ rooted = [i \in 1 .. n |-> rooted[i]]
        /\ \A i \in 1 .. n : /\ rooted[i].type = linked[i].type
                             /\ rooted[i].firstChild = linked[i].firstChild
                             /\ rooted[i].keyTree = IF scopes # <<>> /\ i = p THEN RootWith(token) ELSE linked[i].keyTree
    <2>1. CASE ~inTree
      <3>1. rooted = linked
        BY <2>1
      <3>2. RootWith(token) = nodes[p].keyTree
        BY <1>4, <2>1 DEF RootWith
      <3> HIDE DEF rooted, n, k, p
      <3>3. \A i \in 1 .. n : i = p => linked[i].keyTree = nodes[p].keyTree
        BY <1>6
      <3>4. linked = [i \in 1 .. n |-> linked[i]]
        BY <1>6
      <3> QED
        BY <3>1, <3>2, <3>3, <3>4
    <2>2. CASE inTree
      <3> DEFINE w == RootWith(token)
      <3>1. linked[p].keyTree = nodes[p].keyTree /\ p \in 1 .. n /\ scopes # <<>>
        BY <1>3, <1>4, <1>6, <2>2
      <3>2. rooted = WithTree(linked, p, w)
        <4>1. rooted = [linked EXCEPT ![p].keyTree = RootAfterInsert(linked[p].keyTree)]
          BY <1>3, <2>2, <3>1
        <4>2. w = RootAfterInsert(linked[p].keyTree)
          BY <1>4, <2>2, <3>1 DEF RootWith
        <4> HIDE DEF rooted, w, p
        <4> QED
          BY <4>1, <4>2 DEF WithTree
      <3> HIDE DEF rooted, n, k, p, w
      <3>3. SameBut(linked, rooted, n, p, linked[p].firstChild, w)
        BY <1>6, <3>2, OneLink
      <3>4. rooted = [i \in 1 .. n |-> rooted[i]]
        <4>1. linked = [i \in 1 .. n |-> linked[i]]
          BY <1>6
        <4> QED
          BY <3>2, <4>1 DEF WithTree
      <3> QED
        BY <3>1, <3>3, <3>4 DEF SameBut, w
    <2> QED
      BY <2>1, <2>2
  <1> HIDE DEF rooted, node
  <1>8. /\ \A i \in 1 .. n : nodes'[i] = rooted[i]
        /\ nodes'[n + 1] = node
    <2> DEFINE S == {rooted[i] : i \in 1 .. n} \cup {node}
    <2>1. rooted \in [1 .. n -> S] /\ node \in S
      <3>1. \A i \in 1 .. n : rooted[i] \in S
        OBVIOUS
      <3>2. node \in S
        OBVIOUS
      <3> HIDE DEF S
      <3> QED
        BY <1>7, <3>1, <3>2
    <2> HIDE DEF S
    <2> QED
      BY <1>1, <1>2, <2>1, RowAppended
  <1> QED
    BY <1>3, <1>5, <1>6, <1>7, <1>8 DEF LinksNode, n, p, scope

---------------------------------------------------------------------------
(* A key goes into the tree of its object.                                 *)

\* The node a key with this name goes below in the tree with root r.
Over(kt, ns, r, name) == IF r = 0 THEN 0 ELSE PathEnds(kt, ns, name)[r]

\* kt2 is kt with key new of this name in the tree with root r.
KeyPut(kt, ns, r, name, new, kt2) ==
  PoolGrown(kt, kt2, Over(kt, ns, r, name), name < NameIn(ns, kt[Over(kt, ns, r, name)].key), new)

\* Its root then.
Rooted(kt, r) == IF r = 0 THEN Len(kt) + 1 ELSE r

(* key_tree_insert with room.                                              *)
LEMMA InsertedIsPut ==
  ASSUME NEW n, keyTree \in Seq(KeyOf(n, Len(keyTree))), PoolOK(keyTree), ~ TreeIsFull,
         NEW r \in 0 .. Len(keyTree), NEW name, NEW new
  PROVE  KeyPut(keyTree, nodes, r, name, new, Inserted(r, new, name)) /\ RootAfterInsert(r) = Rooted(keyTree, r)
  <1> DEFINE k == Len(keyTree)
             node == KeyNode(new)
  <1>1. k \in Nat /\ node.key = new /\ node.left = 0 /\ node.right = 0
    BY DEF KeyNode
  <1>2. RootAfterInsert(r) = Rooted(keyTree, r)
    BY DEF RootAfterInsert, Rooted
  <1>3. CASE r = 0
    <2>1. Inserted(r, new, name) = Append(keyTree, node) /\ Over(keyTree, nodes, r, name) = 0
      BY <1>3 DEF Inserted, Over
    <2> HIDE DEF node
    <2>2. /\ Len(Append(keyTree, node)) = k + 1
          /\ \A i \in 1 .. k : Append(keyTree, node)[i] = keyTree[i]
          /\ Append(keyTree, node)[k + 1] = node
      BY <1>1
    <2> QED
      BY <1>1, <1>2, <2>1, <2>2 DEF KeyPut, PoolGrown
  <1>4. CASE r # 0
    <2> DEFINE a == PathEnds(keyTree, nodes, name)[r]
               toLeft == name < NameIn(nodes, keyTree[a].key)
               side == IF toLeft THEN "left" ELSE "right"
               tree == [keyTree EXCEPT ![a][side] = k + 1]
    <2>1. r \in 1 .. k
      BY <1>1, <1>4
    <2>2. a \in 1 .. k
      BY <2>1, PathInside
    <2>3. Inserted(r, new, name) = Append(tree, node)
      <3>1. Above(r, name) = a
        BY DEF Above, PathEnds, KeyName
      <3>2. Side(name, KeyName(keyTree[a].key)) = side
        BY DEF Side, KeyName, NameIn
      <3> QED
        BY <1>4, <3>1, <3>2 DEF Inserted
    <2>4. Over(keyTree, nodes, r, name) = a
      BY <1>4 DEF Over
    <2> HIDE DEF a, toLeft, node
    <2>5. ASSUME NEW i \in 1 .. k
          PROVE  /\ tree[i].key = keyTree[i].key
                 /\ tree[i].left = IF i = a /\ toLeft THEN k + 1 ELSE keyTree[i].left
                 /\ tree[i].right = IF i = a /\ ~toLeft THEN k + 1 ELSE keyTree[i].right
      <3>1. keyTree[i] \in KeyOf(n, k)
        BY <1>1
      <3>2. CASE i # a
        BY <3>2
      <3>3. CASE i = a /\ toLeft
        <4>1. tree[i] = [keyTree[i] EXCEPT !.left = k + 1]
          BY <3>3
        <4> HIDE DEF tree
        <4> QED
          BY <3>1, <3>3, <4>1 DEF KeyOf
      <3>4. CASE i = a /\ ~ toLeft
        <4>1. tree[i] = [keyTree[i] EXCEPT !.right = k + 1]
          BY <3>4
        <4> HIDE DEF tree
        <4> QED
          BY <3>1, <3>4, <4>1 DEF KeyOf
      <3> QED
        BY <3>2, <3>3, <3>4
    <2>6. tree = [i \in 1 .. k |-> tree[i]]
      OBVIOUS
    <2> HIDE DEF tree
    <2>7. /\ Len(Append(tree, node)) = k + 1
          /\ \A i \in 1 .. k : Append(tree, node)[i] = tree[i]
          /\ Append(tree, node)[k + 1] = node
      <3> DEFINE S == {tree[i] : i \in 1 .. k} \cup {node}
      <3>1. tree \in [1 .. k -> S] /\ node \in S
        <4>1. (\A i \in 1 .. k : tree[i] \in S) /\ node \in S
          OBVIOUS
        <4> HIDE DEF S
        <4> QED
          BY <2>6, <4>1
      <3> HIDE DEF S
      <3> QED
        BY <1>1, <3>1, RowAppended
    <2>8. PoolGrown(keyTree, Inserted(r, new, name), a, toLeft, new)
      BY <1>1, <2>3, <2>5, <2>7 DEF PoolGrown
    <2> QED
      BY <1>2, <2>4, <2>8 DEF KeyPut, toLeft
  <1> QED
    BY <1>3, <1>4

\* The keys w in order, and another one, that will have this name in ns2.
Awaits(ns, ns2, w, new, name) ==
  /\ \A k \in ToSet(w) : NameIn(ns, k) \in Nat /\ NameIn(ns2, k) = NameIn(ns, k)
  /\ Sorted(ns, w)
  /\ name \in Nat /\ new \in Nat
  /\ NameIn(ns2, new) = name /\ new \notin ToSet(w)

\* The keys w2 in order, those of w and another one.
KeyTaken(ns2, w, w2, new) == Sorted(ns2, w2) /\ ToSet(w2) = ToSet(w) \cup {new}

(* The tree of an object that gets a key more.                             *)
LEMMA TreeWithKey ==
  ASSUME NEW kt, PoolOK(kt), NEW r \in 0 .. Len(kt), NEW ns, NEW ns2, NEW new, NEW name,
         Awaits(ns, ns2, InOrder(kt)[r], new, name), NEW kt2, KeyPut(kt, ns, r, name, new, kt2)
  PROVE  KeyTaken(ns2, InOrder(kt)[r], InOrder(kt2)[Rooted(kt, r)], new)
  <1>0. /\ \A k \in ToSet(InOrder(kt)[r]) : NameIn(ns, k) \in Nat /\ NameIn(ns2, k) = NameIn(ns, k)
        /\ name \in Nat /\ new \in Nat
        /\ NameIn(ns2, new) = name /\ new \notin ToSet(InOrder(kt)[r]) /\ Sorted(ns, InOrder(kt)[r])
    BY DEF Awaits
  <1> DEFINE a == Over(kt, ns, r, name)
             toLeft == name < NameIn(ns, kt[a].key)
             w == InOrder(kt)[r]
  <1>1. PoolGrown(kt, kt2, a, toLeft, new)
    BY DEF KeyPut
  <1>2. CASE r = 0
    <2>1. InOrder(kt2)[Len(kt) + 1] = <<new>>
      BY <1>0, <1>1, PoolGrows
    <2>2. ToSet(<<new>>) = {new} /\ Sorted(ns2, <<new>>)
      BY <1>0, OneElement
    <2>3. w = <<>>
      BY <1>2, InOrderUnfold
    <2>4. ToSet(w) = {}
      BY <2>3 DEF ToSet
    <2>5. Rooted(kt, r) = Len(kt) + 1
      BY <1>2 DEF Rooted
    <2> QED
      BY <2>1, <2>2, <2>4, <2>5 DEF KeyTaken
  <1>3. CASE r # 0
    <2>1. r \in 1 .. Len(kt) /\ Len(kt) \in Nat
      BY <1>3 DEF PoolOK
    <2>2. a = PathEnds(kt, ns, name)[r]
      BY <1>3 DEF Over
    <2>3. w \in Seq(Nat)
      BY <2>1, InOrderUnfold
    <2>4. PutIn(ns, w, InOrder(kt2)[r], new, name)
      <3> HIDE DEF a
      <3> QED
        BY <1>0, <1>1, <2>1, <2>2, KeyPlaced
    <2> HIDE DEF w
    <2>5. PutIn(ns2, w, InOrder(kt2)[r], new, name) /\ Sorted(ns2, w)
      BY <1>0, <2>3, <2>4, SameNames DEF w
    <2>6. \A k \in ToSet(w) : NameIn(ns2, k) \in Nat
      BY <1>0 DEF w
    <2>7. Sorted(ns2, InOrder(kt2)[r]) /\ ToSet(InOrder(kt2)[r]) = ToSet(w) \cup {new}
      <3> DEFINE w2 == InOrder(kt2)[r]
      <3>1. PutIn(ns2, w, w2, new, name) /\ Sorted(ns2, w) /\ new \notin ToSet(w) /\ NameIn(ns2, new) = name
        BY <1>0, <2>5 DEF w
      <3> HIDE DEF w2
      <3>2. Sorted(ns2, w2) /\ ToSet(w2) = ToSet(w) \cup {new}
        BY <1>0, <2>3, <2>6, <3>1, PutFacts
      <3> QED
        BY <3>2 DEF w2
    <2> QED
      BY <1>3, <2>7 DEF Rooted, KeyTaken, w
  <1> QED
    BY <1>2, <1>3

(* The count of leaves of a prefix only grows with it.                     *)
LEMMA ValuesGrow ==
  ASSUME NEW text \in Seq(AnyToken), NEW i \in 0 .. Len(text)
  PROVE  Counts(text)[Len(text)].values >= Counts(text)[i].values
  <1> DEFINE m(j) == Counts(text)[j].values
             T == {j \in i .. Len(text) : ~ (m(j) >= m(i))}
  <1>1. \A j \in 0 .. Len(text) : m(j) \in Nat
    BY CountsUnfold DEF Count
  <1>2. \A j \in 1 .. Len(text) : m(j) >= m(j - 1)
    <2> TAKE j \in 1 .. Len(text)
    <2>1. Counts(text)[j - 1] \in Count /\ text[j] \in AnyToken
      BY CountsUnfold
    <2>2. Adds(Counts(text)[j - 1], text[j], Counts(text)[j])
      <3>1. Counts(text)[j] = Counted(Counts(text)[j - 1], text[j])
        BY CountsUnfold
      <3> QED
        BY <2>1, <3>1, CountedFacts
    <2>3. j \in 0 .. Len(text) /\ j - 1 \in 0 .. Len(text)
      OBVIOUS
    <2>4. m(j) = m(j - 1) + 1 \/ m(j) = m(j - 1)
      BY <2>2 DEF Adds
    <2> QED
      BY <1>1, <2>3, <2>4
  <1> HIDE DEF m
  <1>3. T = {}
    <2> SUFFICES ASSUME T # {} PROVE FALSE
      OBVIOUS
    <2>1. PICK j \in T : \A k \in T : j <= k
      <3>1. T \subseteq Nat
        OBVIOUS
      <3> HIDE DEF T
      <3> QED
        BY <3>1, LeastNat
    <2>2. j # i /\ j \in i .. Len(text) /\ ~ (m(j) >= m(i))
      BY <1>1, <2>1
    <2>3. j - 1 \in i .. Len(text) /\ j - 1 \notin T
      <3>1. j - 1 \in i .. Len(text) /\ j - 1 < j
        BY <2>2
      <3> HIDE DEF T
      <3> QED
        BY <2>1, <2>2, <3>1
    <2>4. m(j - 1) >= m(i)
      BY <2>3
    <2>5. j \in 1 .. Len(text) /\ j \in 0 .. Len(text) /\ j - 1 \in 0 .. Len(text) /\ i \in 0 .. Len(text)
      BY <2>2, <2>3
    <2>6. m(j) >= m(j - 1) /\ m(j) \in Nat /\ m(j - 1) \in Nat /\ m(i) \in Nat
      BY <1>1, <1>2, <2>5
    <2>7. m(j) >= m(i)
      BY <2>4, <2>6
    <2> QED
      BY <2>2, <2>7
  <1> QED
    BY <1>3 DEF m

(* The tables have room for all that was estimated.                        *)
LEMMA CapacityEnough ==
  ASSUME NEW e \in Nat
  PROVE  TableCapacity(e) >= e /\ TableCapacity(e) \in Nat
  <1> DEFINE n == (e * 12) \div 10
  <1>1. n \in Nat /\ n >= e
    OBVIOUS
  <1>2. Doubled(1, n) \in Nat \ {0} /\ Doubled(1, n) >= n
    <2> HIDE DEF n
    <2> QED
      BY <1>1, DoubledEnough
  <1>3. Doubled(1, n) >= e
    <2> HIDE DEF n
    <2> QED
      BY <1>1, <1>2
  <1> QED
    BY <1>2, <1>3 DEF TableCapacity, set_next_power_of_two

\* As many keys as there are strings.
Strings(ns) == Number(ns, "string")

(* The nodes of a type are finitely many.                                  *)
LEMMA NumberIsNat ==
  ASSUME NEW ns, Len(ns) \in Nat, NEW type
  PROVE  /\ IsFiniteSet({i \in 1 .. Len(ns) : ns[i].token.type = type})
         /\ Number(ns, type) \in Nat
  <1> DEFINE all == 1 .. Len(ns)  some == {i \in all : ns[i].token.type = type}
  <1>1. IsFiniteSet(all) /\ some \in SUBSET all
    BY FS_Interval
  <1> HIDE DEF all, some
  <1>2. IsFiniteSet(some) /\ Cardinality(some) \in Nat
    BY <1>1, FS_Subset, FS_CardinalityType
  <1> QED
    BY <1>2 DEF some, all, Number

(* Of the strings estimated the one at hand is not built yet.              *)
LEMMA RoomLeft ==
  ASSUME ParserInv, Current \in Token, Current.type = "string", capacity = TableCapacity(Estimate(doc).values)
  PROVE  Strings(nodes) < capacity
  <1>1. /\ pos \in 1 .. Len(doc) /\ Adds(Read, Current, Counts(doc)[pos])
        /\ doc \in Seq(AnyToken)
    BY CurrentFacts DEF ParserInv, TextOK, Symbols
  <1>2. Counts(doc)[pos].values = Read.values + 1
    <2>1. Current.type \in {"string", "scalar"}
      OBVIOUS
    <2> QED
      BY <1>1, <2>1 DEF Adds
  <1>3. Counts(doc)[Len(doc)].values >= Counts(doc)[pos].values
    <2>1. pos \in 0 .. Len(doc)
      BY <1>1
    <2> QED
      BY <1>1, <2>1, ValuesGrow
  <1>4. /\ Read.values \in Nat /\ Counts(doc)[Len(doc)].values \in Nat
    <2>1. pos - 1 \in 0 .. Len(doc) /\ Len(doc) \in 0 .. Len(doc)
      BY <1>1
    <2>2. Counts(doc)[pos - 1] \in Count /\ Counts(doc)[Len(doc)] \in Count
      BY <1>1, <2>1, CountsUnfold
    <2> QED
      BY <2>2 DEF Read, Count
  <1>5. Number(nodes, "string") + Number(nodes, "scalar") = Read.values
    BY DEF ParserInv, Balanced
  <1>6. Number(nodes, "string") \in Nat /\ Number(nodes, "scalar") \in Nat
    BY NumberIsNat DEF ParserInv, TreeOK
  <1>7. capacity \in Nat /\ capacity >= Estimate(doc).values
    BY <1>4, CapacityEnough DEF Estimate
  <1> DEFINE a == Number(nodes, "string")  b == Number(nodes, "scalar")
             r == Read.values  v == Counts(doc)[Len(doc)].values
  <1>8. a + b = r /\ a \in Nat /\ b \in Nat /\ v >= r + 1 /\ v \in Nat /\ r \in Nat /\ capacity >= v
    BY <1>2, <1>3, <1>4, <1>5, <1>6, <1>7 DEF Estimate
  <1> HIDE DEF a, b, r, v
  <1>9. a < capacity
    BY <1>7, <1>8
  <1> QED
    BY <1>9 DEF a, Strings

---------------------------------------------------------------------------
(* The keys of an object.                                                  *)

\* The keys of an object: its first child, third, and so on.
KeysIn(ns, o) == Odd(Kids(ns, o))

ObjectsIn(ns) == {o \in 1 .. Len(ns) : ns[o].token.type = "{"}

Lost(ns, k) == ns[k].type = "SKIPPED"

\* It is in the tree of its object.
EntersTree(ns, k) == ~ Lost(ns, k) /\ NameIn(ns, k) \notin HugeName

\* Its object had key k before, if it is no long one.
HadBefore(ns, o, k) ==
  NameIn(ns, k) \notin LongName /\ \E b \in KeysIn(ns, o) : b < k /\ NameIn(ns, b) = NameIn(ns, k)

\* What is right of key k of object o.
KeyOK(ns, o, k) ==
  /\ ns[k].token.type = "string" /\ NameIn(ns, k) \in Nat
  /\ Lost(ns, k) <=> HadBefore(ns, o, k)
  /\ ns[k].nextSibling # 0 => (Lost(ns, ns[k].nextSibling) <=> Lost(ns, k))

\* What the tree of object o has to be.
OrderedIn(ns, kt, o) ==
  /\ Sorted(ns, InOrder(kt)[ns[o].keyTree])
  /\ ToSet(InOrder(kt)[ns[o].keyTree]) = {k \in KeysIn(ns, o) : EntersTree(ns, k)}

\* What is right of object o.
ObjectOK(ns, kt, o) ==
  /\ \A k \in KeysIn(ns, o) : KeyOK(ns, o, k)
  /\ ns[o].keyTree \in 0 .. Len(kt)
  /\ OrderedIn(ns, kt, o)

\* A node of type ty with token t is linked behind the innermost scope.
LinkedAs(ns, sc, ns2, t, ty, w) ==
  /\ KidsOK(ns, sc) /\ TreeOK(ns, sc)
  /\ Extends(ns, sc, ns2, t) /\ LinksNode(ns, sc, ns2, ty, w)

(* The keys of an object are nodes below it.                               *)
LEMMA KeysBelow ==
  ASSUME NEW ns, NEW sc, KidsOK(ns, sc), NEW o \in 1 .. Len(ns)
  PROVE  /\ KeysIn(ns, o) \subseteq 1 .. Len(ns)
         /\ \A k \in KeysIn(ns, o) : /\ ns[k].parent = o
                                     /\ \E i \in 1 .. Len(Kids(ns, o)) : i % 2 = 1 /\ k = Kids(ns, o)[i]
  <1>1. Chain(ns, o, Kids(ns, o))
    BY DEF KidsOK
  <1>2. Kids(ns, o) \in Seq(1 .. Len(ns)) /\ \A i \in 1 .. Len(Kids(ns, o)) : ns[Kids(ns, o)[i]].parent = o
    BY <1>1 DEF Chain
  <1> DEFINE X == 1 .. Len(ns)
  <1>3. Odd(Kids(ns, o)) \subseteq X /\ \A k \in Odd(Kids(ns, o)) : \E i \in 1 .. Len(Kids(ns, o)) : i % 2 = 1 /\ k = Kids(ns, o)[i]
    <2> HIDE DEF X
    <2>1. Kids(ns, o) \in Seq(X)
      BY <1>2 DEF X
    <2> QED
      BY <2>1, OddFacts
  <1> QED
    BY <1>2, <1>3 DEF KeysIn

(* A node linked where a key is due is a key of that object.               *)
LEMMA KeysLinked ==
  ASSUME NEW ns, NEW sc, NEW ns2, NEW t, NEW ty, NEW w, LinkedAs(ns, sc, ns2, t, ty, w)
  PROVE  /\ KeysIn(ns2, Len(ns) + 1) = {}
         /\ \A o \in 1 .. Len(ns) :
              KeysIn(ns2, o) = IF sc # <<>> /\ o = sc[Len(sc)].parent /\ sc[Len(sc)].count % 2 = 0
                               THEN KeysIn(ns, o) \cup {Len(ns) + 1} ELSE KeysIn(ns, o)
  <1> DEFINE n == Len(ns)
  <1>0. n \in Nat
    BY DEF LinkedAs, TreeOK
  <1>1. \A o \in 1 .. n + 1 : Kids(ns2, o) = KidsWith(ns, sc, o)
    BY KidsLinked DEF LinkedAs
  <1>2. KeysIn(ns2, n + 1) = {}
    <2>1. n + 1 \in 1 .. n + 1
      BY <1>0
    <2>2. Kids(ns2, n + 1) = <<>>
      BY <1>1, <2>1 DEF KidsWith
    <2> QED
      BY <2>2 DEF KeysIn, Odd
  <1>3. ASSUME NEW o \in 1 .. n
        PROVE  KeysIn(ns2, o) = IF sc # <<>> /\ o = sc[Len(sc)].parent /\ sc[Len(sc)].count % 2 = 0
                                THEN KeysIn(ns, o) \cup {n + 1} ELSE KeysIn(ns, o)
    <2>1. o \in 1 .. n + 1 /\ o # n + 1
      BY <1>0
    <2>2. CASE ~ (sc # <<>> /\ o = sc[Len(sc)].parent)
      <3>1. Kids(ns2, o) = Kids(ns, o)
        BY <1>1, <2>1, <2>2 DEF KidsWith
      <3> QED
        BY <2>2, <3>1 DEF KeysIn
    <2>3. CASE sc # <<>> /\ o = sc[Len(sc)].parent
      <3> DEFINE c == Kids(ns, o)  X == 1 .. n + 1
      <3>1. Kids(ns2, o) = Append(c, n + 1)
        BY <1>1, <2>1, <2>3 DEF KidsWith
      <3>2. c \in Seq(1 .. n) /\ Len(c) = sc[Len(sc)].count
        BY <2>3, TailIsLast DEF LinkedAs
      <3>3. c \in Seq(X) /\ n + 1 \in X
        BY <1>0, <3>2
      <3> HIDE DEF X, c
      <3>4. Odd(Append(c, n + 1)) = IF Len(c) % 2 = 0 THEN Odd(c) \cup {n + 1} ELSE Odd(c)
        BY <3>3, OddAppend
      <3> QED
        BY <2>3, <3>1, <3>2, <3>4 DEF KeysIn, c
    <2> QED
      BY <2>2, <2>3
  <1> QED
    BY <1>2, <1>3

\* What stays as it was of a node.
SameNode(ns, ns2, k) ==
  /\ ns2[k].token = ns[k].token /\ ns2[k].type = ns[k].type
  /\ ns2[k].nextSibling = ns[k].nextSibling
  /\ ns[k].nextSibling # 0 => ns2[ns[k].nextSibling].type = ns[ns[k].nextSibling].type

(* Only the last child of the innermost scope is linked on.                *)
LEMMA OthersSame ==
  ASSUME NEW ns, NEW sc, NEW ns2, NEW t, NEW ty, NEW w, LinkedAs(ns, sc, ns2, t, ty, w),
         NEW k \in 1 .. Len(ns), sc = <<>> \/ k # sc[Len(sc)].tail
  PROVE  SameNode(ns, ns2, k)
  <1>1. /\ ns2[k].token = ns[k].token /\ ns2[k].type = ns[k].type
        /\ ns2[k].nextSibling = ns[k].nextSibling
    BY DEF LinkedAs, Extends, LinksNode
  <1>2. ASSUME ns[k].nextSibling # 0 PROVE ns2[ns[k].nextSibling].type = ns[ns[k].nextSibling].type
    <2>1. ns[k].nextSibling \in 1 .. Len(ns)
      <3>1. Len(ns) \in Nat /\ ns[k].nextSibling \in Onward(k, Len(ns))
        BY DEF LinkedAs, KidsOK, SiblingsOK
      <3> QED
        BY <1>2, <3>1 DEF Onward
    <2> QED
      BY <2>1 DEF LinkedAs, LinksNode
  <1> QED
    BY <1>1, <1>2 DEF SameNode

(* A key that stays as it was among the same earlier ones.                 *)
LEMMA KeyStays ==
  ASSUME NEW ns, NEW ns2, NEW o, NEW k \in KeysIn(ns, o), KeyOK(ns, o, k), SameNode(ns, ns2, k),
         NEW m \in Nat, KeysIn(ns, o) \subseteq 1 .. m, KeysIn(ns2, o) \in {KeysIn(ns, o), KeysIn(ns, o) \cup {m + 1}},
         \A b \in 1 .. m : ns2[b].token = ns[b].token
  PROVE  KeyOK(ns2, o, k)
  <1>1. k \in 1 .. m
    OBVIOUS
  <1>2. \A b \in 1 .. m : NameIn(ns2, b) = NameIn(ns, b)
    BY DEF NameIn
  <1>3. \A b : b \in KeysIn(ns2, o) /\ b < k <=> b \in KeysIn(ns, o) /\ b < k
    BY <1>1
  <1>4. HadBefore(ns2, o, k) <=> HadBefore(ns, o, k)
    BY <1>1, <1>2, <1>3 DEF HadBefore
  <1>5. Lost(ns2, k) <=> Lost(ns, k)
    BY DEF SameNode, Lost
  <1>6. /\ ns2[k].nextSibling = ns[k].nextSibling
        /\ ns[k].nextSibling # 0 => (Lost(ns2, ns[k].nextSibling) <=> Lost(ns, ns[k].nextSibling))
        /\ ns2[k].token = ns[k].token
    BY DEF SameNode, Lost
  <1> QED
    BY <1>1, <1>2, <1>4, <1>5, <1>6 DEF KeyOK

(* An object that is not the innermost, and whose tree is left alone.      *)
LEMMA OtherObject ==
  ASSUME NEW ns, NEW sc, NEW ns2, NEW t, NEW ty, NEW w, LinkedAs(ns, sc, ns2, t, ty, w),
         NEW kt, PoolOK(kt), NEW kt2, NEW o \in 1 .. Len(ns), sc = <<>> \/ o # sc[Len(sc)].parent,
         ObjectOK(ns, kt, o), InOrder(kt2)[ns[o].keyTree] = InOrder(kt)[ns[o].keyTree],
         Len(kt) <= Len(kt2), Len(kt2) \in Nat
  PROVE  ObjectOK(ns2, kt2, o)
  <1> DEFINE n == Len(ns)  r == ns[o].keyTree
  <1>0. n \in Nat /\ Len(kt) \in Nat
    BY DEF LinkedAs, TreeOK, PoolOK
  <1>1. KeysIn(ns2, o) = KeysIn(ns, o)
    BY KeysLinked
  <1>2. KeysIn(ns, o) \subseteq 1 .. n /\ \A k \in KeysIn(ns, o) : ns[k].parent = o
    BY KeysBelow DEF LinkedAs
  <1>3. \A b \in 1 .. n : ns2[b].token = ns[b].token
    BY DEF LinkedAs, Extends
  <1>4. ASSUME NEW k \in KeysIn(ns, o) PROVE SameNode(ns, ns2, k)
    <2>1. sc = <<>> \/ k # sc[Len(sc)].tail
      <3>1. ASSUME sc # <<>>, k = sc[Len(sc)].tail PROVE FALSE
        <4>1. k # 0 /\ ns[k].parent = o
          BY <1>0, <1>2
        <4>2. ns[k].parent = sc[Len(sc)].parent
          BY <3>1, <4>1, TailIsLast DEF LinkedAs
        <4> QED
          BY <3>1, <4>1, <4>2
      <3> QED
        BY <3>1
    <2>2. k \in 1 .. n
      BY <1>2
    <2> QED
      BY <2>1, <2>2, OthersSame
  <1>5. ASSUME NEW k \in KeysIn(ns2, o) PROVE KeyOK(ns2, o, k)
    <2>1. k \in KeysIn(ns, o)
      BY <1>1
    <2>2. KeyOK(ns, o, k)
      BY <2>1 DEF ObjectOK
    <2> QED
      BY <1>0, <1>1, <1>2, <1>3, <1>4, <2>1, <2>2, KeyStays
  <1>6. ns2[o].keyTree = r
    BY DEF LinkedAs, LinksNode
  <1>7. r \in 0 .. Len(kt) /\ InOrder(kt)[r] \in Seq(Nat)
    BY InOrderUnfold DEF ObjectOK
  <1>8. OrderedIn(ns, kt, o)
    BY DEF ObjectOK
  <1>9. ToSet(InOrder(kt)[r]) \subseteq KeysIn(ns, o)
    BY <1>8 DEF OrderedIn
  <1>10. \A k \in KeysIn(ns, o) : NameIn(ns2, k) = NameIn(ns, k) /\ (Lost(ns2, k) <=> Lost(ns, k))
    BY <1>4 DEF SameNode, NameIn, Lost
  <1>11. Sorted(ns2, InOrder(kt)[r])
    <2>1. \A k \in ToSet(InOrder(kt)[r]) : NameIn(ns2, k) = NameIn(ns, k)
      BY <1>9, <1>10
    <2>2. Sorted(ns, InOrder(kt)[r])
      BY <1>8 DEF OrderedIn
    <2> QED
      BY <1>7, <2>1, <2>2, SameNames
  <1>12. {k \in KeysIn(ns2, o) : EntersTree(ns2, k)} = {k \in KeysIn(ns, o) : EntersTree(ns, k)}
    BY <1>1, <1>10 DEF EntersTree
  <1>13. OrderedIn(ns2, kt2, o)
    BY <1>6, <1>8, <1>11, <1>12 DEF OrderedIn
  <1>14. r \in 0 .. Len(kt2)
    <2> DEFINE j == Len(kt)  j2 == Len(kt2)
    <2>1. r \in 0 .. j /\ j <= j2 /\ j \in Nat /\ j2 \in Nat
      BY <1>0, <1>7
    <2> HIDE DEF j, j2, r
    <2>2. r \in 0 .. j2
      BY <2>1
    <2> QED
      BY <2>2 DEF j2
  <1> QED
    BY <1>5, <1>6, <1>13, <1>14 DEF ObjectOK

(* An object just linked has no keys.                                      *)
LEMMA NewObject ==
  ASSUME NEW ns, NEW sc, NEW ns2, NEW t, NEW ty, NEW w, LinkedAs(ns, sc, ns2, t, ty, w), NEW kt2, PoolOK(kt2)
  PROVE  ObjectOK(ns2, kt2, Len(ns) + 1)
  <1>1. KeysIn(ns2, Len(ns) + 1) = {}
    BY KeysLinked
  <1>2. ns2[Len(ns) + 1].keyTree = 0
    BY DEF LinkedAs, LinksNode
  <1>3. InOrder(kt2)[0] = <<>> /\ 0 \in 0 .. Len(kt2)
    <2>1. Len(kt2) \in Nat
      BY DEF PoolOK
    <2>2. InOrder(kt2)[0] = <<>>
      BY InOrderUnfold
    <2> QED
      BY <2>1, <2>2
  <1>4. OrderedIn(ns2, kt2, Len(ns) + 1)
    <2>1. ToSet(<<>>) = {}
      BY DEF ToSet
    <2>2. Sorted(ns2, <<>>)
      BY DEF Sorted
    <2> QED
      BY <1>1, <1>2, <1>3, <2>1, <2>2 DEF OrderedIn
  <1> QED
    BY <1>1, <1>2, <1>3, <1>4 DEF ObjectOK

(* A value linked to an object is skipped when its key is.                 *)
LEMMA ValueLinked ==
  ASSUME NEW ns, NEW sc, NEW ns2, NEW t, NEW ty, NEW w, LinkedAs(ns, sc, ns2, t, ty, w),
         NEW kt, PoolOK(kt), sc # <<>>, sc[Len(sc)].count % 2 = 1,
         NEW o, o = sc[Len(sc)].parent, ObjectOK(ns, kt, o), w = ns[o].keyTree,
         ty = "SKIPPED" <=> sc[Len(sc)].tail # 0 /\ Lost(ns, sc[Len(sc)].tail)
  PROVE  ObjectOK(ns2, kt, o)
  <1> DEFINE n == Len(ns)  tail == sc[Len(sc)].tail
  <1>0. n \in Nat /\ o \in 1 .. n
    BY TailIsLast DEF LinkedAs, TreeOK
  <1>1. KeysIn(ns2, o) = KeysIn(ns, o)
    <2>1. ~ (sc[Len(sc)].count % 2 = 0)
      BY TailIsLast, Parity DEF LinkedAs
    <2> QED
      BY <1>0, <2>1, KeysLinked
  <1>2. KeysIn(ns, o) \subseteq 1 .. n
    BY <1>0, KeysBelow DEF LinkedAs
  <1>3. \A b \in 1 .. n : ns2[b].token = ns[b].token /\ ns2[b].type = ns[b].type
    BY DEF LinkedAs, Extends, LinksNode
  <1>4. ASSUME NEW k \in KeysIn(ns, o) PROVE KeyOK(ns2, o, k)
    <2>0. k \in 1 .. n /\ KeyOK(ns, o, k)
      BY <1>2 DEF ObjectOK
    <2>1. CASE k # tail
      <3>1. SameNode(ns, ns2, k)
        BY <2>0, <2>1, OthersSame
      <3> QED
        BY <1>0, <1>1, <1>2, <1>3, <2>0, <3>1, KeyStays
    <2>2. CASE k = tail
      <3>1. ns2[k].nextSibling = n + 1 /\ k # 0
        BY <2>0, <2>2 DEF LinkedAs, Extends
      <3>2. ns2[n + 1].type = ty
        BY DEF LinkedAs, LinksNode
      <3>3. Lost(ns2, n + 1) <=> Lost(ns2, k)
        BY <1>3, <2>0, <2>2, <3>1, <3>2 DEF Lost
      <3>4. HadBefore(ns2, o, k) <=> HadBefore(ns, o, k)
        BY <1>1, <1>2, <1>3 DEF HadBefore, NameIn
      <3> QED
        BY <1>3, <2>0, <3>1, <3>3, <3>4 DEF KeyOK, Lost, NameIn
    <2> QED
      BY <2>1, <2>2
  <1>5. ns2[o].keyTree = ns[o].keyTree
    BY <1>0 DEF LinkedAs, LinksNode
  <1>6. ns[o].keyTree \in 0 .. Len(kt) /\ InOrder(kt)[ns[o].keyTree] \in Seq(Nat) /\ OrderedIn(ns, kt, o)
    BY InOrderUnfold DEF ObjectOK
  <1>7. ToSet(InOrder(kt)[ns[o].keyTree]) \subseteq KeysIn(ns, o)
    BY <1>6 DEF OrderedIn
  <1>8. Sorted(ns2, InOrder(kt)[ns[o].keyTree])
    <2>1. \A k \in ToSet(InOrder(kt)[ns[o].keyTree]) : NameIn(ns2, k) = NameIn(ns, k)
      BY <1>2, <1>3, <1>7 DEF NameIn
    <2>2. Sorted(ns, InOrder(kt)[ns[o].keyTree])
      BY <1>6 DEF OrderedIn
    <2> QED
      BY <1>6, <2>1, <2>2, SameNames
  <1>9. {k \in KeysIn(ns2, o) : EntersTree(ns2, k)} = {k \in KeysIn(ns, o) : EntersTree(ns, k)}
    BY <1>1, <1>2, <1>3 DEF EntersTree, Lost, NameIn
  <1>10. OrderedIn(ns2, kt, o)
    BY <1>5, <1>6, <1>8, <1>9 DEF OrderedIn
  <1> QED
    BY <1>1, <1>4, <1>5, <1>6, <1>10 DEF ObjectOK

\* What becomes of the tree with a key of type ty.
TreeTakes(kt, ns, r, t, n, ty, kt2, w) ==
  IF ty = "SKIPPED" \/ t.name \in HugeName THEN kt2 = kt /\ w = r
  ELSE KeyPut(kt, ns, r, t.name, n, kt2) /\ w = Rooted(kt, r)

(* The tail of an object with whole pairs is a value.                      *)
LEMMA TailIsNoKey ==
  ASSUME NEW ns, NEW sc, KidsOK(ns, sc), TreeOK(ns, sc), sc # <<>>, sc[Len(sc)].count % 2 = 0
  PROVE  sc[Len(sc)].tail \notin KeysIn(ns, sc[Len(sc)].parent)
  <1> DEFINE o == sc[Len(sc)].parent  c == Kids(ns, o)  m == sc[Len(sc)].count  tail == sc[Len(sc)].tail
  <1> SUFFICES ASSUME tail \in KeysIn(ns, o) PROVE FALSE
    OBVIOUS
  <1>1. o \in 1 .. Len(ns) /\ Len(c) = m /\ m \in Nat
    BY TailIsLast
  <1>2. PICK i \in 1 .. m : i % 2 = 1 /\ tail = c[i]
    BY <1>1, KeysBelow
  <1>3. i # m /\ i + 1 \in 1 .. m /\ i \in Nat
    <2>1. i # m
      BY <1>1, <1>2, Parity
    <2> HIDE DEF m
    <2>2. i \in 1 .. m /\ m \in Nat
      BY <1>1, <1>2
    <2> QED
      BY <2>1, <2>2
  <1>4. Chain(ns, o, c)
    BY <1>1 DEF KidsOK
  <1>5. ns[c[i]].nextSibling = c[i + 1] /\ c[i + 1] \in 1 .. Len(ns) /\ c[i] \in 1 .. Len(ns)
    <2>1. c \in Seq(1 .. Len(ns))
      BY <1>4 DEF Chain
    <2>2. c[i + 1] \in 1 .. Len(ns) /\ c[i] \in 1 .. Len(ns)
      <3> DEFINE X == 1 .. Len(ns)
      <3> HIDE DEF X, c, m
      <3>1. c \in Seq(X) /\ i + 1 \in 1 .. Len(c) /\ i \in 1 .. Len(c)
        BY <1>1, <1>2, <1>3, <2>1 DEF X
      <3> QED
        BY <3>1, ElementOfSeq DEF X
    <2> QED
      BY <1>1, <1>2, <1>3, <1>4, <2>2 DEF Chain
  <1>6. tail # 0
    BY <1>2, <1>5
  <1>7. ns[tail].nextSibling = 0
    BY <1>6, TailIsLast
  <1> QED
    BY <1>2, <1>5, <1>7

(* A key linked to an object is skipped, or goes into its tree.            *)
LEMMA KeyLinked ==
  ASSUME NEW ns, NEW sc, NEW ns2, NEW t, NEW ty, NEW w, LinkedAs(ns, sc, ns2, t, ty, w),
         NEW kt, PoolOK(kt), NEW kt2, PoolOK(kt2), sc # <<>>, sc[Len(sc)].count % 2 = 0,
         NEW o, o = sc[Len(sc)].parent, ObjectOK(ns, kt, o), t.type = "string", t.name \in Nat,
         ty = "SKIPPED" <=> t.name \notin LongName /\ \E b \in KeysIn(ns, o) : NameIn(ns, b) = t.name,
         TreeTakes(kt, ns, ns[o].keyTree, t, Len(ns) + 1, ty, kt2, w)
  PROVE  ObjectOK(ns2, kt2, o)
  <1> DEFINE n == Len(ns)  r == ns[o].keyTree  had == KeysIn(ns, o)
  <1>0. n \in Nat /\ o \in 1 .. n /\ o \in 1 .. n + 1
    BY TailIsLast DEF LinkedAs, TreeOK
  <1>1. KeysIn(ns2, o) = had \cup {n + 1}
    BY <1>0, KeysLinked
  <1>2. had \subseteq 1 .. n
    BY <1>0, KeysBelow DEF LinkedAs
  <1>3. /\ \A b \in 1 .. n : ns2[b].token = ns[b].token /\ ns2[b].type = ns[b].type
        /\ ns2[n + 1].token = t /\ ns2[n + 1].type = ty /\ ns2[n + 1].nextSibling = 0
        /\ ns2[o].keyTree = w
    BY <1>0 DEF LinkedAs, Extends, LinksNode
  <1>4. ASSUME NEW k \in had PROVE KeyOK(ns2, o, k)
    <2>1. k \in 1 .. n /\ KeyOK(ns, o, k)
      BY <1>2 DEF ObjectOK
    <2>2. k # sc[Len(sc)].tail
      BY TailIsNoKey DEF LinkedAs
    <2>3. SameNode(ns, ns2, k)
      BY <2>1, <2>2, OthersSame
    <2> QED
      BY <1>0, <1>1, <1>2, <1>3, <2>1, <2>3, KeyStays
  <1>5. \A b \in had : NameIn(ns2, b) = NameIn(ns, b) /\ (Lost(ns2, b) <=> Lost(ns, b))
    BY <1>2, <1>3 DEF NameIn, Lost
  <1>6. NameIn(ns2, n + 1) = t.name /\ (Lost(ns2, n + 1) <=> ty = "SKIPPED")
    BY <1>3 DEF NameIn, Lost
  <1>7. KeyOK(ns2, o, n + 1)
    <2>1. \A b \in had : b < n + 1
      BY <1>0, <1>2
    <2>2. ~ (n + 1 < n + 1)
      BY <1>0
    <2>3. HadBefore(ns2, o, n + 1) <=> t.name \notin LongName /\ \E b \in had : NameIn(ns, b) = t.name
      BY <1>1, <1>5, <1>6, <2>1, <2>2 DEF HadBefore
    <2> QED
      BY <1>3, <1>6, <2>3 DEF KeyOK
  <1>8. r \in 0 .. Len(kt) /\ InOrder(kt)[r] \in Seq(Nat) /\ OrderedIn(ns, kt, o) /\ Len(kt) \in Nat
    BY InOrderUnfold DEF ObjectOK, PoolOK
  <1>9. Sorted(ns, InOrder(kt)[r]) /\ ToSet(InOrder(kt)[r]) = {k \in had : EntersTree(ns, k)}
    BY <1>8 DEF OrderedIn
  <1>10. \A k \in ToSet(InOrder(kt)[r]) : NameIn(ns, k) \in Nat /\ NameIn(ns2, k) = NameIn(ns, k)
    BY <1>5, <1>9 DEF ObjectOK, KeyOK
  <1>11. n + 1 \notin had
    BY <1>0, <1>2
  <1>12. OrderedIn(ns2, kt2, o) /\ w \in 0 .. Len(kt2)
    <2>1. CASE ty = "SKIPPED" \/ t.name \in HugeName
      <3>1. kt2 = kt /\ w = r
        BY <2>1 DEF TreeTakes
      <3>2. Sorted(ns2, InOrder(kt)[r])
        BY <1>8, <1>9, <1>10, SameNames
      <3>3. {k \in KeysIn(ns2, o) : EntersTree(ns2, k)} = {k \in had : EntersTree(ns, k)}
        BY <1>1, <1>5, <1>6, <2>1 DEF EntersTree
      <3> QED
        BY <1>3, <1>8, <1>9, <3>1, <3>2, <3>3 DEF OrderedIn
    <2>2. CASE ~ (ty = "SKIPPED" \/ t.name \in HugeName)
      <3>1. KeyPut(kt, ns, r, t.name, n + 1, kt2) /\ w = Rooted(kt, r)
        BY <2>2 DEF TreeTakes
      <3>2. n + 1 \notin ToSet(InOrder(kt)[r]) /\ n + 1 \in Nat
        BY <1>0, <1>9, <1>11
      <3>3. /\ Sorted(ns2, InOrder(kt2)[Rooted(kt, r)])
            /\ ToSet(InOrder(kt2)[Rooted(kt, r)]) = ToSet(InOrder(kt)[r]) \cup {n + 1}
        <4> DEFINE w1 == InOrder(kt)[r]  w2 == InOrder(kt2)[Rooted(kt, r)]  q == n + 1
        <4>1. Awaits(ns, ns2, w1, q, t.name)
          BY <1>6, <1>9, <1>10, <3>2 DEF Awaits
        <4>2. KeyTaken(ns2, w1, w2, q)
          BY <1>8, <3>1, <4>1, TreeWithKey
        <4> QED
          BY <4>2 DEF KeyTaken
      <3>4. {k \in KeysIn(ns2, o) : EntersTree(ns2, k)} = {k \in had : EntersTree(ns, k)} \cup {n + 1}
        BY <1>1, <1>5, <1>6, <1>11, <2>2 DEF EntersTree
      <3>5. Rooted(kt, r) \in 0 .. Len(kt2)
        <4> DEFINE j == Len(kt)  j2 == Len(kt2)
        <4>1. j \in Nat /\ j2 = j + 1 /\ r \in 0 .. j
          BY <1>8, <3>1 DEF KeyPut, PoolGrown
        <4> HIDE DEF j, j2, r
        <4>2. (IF r = 0 THEN j + 1 ELSE r) \in 0 .. j2
          BY <4>1
        <4> QED
          BY <4>2 DEF Rooted, j, j2, r
      <3> QED
        BY <1>3, <1>9, <3>1, <3>3, <3>4, <3>5 DEF OrderedIn
    <2> QED
      BY <2>1, <2>2
  <1> QED
    BY <1>1, <1>3, <1>4, <1>7, <1>12 DEF ObjectOK

---------------------------------------------------------------------------
(* What is in the set of keys.                                             *)

\* The keys that are not too long, each with the number of its object.
ShortKeys(ns) ==
  UNION {{<<o, NameIn(ns, k)>> : k \in {k \in KeysIn(ns, o) : NameIn(ns, k) \notin LongName}} : o \in ObjectsIn(ns)}

(* A key is there when one of its object's has the name.                   *)
LEMMA ShortKeysIs ==
  ASSUME NEW ns
  PROVE  /\ \A o \in ObjectsIn(ns) : \A name :
              <<o, name>> \in ShortKeys(ns) <=> name \notin LongName /\ \E k \in KeysIn(ns, o) : NameIn(ns, k) = name
         /\ \A key \in ShortKeys(ns) :
              \E o \in ObjectsIn(ns) : \E k \in KeysIn(ns, o) : NameIn(ns, k) \notin LongName /\ key = <<o, NameIn(ns, k)>>
  <1>1. ASSUME NEW key
        PROVE  key \in ShortKeys(ns) <=>
                 \E o \in ObjectsIn(ns) : \E k \in KeysIn(ns, o) : NameIn(ns, k) \notin LongName /\ key = <<o, NameIn(ns, k)>>
    BY DEF ShortKeys
  <1>2. ASSUME NEW o \in ObjectsIn(ns), NEW name
        PROVE  <<o, name>> \in ShortKeys(ns) <=> name \notin LongName /\ \E k \in KeysIn(ns, o) : NameIn(ns, k) = name
    <2>1. \A q, m : <<o, name>> = <<q, m>> <=> o = q /\ name = m
      OBVIOUS
    <2>2. <<o, name>> \in ShortKeys(ns) <=>
            \E q \in ObjectsIn(ns) : \E k \in KeysIn(ns, q) : NameIn(ns, k) \notin LongName /\ <<o, name>> = <<q, NameIn(ns, k)>>
      BY <1>1
    <2> QED
      BY <2>1, <2>2, <1>2
  <1> QED
    BY <1>1, <1>2

(* They are no more than the strings.                                      *)
LEMMA FewKeys ==
  ASSUME NEW ns, NEW sc, KidsOK(ns, sc), \A o \in ObjectsIn(ns) : \A k \in KeysIn(ns, o) : ns[k].token.type = "string"
  PROVE  IsFiniteSet(ShortKeys(ns)) /\ Cardinality(ShortKeys(ns)) <= Strings(ns)
  <1> DEFINE S == {k \in 1 .. Len(ns) : ns[k].token.type = "string"}
             f == [k \in S |-> <<ns[k].parent, NameIn(ns, k)>>]
             T == {f[x] : x \in S}
  <1>1. IsFiniteSet(S) /\ Cardinality(S) = Strings(ns)
    <2>1. Len(ns) \in Nat
      BY DEF KidsOK, SiblingsOK
    <2> QED
      BY <2>1, NumberIsNat DEF Strings, Number
  <1>2. DOMAIN f = S /\ f = [k \in S |-> f[k]] /\ \A k \in S : f[k] = <<ns[k].parent, NameIn(ns, k)>>
    OBVIOUS
  <1> HIDE DEF f
  <1>6. ShortKeys(ns) \subseteq T
    <2> SUFFICES ASSUME NEW key \in ShortKeys(ns) PROVE key \in T
      OBVIOUS
    <2>1. PICK o \in ObjectsIn(ns) : \E k \in KeysIn(ns, o) : key = <<o, NameIn(ns, k)>>
      BY ShortKeysIs
    <2>2. PICK k \in KeysIn(ns, o) : key = <<o, NameIn(ns, k)>>
      BY <2>1
    <2>3. o \in 1 .. Len(ns)
      BY DEF ObjectsIn
    <2>4. k \in 1 .. Len(ns) /\ ns[k].parent = o
      BY <2>3, KeysBelow
    <2>5. ns[k].token.type = "string"
      OBVIOUS
    <2>6. k \in S /\ key = f[k]
      BY <1>2, <2>2, <2>4, <2>5
    <2>7. \E x \in S : key = f[x]
      BY <2>6
    <2> QED
      BY <2>7
  <1> HIDE DEF S
  <1>3. IsFiniteSet(T) /\ Cardinality(T) <= Cardinality(S) /\ Cardinality(T) \in Nat /\ Cardinality(S) \in Nat
    <2>1. f \in Surjection(S, T)
      BY <1>2 DEF Surjection
    <2> HIDE DEF T
    <2>2. IsFiniteSet(T) /\ Cardinality(T) <= Cardinality(S)
      BY <1>1, <2>1, FS_Surjection
    <2> QED
      BY <1>1, <2>2, FS_CardinalityType
  <1> HIDE DEF T
  <1>4. IsFiniteSet(ShortKeys(ns)) /\ Cardinality(ShortKeys(ns)) <= Cardinality(T) /\ Cardinality(ShortKeys(ns)) \in Nat
    <2>1. ShortKeys(ns) \in SUBSET T
      BY <1>6
    <2> QED
      BY <1>3, <2>1, FS_Subset, FS_CardinalityType
  <1> QED
    BY <1>1, <1>3, <1>4

(* A key linked is a key more, if it is no long one.                       *)
LEMMA ShortKeysGrow ==
  ASSUME NEW ns, NEW sc, NEW ns2, NEW t, NEW ty, NEW w, LinkedAs(ns, sc, ns2, t, ty, w)
  PROVE  ShortKeys(ns2) =
           IF /\ sc # <<>> /\ sc[Len(sc)].parent \in ObjectsIn(ns) /\ sc[Len(sc)].count % 2 = 0
              /\ t.name \notin LongName
           THEN ShortKeys(ns) \cup {<<sc[Len(sc)].parent, t.name>>} ELSE ShortKeys(ns)
  <1> DEFINE n == Len(ns)  p == sc[Len(sc)].parent
             due == sc # <<>> /\ p \in ObjectsIn(ns) /\ sc[Len(sc)].count % 2 = 0
             short(ms, o) == {<<o, NameIn(ms, k)>> : k \in {k \in KeysIn(ms, o) : NameIn(ms, k) \notin LongName}}
  <1>0. n \in Nat /\ Len(ns2) = n + 1
    BY DEF LinkedAs, TreeOK, Extends
  <1>1. /\ \A i \in 1 .. n : ns2[i].token = ns[i].token
        /\ ns2[n + 1].token = t
    BY DEF LinkedAs, Extends
  <1>2. /\ KeysIn(ns2, n + 1) = {}
        /\ \A o \in ObjectsIn(ns) : KeysIn(ns2, o) = IF due /\ o = p THEN KeysIn(ns, o) \cup {n + 1} ELSE KeysIn(ns, o)
    <2>1. ObjectsIn(ns) \subseteq 1 .. n
      BY DEF ObjectsIn
    <2>2. ASSUME NEW o \in ObjectsIn(ns)
          PROVE  KeysIn(ns2, o) = IF due /\ o = p THEN KeysIn(ns, o) \cup {n + 1} ELSE KeysIn(ns, o)
      <3>1. KeysIn(ns2, o) = IF sc # <<>> /\ o = p /\ sc[Len(sc)].count % 2 = 0
                             THEN KeysIn(ns, o) \cup {n + 1} ELSE KeysIn(ns, o)
        BY <2>1, KeysLinked
      <3> QED
        BY <2>2, <3>1
    <2> QED
      BY <2>2, KeysLinked
  <1>3. \A o \in ObjectsIn(ns) : KeysIn(ns, o) \subseteq 1 .. n
    BY KeysBelow DEF LinkedAs, ObjectsIn
  <1>4. \A i \in 1 .. n : NameIn(ns2, i) = NameIn(ns, i)
    BY <1>1 DEF NameIn
  <1>5. NameIn(ns2, n + 1) = t.name
    BY <1>1 DEF NameIn
  <1>6. \A o : o \in ObjectsIn(ns2) => o \in ObjectsIn(ns) \/ o = n + 1
    <2>1. \A o : o \in 1 .. n + 1 => o \in 1 .. n \/ o = n + 1
      BY <1>0
    <2> QED
      BY <1>0, <1>1, <2>1 DEF ObjectsIn
  <1>7. ObjectsIn(ns) \subseteq ObjectsIn(ns2)
    <2>1. \A o : o \in 1 .. n => o \in 1 .. n + 1
      BY <1>0
    <2> QED
      BY <1>0, <1>1, <2>1 DEF ObjectsIn
  <1> HIDE DEF n
  <1>8. \A o \in ObjectsIn(ns) :
          short(ns2, o) = IF due /\ o = p /\ t.name \notin LongName THEN short(ns, o) \cup {<<o, t.name>>} ELSE short(ns, o)
    <2> TAKE o \in ObjectsIn(ns)
    <2>1. KeysIn(ns, o) \subseteq 1 .. n
      BY <1>3
    <2>2. \A k \in KeysIn(ns, o) : NameIn(ns2, k) = NameIn(ns, k)
      BY <1>4, <2>1
    <2>3. CASE due /\ o = p
      <3>1. KeysIn(ns2, o) = KeysIn(ns, o) \cup {n + 1}
        BY <1>2, <2>3
      <3> HIDE DEF due, p
      <3> QED
        BY <1>5, <2>2, <2>3, <3>1
    <2>4. CASE ~ (due /\ o = p)
      <3>1. KeysIn(ns2, o) = KeysIn(ns, o)
        BY <1>2, <2>4
      <3> HIDE DEF due, p
      <3> QED
        BY <2>2, <2>4, <3>1
    <2> QED
      BY <2>3, <2>4
  <1>9. short(ns2, n + 1) = {}
    BY <1>2
  <1>10. /\ ShortKeys(ns) = UNION {short(ns, o) : o \in ObjectsIn(ns)}
         /\ ShortKeys(ns2) = UNION {short(ns2, o) : o \in ObjectsIn(ns2)}
    BY DEF ShortKeys
  <1>11. due => p \in ObjectsIn(ns)
    OBVIOUS
  <1> HIDE DEF short, due, p
  <1>12. ASSUME NEW key
         PROVE  key \in ShortKeys(ns2) <=> key \in ShortKeys(ns) \/ (due /\ t.name \notin LongName /\ key = <<p, t.name>>)
    <2>1. key \in ShortKeys(ns2) <=> \E o \in ObjectsIn(ns2) : key \in short(ns2, o)
      BY <1>10
    <2>2. key \in ShortKeys(ns) <=> \E o \in ObjectsIn(ns) : key \in short(ns, o)
      BY <1>10
    <2>3. (\E o \in ObjectsIn(ns2) : key \in short(ns2, o)) <=> \E o \in ObjectsIn(ns) : key \in short(ns2, o)
      BY <1>6, <1>7, <1>9
    <2> QED
      BY <1>8, <1>11, <2>1, <2>2, <2>3
  <1>13. ShortKeys(ns2) = IF due /\ t.name \notin LongName THEN ShortKeys(ns) \cup {<<p, t.name>>} ELSE ShortKeys(ns)
    BY <1>12
  <1> QED
    BY <1>13 DEF due, p

---------------------------------------------------------------------------
(* The invariant of the keys.                                              *)

\* A hash is a natural number.
HashOK == \A o, n \in Nat : Hash(<<o, n>>) \in Nat

\* The children are linked, the trees sound, the tables roomy, the set has
\* the keys of all objects, and every object is in order.
KeysInv ==
  /\ KidsOK(nodes, scopes)
  /\ PoolOK(keyTree)
  /\ capacity = TableCapacity(Estimate(doc).values)
  /\ Len(keyTree) <= Strings(nodes)
  /\ SetOK(keys, capacity, ShortKeys(nodes))
  /\ \A o \in ObjectsIn(nodes) : ObjectOK(nodes, keyTree, o)

(* What a parse starts with.                                               *)
LEMMA KeysAtFirst ==
  ASSUME ParserInit
  PROVE  KeysInv
  <1>1. /\ doc \in Document
        /\ scopes = <<>> /\ nodes = <<>> /\ keyTree = <<>>
        /\ capacity = TableCapacity(Estimate(doc).values)
        /\ keys = EmptyTable(capacity)
    BY DEF ParserInit, AstInit
  <1>2. Len(nodes) = 0 /\ Len(scopes) = 0 /\ Len(keyTree) = 0
    BY <1>1
  <1>3. KidsOK(nodes, scopes) /\ PoolOK(keyTree)
    BY <1>2 DEF KidsOK, SiblingsOK, PoolOK
  <1>4. Len(keyTree) <= Strings(nodes)
    <2>0. Len(nodes) \in Nat
      BY <1>2
    <2>1. Strings(nodes) \in Nat
      BY <2>0, NumberIsNat DEF Strings
    <2> QED
      BY <1>2, <2>1
  <1>5. ObjectsIn(nodes) = {}
    BY <1>2 DEF ObjectsIn
  <1>6. ShortKeys(nodes) = {}
    BY <1>5 DEF ShortKeys
  <1>7. SetOK(keys, capacity, {})
    BY <1>1 DEF SetOK, EmptyTable
  <1> QED
    BY <1>1, <1>3, <1>4, <1>5, <1>6, <1>7 DEF KeysInv

(* There is room for the key at hand in the set and in the tree.           *)
LEMMA RoomForBoth ==
  ASSUME HashOK, ParserInv, KeysInv, Current \in Token, Current.type = "string", IsKey
  PROVE  /\ ~ TreeIsFull
         /\ Inner \in ObjectsIn(nodes)
         /\ Hash(ScopedKey(Current.name)) \in Nat /\ ScopedKey(Current.name) # Free
         /\ Current.name \in Nat
         /\ \E e \in 0 .. capacity - 1 : keys[e] = Free
  <1>1. Strings(nodes) < capacity
    BY RoomLeft DEF KeysInv
  <1>2. Strings(nodes) \in Nat /\ Len(keyTree) \in Nat /\ capacity \in Nat \ {0}
    BY NumberIsNat DEF Strings, KeysInv, PoolOK, ParserInv, TreeOK, TablesOK
  <1>3. ~ TreeIsFull
    BY <1>1, <1>2 DEF TreeIsFull, KeysInv
  <1>4. Inner \in ObjectsIn(nodes) /\ Inner \in 1 .. Len(nodes)
    <2>1. scopes # <<>> /\ nodes[Inner].token.type = "{"
      BY DEF IsKey, InObject, Inner
    <2>2. Inner = scopes[Len(scopes)].parent
      BY <2>1 DEF Inner, Last
    <2>3. Inner \in 1 .. Len(nodes)
      BY <2>1, <2>2, TailIsLast DEF KeysInv, ParserInv
    <2> QED
      BY <2>1, <2>3 DEF ObjectsIn
  <1>5. Current.name \in Nat
    <2>1. PICK n \in Name : Current = String(n)
      <3>1. CASE \E type \in Punctuation : Current = Mark(type)
        BY <3>1 DEF Mark, Punctuation
      <3>2. CASE Current = Scalar
        BY <3>2 DEF Scalar, Mark
      <3> QED
        BY <3>1, <3>2 DEF Token
    <2> QED
      BY <2>1, NameAssumption DEF String
  <1>6. Hash(ScopedKey(Current.name)) \in Nat /\ ScopedKey(Current.name) # Free
    <2>1. ScopedKey(Current.name) = <<Inner, Current.name>>
      BY DEF ScopedKey, Inner
    <2>2. Inner \in Nat /\ Inner # 0
      BY <1>4
    <2>3. Hash(<<Inner, Current.name>>) \in Nat
      BY <1>5, <2>2 DEF HashOK
    <2> QED
      BY <2>1, <2>2, <2>3 DEF Free
  <1>7. \E e \in 0 .. capacity - 1 : keys[e] = Free
    <2>1. \A o \in ObjectsIn(nodes) : \A k \in KeysIn(nodes, o) : nodes[k].token.type = "string"
      BY DEF KeysInv, ObjectOK, KeyOK
    <2>2. IsFiniteSet(ShortKeys(nodes)) /\ Cardinality(ShortKeys(nodes)) <= Strings(nodes)
      BY <2>1, FewKeys DEF KeysInv
    <2>3. Cardinality(ShortKeys(nodes)) \in Nat
      BY <2>2, FS_CardinalityType
    <2>4. Cardinality(ShortKeys(nodes)) < capacity
      <3> DEFINE a == Cardinality(ShortKeys(nodes))  b == Strings(nodes)
      <3>1. a \in Nat /\ b \in Nat /\ capacity \in Nat /\ a <= b /\ b < capacity
        BY <1>1, <1>2, <2>2, <2>3
      <3> HIDE DEF a, b
      <3>2. a < capacity
        BY <3>1
      <3> QED
        BY <3>2 DEF a
    <2> QED
      BY <1>2, <2>2, <2>4, RoomForKey DEF KeysInv
  <1> QED
    BY <1>3, <1>4, <1>5, <1>6, <1>7

\* A key of the innermost object has this name.
HadName(name) == \E b \in KeysIn(nodes, Inner) : NameIn(nodes, b) = name

(* A key is found when it is not too long and its object had the name.     *)
LEMMA DuplicateFound ==
  ASSUME HashOK, ParserInv, KeysInv, Current \in Token, Current.type = "string", IsKey
  PROVE  IsDuplicate(Current.name) <=> Current.name \notin LongName /\ HadName(Current.name)
  <1>1. capacity \in Nat \ {0}
    BY DEF ParserInv, TablesOK
  <1>2. Answer(keys, capacity, ScopedKey(Current.name)) = "ALREADY_EXIST" <=> ScopedKey(Current.name) \in ShortKeys(nodes)
    BY <1>1, RoomForBoth, KeyInserted DEF KeysInv
  <1>3. ScopedKey(Current.name) = <<Inner, Current.name>> /\ Inner \in ObjectsIn(nodes)
    BY RoomForBoth DEF ScopedKey, Inner
  <1>4. ScopedKey(Current.name) \in ShortKeys(nodes) <=> Current.name \notin LongName /\ HadName(Current.name)
    BY <1>3, ShortKeysIs DEF HadName
  <1> QED
    BY <1>2, <1>4 DEF IsDuplicate

(* The token at hand becomes a node.                                       *)
LEMMA LinkedHere ==
  ASSUME ParserInv, KeysInv, Current \in Token, NEW type \in {"OBJECT", "ARRAY", "LEAF"}, LinkNode(type, Current, HugeName)
  PROVE  LinkedAs(nodes, scopes, nodes', Current, TypeAs(type, Current), RootWith(Current))
  <1>1. TablesOK /\ TreeOK(nodes, scopes)
    BY DEF ParserInv
  <1>2. scopes \in Seq(ScopeOf(Len(nodes)))
    BY <1>1 DEF TreeOK
  <1>3. /\ nodes \in Seq(NodeOf(Len(nodes), Len(keyTree)))
        /\ keyTree \in Seq(KeyOf(Len(nodes), Len(keyTree)))
    BY <1>1 DEF TablesOK
  <1>4. Extends(nodes, scopes, nodes', Current)
    BY <1>2, <1>3, LinkFacts
  <1>5. LinksNode(nodes, scopes, nodes', TypeAs(type, Current), RootWith(Current))
    BY <1>2, <1>3, LinkFields
  <1> QED
    BY <1>1, <1>4, <1>5 DEF LinkedAs, KeysInv

(* The innermost scope and what it says of a key.                          *)
LEMMA KeyMeans ==
  ASSUME ParserInv, KeysInv
  PROVE  /\ scopes # <<>> => Inner = scopes[Len(scopes)].parent /\ Last(scopes) = scopes[Len(scopes)]
         /\ IsKey <=> scopes # <<>> /\ Inner \in ObjectsIn(nodes) /\ scopes[Len(scopes)].count % 2 = 0
         /\ InObject <=> scopes # <<>> /\ Inner \in ObjectsIn(nodes)
         /\ scopes # <<>> => Inner \in 1 .. Len(nodes) /\ scopes[Len(scopes)].count \in Nat
  <1>1. ASSUME scopes # <<>>
        PROVE  /\ Inner = scopes[Len(scopes)].parent /\ Last(scopes) = scopes[Len(scopes)]
               /\ Inner \in 1 .. Len(nodes) /\ scopes[Len(scopes)].count \in Nat
    <2>1. Inner = scopes[Len(scopes)].parent /\ Last(scopes) = scopes[Len(scopes)]
      BY DEF Inner, Last
    <2> QED
      BY <1>1, <2>1, TailIsLast DEF KeysInv, ParserInv
  <1> QED
    BY <1>1 DEF IsKey, InObject, ObjectsIn, Inner

(* What linking the token at hand does to the key tree.                    *)
LEMMA TreeAtKey ==
  ASSUME HashOK, ParserInv, KeysInv, Current \in Token, Current.type = "string", IsKey,
         NEW type \in {"OBJECT", "ARRAY", "LEAF"}, LinkNode(type, Current, HugeName)
  PROVE  /\ TypeAs(type, Current) = "SKIPPED" <=> Current.name \notin LongName /\ HadName(Current.name)
         /\ TreeTakes(keyTree, nodes, nodes[Inner].keyTree, Current, Len(nodes) + 1,
                      TypeAs(type, Current), keyTree', RootWith(Current))
  <1> DEFINE r == nodes[Inner].keyTree  name == Current.name  new == Len(nodes) + 1
  <1>1. TypeAs(type, Current) = "SKIPPED" <=> IsDuplicate(name)
    <2>1. ~ ValueOfSkipped
      BY DEF ValueOfSkipped
    <2> QED
      BY <2>1 DEF TypeAs
  <1>2. keyTree' = IF IsDuplicate(name) \/ name \in HugeName THEN keyTree ELSE Inserted(r, new, name)
    BY DEF LinkNode, Inner
  <1>3. RootWith(Current) = IF IsDuplicate(name) \/ name \in HugeName THEN r ELSE RootAfterInsert(r)
    BY DEF RootWith, InTree
  <1>4. ASSUME ~ (IsDuplicate(name) \/ name \in HugeName)
        PROVE  KeyPut(keyTree, nodes, r, name, new, keyTree') /\ RootWith(Current) = Rooted(keyTree, r)
    <2>1. ~ TreeIsFull /\ Inner \in ObjectsIn(nodes)
      BY RoomForBoth
    <2>2. r \in 0 .. Len(keyTree)
      BY <2>1 DEF KeysInv, ObjectOK
    <2>3. keyTree \in Seq(KeyOf(Len(nodes), Len(keyTree))) /\ PoolOK(keyTree)
      BY DEF ParserInv, TablesOK, KeysInv
    <2> HIDE DEF r, name, new
    <2>4. KeyPut(keyTree, nodes, r, name, new, Inserted(r, new, name)) /\ RootAfterInsert(r) = Rooted(keyTree, r)
      BY <2>1, <2>2, <2>3, InsertedIsPut
    <2> QED
      BY <1>2, <1>3, <1>4, <2>4
  <1>5. IsDuplicate(name) <=> name \notin LongName /\ HadName(name)
    BY DuplicateFound
  <1>6. IsDuplicate(name) \/ name \in HugeName => keyTree' = keyTree /\ RootWith(Current) = r
    BY <1>2, <1>3
  <1> QED
    BY <1>1, <1>4, <1>5, <1>6 DEF TreeTakes

(* A value leaves it alone.                                                *)
LEMMA TreeAtValue ==
  ASSUME ~ IsKey, NEW type \in {"OBJECT", "ARRAY", "LEAF"}, LinkNode(type, Current, HugeName)
  PROVE  /\ TypeAs(type, Current) = "SKIPPED" <=> ValueOfSkipped
         /\ keyTree' = keyTree /\ keys' = keys /\ RootWith(Current) = nodes[Inner].keyTree
  <1>1. ~ IsDuplicate(Current.name)
    BY DEF IsDuplicate
  <1> QED
    BY <1>1 DEF TypeAs, LinkNode, RootWith, InTree

\* The tree of the innermost object has taken a key, or nothing has changed.
PoolSame == keyTree' = keyTree
PoolTook == KeyPut(keyTree, nodes, nodes[Inner].keyTree, Current.name, Len(nodes) + 1, keyTree')

(* The pool has room and links onward after it as before.                  *)
LEMMA PoolAfterLink ==
  ASSUME HashOK, ParserInv, KeysInv, Current \in Token, IsKey => Current.type = "string",
         NEW type \in {"OBJECT", "ARRAY", "LEAF"}, LinkNode(type, Current, HugeName)
  PROVE  /\ PoolSame \/ (IsKey /\ PoolTook)
         /\ PoolOK(keyTree') /\ Len(keyTree) <= Len(keyTree') /\ Len(keyTree') \in Nat
         /\ Len(keyTree') <= Strings(nodes')
  <1>0. LinkedAs(nodes, scopes, nodes', Current, TypeAs(type, Current), RootWith(Current))
    BY LinkedHere
  <1>1. PoolSame \/ (IsKey /\ PoolTook)
    <2>1. CASE ~ IsKey
      BY <2>1, TreeAtValue DEF PoolSame
    <2>2. CASE IsKey
      <3>1. TreeTakes(keyTree, nodes, nodes[Inner].keyTree, Current, Len(nodes) + 1,
                      TypeAs(type, Current), keyTree', RootWith(Current))
        BY <2>2, TreeAtKey
      <3> QED
        BY <2>2, <3>1 DEF TreeTakes, PoolSame, PoolTook
    <2> QED
      BY <2>1, <2>2
  <1>2. PoolOK(keyTree) /\ Len(keyTree) \in Nat /\ Len(keyTree) <= Strings(nodes) /\ Len(nodes) \in Nat
    BY DEF KeysInv, PoolOK, ParserInv, TreeOK
  <1>3. Strings(nodes) \in Nat /\ Strings(nodes') = Strings(nodes) + (IF Current.type = "string" THEN 1 ELSE 0)
    BY <1>0, <1>2, NumberGrows DEF Strings, LinkedAs
  <1>4. CASE PoolSame
    <2>1. Strings(nodes) <= Strings(nodes') /\ Strings(nodes') \in Nat
      BY <1>3
    <2> QED
      BY <1>1, <1>2, <1>3, <1>4, <2>1 DEF PoolSame
  <1>5. CASE IsKey /\ PoolTook
    <2>1. Len(keyTree') = Len(keyTree) + 1
      BY <1>5 DEF PoolTook, KeyPut, PoolGrown
    <2>2. PoolOK(keyTree')
      <3> DEFINE r == nodes[Inner].keyTree  name == Current.name  new == Len(nodes) + 1
                 a == Over(keyTree, nodes, r, name)  left == name < NameIn(nodes, keyTree[a].key)
      <3>1. PoolGrown(keyTree, keyTree', a, left, new) /\ new \in Nat
        BY <1>2, <1>5 DEF PoolTook, KeyPut
      <3> HIDE DEF a, left, new
      <3> QED
        BY <1>2, <3>1, PoolGrows
    <2>3. Strings(nodes') = Strings(nodes) + 1
      BY <1>3, <1>5
    <2> QED
      BY <1>1, <1>2, <1>3, <2>1, <2>2, <2>3
  <1> QED
    BY <1>1, <1>4, <1>5

(* An object that is not the innermost keeps its tree.                     *)
LEMMA TreeOfOther ==
  ASSUME HashOK, ParserInv, KeysInv, PoolSame \/ (IsKey /\ PoolTook), Current \in Token,
         NEW o \in ObjectsIn(nodes), scopes = <<>> \/ o # Inner
  PROVE  InOrder(keyTree')[nodes[o].keyTree] = InOrder(keyTree)[nodes[o].keyTree]
  <1>1. CASE PoolSame
    BY <1>1 DEF PoolSame
  <1>2. CASE IsKey /\ PoolTook
    <2> DEFINE p == Inner  r == nodes[p].keyTree  q == nodes[o].keyTree  name == Current.name  new == Len(nodes) + 1
               a == Over(keyTree, nodes, r, name)  left == name < NameIn(nodes, keyTree[a].key)
    <2>1. PoolOK(keyTree) /\ Len(nodes) \in Nat /\ KidsOK(nodes, scopes)
      BY DEF KeysInv, ParserInv, TreeOK
    <2>2. scopes # <<>> /\ p \in ObjectsIn(nodes) /\ o # p
      BY <1>2, KeyMeans
    <2>3. ObjectOK(nodes, keyTree, o) /\ ObjectOK(nodes, keyTree, p)
      BY <2>2 DEF KeysInv
    <2>4. /\ q \in 0 .. Len(keyTree) /\ ToSet(InOrder(keyTree)[q]) \subseteq KeysIn(nodes, o)
          /\ r \in 0 .. Len(keyTree) /\ ToSet(InOrder(keyTree)[r]) \subseteq KeysIn(nodes, p)
      BY <2>3 DEF ObjectOK, OrderedIn
    <2>5. /\ \A k \in KeysIn(nodes, o) : nodes[k].parent = o
          /\ \A k \in KeysIn(nodes, p) : nodes[k].parent = p
      <3>1. ASSUME NEW x \in ObjectsIn(nodes) PROVE \A k \in KeysIn(nodes, x) : nodes[k].parent = x
        <4>1. x \in 1 .. Len(nodes)
          BY DEF ObjectsIn
        <4> QED
          BY <2>1, <4>1, KeysBelow
      <3> QED
        BY <2>2, <3>1
    <2>6. PoolGrown(keyTree, keyTree', a, left, new) /\ new \in Nat
      BY <1>2, <2>1 DEF PoolTook, KeyPut
    <2>7. a \in 1 .. Len(keyTree) => keyTree[a].key \notin ToSet(InOrder(keyTree)[q])
      <3>1. CASE r = 0
        BY <3>1 DEF Over
      <3>2. CASE r # 0
        <4>1. r \in 1 .. Len(keyTree) /\ a = PathEnds(keyTree, nodes, name)[r]
          BY <2>1, <2>4, <3>2 DEF Over, PoolOK
        <4> HIDE DEF r, a, name
        <4>2. keyTree[a].key \in ToSet(InOrder(keyTree)[r])
          BY <2>1, <4>1, PathInside
        <4> QED
          BY <2>2, <2>4, <2>5, <4>2
      <3> QED
        BY <3>1, <3>2
    <2> HIDE DEF a, left, new, q
    <2>8. InOrder(keyTree')[q] = InOrder(keyTree)[q]
      BY <2>1, <2>4, <2>6, <2>7, OtherTrees
    <2> QED
      BY <2>8 DEF q
  <1> QED
    BY <1>1, <1>2

(* Every object stays in order when a node is linked.                      *)
LEMMA ObjectsAtLink ==
  ASSUME HashOK, ParserInv, KeysInv, Current \in Token, IsKey => Current.type = "string",
         NEW type \in {"OBJECT", "ARRAY", "LEAF"}, LinkNode(type, Current, HugeName)
  PROVE  \A o \in ObjectsIn(nodes') : ObjectOK(nodes', keyTree', o)
  <1> DEFINE n == Len(nodes)  ty == TypeAs(type, Current)  w == RootWith(Current)
  <1>1. LinkedAs(nodes, scopes, nodes', Current, ty, w)
    BY LinkedHere
  <1>2. /\ PoolSame \/ (IsKey /\ PoolTook)
        /\ PoolOK(keyTree') /\ Len(keyTree) <= Len(keyTree') /\ Len(keyTree') \in Nat
    BY PoolAfterLink
  <1>3. PoolOK(keyTree) /\ n \in Nat
    BY DEF KeysInv, ParserInv, TreeOK
  <1>4. \A o \in ObjectsIn(nodes') : o \in ObjectsIn(nodes) \/ o = n + 1
    <2>1. /\ Len(nodes') = n + 1
          /\ \A i \in 1 .. n : nodes'[i].token = nodes[i].token
      BY <1>1 DEF LinkedAs, Extends
    <2>2. \A o : o \in 1 .. n + 1 => o \in 1 .. n \/ o = n + 1
      BY <1>3
    <2> QED
      BY <2>1, <2>2 DEF ObjectsIn
  <1>5. ObjectOK(nodes', keyTree', n + 1)
    BY <1>1, <1>2, NewObject
  <1>6. ASSUME NEW o \in ObjectsIn(nodes), scopes = <<>> \/ o # Inner
        PROVE  ObjectOK(nodes', keyTree', o)
    <2>1. o \in 1 .. n /\ ObjectOK(nodes, keyTree, o)
      BY DEF ObjectsIn, KeysInv
    <2>2. scopes = <<>> \/ o # scopes[Len(scopes)].parent
      BY <1>6, KeyMeans
    <2>3. InOrder(keyTree')[nodes[o].keyTree] = InOrder(keyTree)[nodes[o].keyTree]
      BY <1>2, <1>6, TreeOfOther
    <2> HIDE DEF ty, w
    <2> QED
      BY <1>1, <1>2, <1>3, <2>1, <2>2, <2>3, OtherObject
  <1>7. ASSUME scopes # <<>>, Inner \in ObjectsIn(nodes) PROVE ObjectOK(nodes', keyTree', Inner)
    <2> DEFINE p == Inner
    <2>1. /\ p = scopes[Len(scopes)].parent /\ Last(scopes) = scopes[Len(scopes)]
          /\ ObjectOK(nodes, keyTree, p)
      BY <1>7, KeyMeans DEF KeysInv
    <2>2. CASE IsKey
      <3>1. /\ scopes[Len(scopes)].count % 2 = 0 /\ Current.type = "string" /\ Current.name \in Nat
        BY <2>2, KeyMeans, RoomForBoth
      <3>2. /\ ty = "SKIPPED" <=> Current.name \notin LongName /\ HadName(Current.name)
            /\ TreeTakes(keyTree, nodes, nodes[p].keyTree, Current, n + 1, ty, keyTree', w)
        BY <2>2, <3>1, TreeAtKey
      <3>3. HadName(Current.name) <=> \E b \in KeysIn(nodes, p) : NameIn(nodes, b) = Current.name
        BY DEF HadName
      <3>4. ty = "SKIPPED" <=> Current.name \notin LongName /\ \E b \in KeysIn(nodes, p) : NameIn(nodes, b) = Current.name
        BY <3>2, <3>3
      <3> HIDE DEF ty, w, p
      <3>5. TreeTakes(keyTree, nodes, nodes[p].keyTree, Current, Len(nodes) + 1, ty, keyTree', w)
        BY <3>2
      <3>6. ObjectOK(nodes', keyTree', p)
        BY <1>1, <1>2, <1>3, <1>7, <2>1, <3>1, <3>4, <3>5, KeyLinked
      <3> QED
        BY <3>6 DEF p
    <2>3. CASE ~ IsKey
      <3>1. scopes[Len(scopes)].count % 2 = 1
        <4>1. ~ (scopes[Len(scopes)].count % 2 = 0) /\ scopes[Len(scopes)].count \in Nat
          BY <1>7, <2>3, KeyMeans
        <4> QED
          BY <4>1, Parity
      <3>2. /\ ty = "SKIPPED" <=> ValueOfSkipped
            /\ keyTree' = keyTree /\ w = nodes[p].keyTree
        BY <2>3, TreeAtValue
      <3>3. ValueOfSkipped <=> scopes[Len(scopes)].tail # 0 /\ Lost(nodes, scopes[Len(scopes)].tail)
        <4>1. InObject
          BY <1>7, KeyMeans
        <4> QED
          BY <2>1, <2>3, <4>1 DEF ValueOfSkipped, Lost
      <3> HIDE DEF ty, w, p
      <3>4. ObjectOK(nodes', keyTree, p)
        BY <1>1, <1>3, <1>7, <2>1, <3>1, <3>2, <3>3, ValueLinked
      <3> QED
        BY <3>2, <3>4 DEF p
    <2> QED
      BY <2>2, <2>3
  <1> QED
    BY <1>4, <1>5, <1>6, <1>7

(* The set has what the objects have.                                      *)
LEMMA SetAtLink ==
  ASSUME HashOK, ParserInv, KeysInv, Current \in Token, IsKey => Current.type = "string",
         NEW type \in {"OBJECT", "ARRAY", "LEAF"}, LinkNode(type, Current, HugeName)
  PROVE  SetOK(keys', capacity, ShortKeys(nodes'))
  <1> DEFINE p == scopes[Len(scopes)].parent  name == Current.name
             due == scopes # <<>> /\ p \in ObjectsIn(nodes) /\ scopes[Len(scopes)].count % 2 = 0
             ty == TypeAs(type, Current)  w == RootWith(Current)
  <1>1. ShortKeys(nodes') = IF due /\ name \notin LongName THEN ShortKeys(nodes) \cup {<<p, name>>} ELSE ShortKeys(nodes)
    <2>1. LinkedAs(nodes, scopes, nodes', Current, ty, w)
      BY LinkedHere
    <2> HIDE DEF ty, w
    <2>2. ShortKeys(nodes') = IF /\ scopes # <<>> /\ scopes[Len(scopes)].parent \in ObjectsIn(nodes) /\ scopes[Len(scopes)].count % 2 = 0
                                 /\ Current.name \notin LongName
                              THEN ShortKeys(nodes) \cup {<<scopes[Len(scopes)].parent, Current.name>>} ELSE ShortKeys(nodes)
      BY <2>1, ShortKeysGrow
    <2> QED
      BY <2>2
  <1>2. due <=> IsKey
    BY KeyMeans
  <1>3. keys' = IF IsKey /\ name \notin LongName THEN TableWith(keys, capacity, ScopedKey(name)) ELSE keys
    BY DEF LinkNode
  <1>4. SetOK(keys, capacity, ShortKeys(nodes)) /\ capacity \in Nat \ {0}
    BY DEF KeysInv, ParserInv, TablesOK
  <1>5. CASE ~ (IsKey /\ name \notin LongName)
    <2> HIDE DEF due, name
    <2> QED
      BY <1>1, <1>2, <1>3, <1>4, <1>5
  <1>6. CASE IsKey /\ name \notin LongName
    <2>1. ScopedKey(name) = <<p, name>>
      BY <1>6, KeyMeans DEF ScopedKey, Inner
    <2>2. /\ Hash(ScopedKey(name)) \in Nat /\ ScopedKey(name) # Free
          /\ \E e \in 0 .. capacity - 1 : keys[e] = Free
      BY <1>6, RoomForBoth
    <2>3. SetOK(TableWith(keys, capacity, ScopedKey(name)), capacity, ShortKeys(nodes) \cup {ScopedKey(name)})
      BY <1>4, <2>2, KeyInserted
    <2> HIDE DEF due, name, p
    <2> QED
      BY <1>1, <1>2, <1>3, <1>6, <2>1, <2>3
  <1> QED
    BY <1>5, <1>6

(* A node is linked.                                                       *)
LEMMA KeysAtLink ==
  ASSUME HashOK, ParserInv, KeysInv, Current \in Token, IsKey => Current.type = "string", doc' = doc,
         NEW type \in {"OBJECT", "ARRAY", "LEAF"}, LinkNode(type, Current, HugeName)
  PROVE  /\ KidsOK(nodes', Grown(scopes, Len(nodes) + 1))
         /\ Kids(nodes', Len(nodes) + 1) = <<>>
         /\ \A sc : KidsOK(nodes', sc) /\ scopes' = sc => KeysInv'
  <1> DEFINE ty == TypeAs(type, Current)  w == RootWith(Current)
  <1>1. LinkedAs(nodes, scopes, nodes', Current, ty, w)
    BY LinkedHere
  <1>2. KidsOK(nodes', Grown(scopes, Len(nodes) + 1))
    <2> HIDE DEF ty, w
    <2> QED
      BY <1>1, KidsGrow DEF LinkedAs
  <1>3. Kids(nodes', Len(nodes) + 1) = <<>>
    <2>1. Len(nodes) \in Nat
      BY DEF ParserInv, TreeOK
    <2>2. Len(nodes) + 1 \in 1 .. Len(nodes) + 1
      BY <2>1
    <2> HIDE DEF ty, w
    <2>3. Kids(nodes', Len(nodes) + 1) = KidsWith(nodes, scopes, Len(nodes) + 1)
      BY <1>1, <2>2, KidsLinked DEF LinkedAs
    <2> QED
      BY <2>3 DEF KidsWith
  <1>4. PoolOK(keyTree') /\ Len(keyTree') <= Strings(nodes')
    BY PoolAfterLink
  <1>5. SetOK(keys', capacity, ShortKeys(nodes'))
    BY SetAtLink
  <1>6. \A o \in ObjectsIn(nodes') : ObjectOK(nodes', keyTree', o)
    BY ObjectsAtLink
  <1>7. capacity' = capacity /\ capacity = TableCapacity(Estimate(doc).values)
    BY DEF LinkNode, KeysInv
  <1>8. ASSUME NEW sc, KidsOK(nodes', sc), scopes' = sc PROVE KeysInv'
    BY <1>4, <1>5, <1>6, <1>7, <1>8 DEF KeysInv
  <1> QED
    BY <1>2, <1>3, <1>8

(* No step of the parser breaks it.                                        *)
LEMMA KeysKeptByStep ==
  ASSUME HashOK, ParserInv, StackInv, KeysInv, ParserStep
  PROVE  KeysInv'
  <1>1. TreeKept \/ LeafLinked \/ NodeOpened \/ NodeClosed
    BY StackStep
  <1>2. CASE TreeKept
    BY <1>2 DEF TreeKept, KeysInv
  <1>3. CASE LeafLinked
    <2>1. /\ Current \in Token /\ (IsKey => Current.type = "string") /\ doc' = doc
          /\ LinkNode("LEAF", Current, HugeName) /\ scopes' = Grown(scopes, Len(nodes) + 1)
      BY <1>3 DEF LeafLinked
    <2> QED
      BY <2>1, KeysAtLink
  <1>4. CASE NodeOpened
    <2>1. /\ Current \in Token /\ ~ IsKey /\ doc' = doc
          /\ scopes' = Append(Grown(scopes, Len(nodes) + 1), Fresh(Len(nodes) + 1))
          /\ Current.type \in Openers
      BY <1>4 DEF NodeOpened
    <2>2. PICK type \in {"OBJECT", "ARRAY"} : LinkNode(type, Current, HugeName)
      BY <1>4 DEF NodeOpened
    <2>3. /\ KidsOK(nodes', Grown(scopes, Len(nodes) + 1))
          /\ Kids(nodes', Len(nodes) + 1) = <<>>
          /\ \A sc : KidsOK(nodes', sc) /\ scopes' = sc => KeysInv'
      BY <2>1, <2>2, KeysAtLink
    <2>4. KidsOK(nodes', Append(Grown(scopes, Len(nodes) + 1), Fresh(Len(nodes) + 1)))
      <3> DEFINE n == Len(nodes) + 1  g == Grown(scopes, n)  X == ScopeOf(n)
      <3>1. Len(nodes') = n /\ n \in Nat \ {0}
        <4>1. Len(nodes) \in Nat
          BY DEF ParserInv, TreeOK
        <4>2. Extends(nodes, scopes, nodes', Current)
          BY <2>1, <2>2, NodeAdded
        <4> QED
          BY <4>1, <4>2 DEF Extends
      <3>2. g \in Seq(X)
        <4>1. TreeOK(nodes', Linked)
          BY <2>1, <2>2, NodeAdded
        <4> QED
          BY <3>1, <4>1, ScopesGrown DEF TreeOK
      <3>3. Fresh(n) \in X
        BY <3>1 DEF Fresh, ScopeOf
      <3> HIDE DEF n, g, X
      <3>4. KidsOK(nodes', g) /\ Kids(nodes', Len(nodes')) = <<>> /\ Fresh(Len(nodes')) \in X
        BY <2>3, <3>1, <3>3 DEF n, g
      <3>5. KidsOK(nodes', Append(g, Fresh(Len(nodes'))))
        BY <3>2, <3>4, KidsOpen
      <3> QED
        BY <3>1, <3>5 DEF n, g
    <2> QED
      BY <2>1, <2>3, <2>4
  <1>5. CASE NodeClosed
    <2>1. KidsOK(nodes, Front(scopes))
      <3>1. scopes # <<>> /\ KidsOK(nodes, scopes) /\ TreeOK(nodes, scopes)
        BY <1>5 DEF NodeClosed, KeysInv, ParserInv
      <3> QED
        BY <3>1, KidsClose
    <2>2. scopes' = Front(scopes) /\ UNCHANGED <<doc, nodes, keys, keyTree, capacity>>
      BY <1>5 DEF NodeClosed
    <2> QED
      BY <2>1, <2>2 DEF KeysInv
  <1> QED
    BY <1>1, <1>2, <1>3, <1>4, <1>5

(* The readings of the tree are those the invariant is about.              *)
LEMMA ReadingsAre ==
  /\ Objects = ObjectsIn(nodes)
  /\ \A r : Ordered(r) = InOrder(keyTree)[r]
  /\ \A o : KeysOf(o) = KeysIn(nodes, o)
  /\ \A k : /\ Skipped(k) <=> Lost(nodes, k)
            /\ KeyName(k) = NameIn(nodes, k)
            /\ Sibling(k) = nodes[k].nextSibling
  <1>1. \A r : Ordered(r) = InOrder(keyTree)[r]
    BY DEF Ordered, InOrder
  <1>2. \A o : Children(o) = Kids(nodes, o)
    BY DEF Children, Kids, Rest, Index, Sibling
  <1>3. \A o : KeysOf(o) = KeysIn(nodes, o)
    BY <1>2 DEF KeysOf, KeysIn, Odd
  <1> QED
    BY <1>1, <1>3 DEF Objects, ObjectsIn, Skipped, Lost, KeyName, NameIn, Sibling

(* Of two keys with one name the later one is skipped, if it is not long.  *)
LEMMA OneKept ==
  ASSUME NEW ns, NEW o, NEW x \in KeysIn(ns, o), NEW y \in KeysIn(ns, o), x \in Nat, y \in Nat, x # y,
         \A k \in KeysIn(ns, o) : Lost(ns, k) <=> HadBefore(ns, o, k),
         ~ Lost(ns, x), ~ Lost(ns, y), NameIn(ns, x) = NameIn(ns, y)
  PROVE  NameIn(ns, x) \in LongName
  <1>1. x < y \/ y < x
    OBVIOUS
  <1> QED
    BY <1>1 DEF HadBefore

(* The invariant says what was to be shown of an object.                   *)
LEMMA OrderedShown ==
  ASSUME TreeOK(nodes, scopes), KeysInv
  PROVE  KeysOrdered
  <1> SUFFICES ASSUME NEW o \in ObjectsIn(nodes)
               PROVE  LET ordered == InOrder(keyTree)[nodes[o].keyTree] IN
                 /\ \A k \in KeysIn(nodes, o) :
                      /\ Lost(nodes, k) <=> HadBefore(nodes, o, k)
                      /\ nodes[k].nextSibling # 0 => (Lost(nodes, nodes[k].nextSibling) <=> Lost(nodes, k))
                 /\ ToSet(ordered) = {k \in KeysIn(nodes, o) : EntersTree(nodes, k)}
                 /\ Len(ordered) = Cardinality(ToSet(ordered))
                 /\ \A i \in 1 .. Len(ordered) - 1 :
                      \/ NameIn(nodes, ordered[i]) < NameIn(nodes, ordered[i + 1])
                      \/ NameIn(nodes, ordered[i]) = NameIn(nodes, ordered[i + 1]) /\ NameIn(nodes, ordered[i]) \in LongName
    BY ReadingsAre DEF KeysOrdered, HadBefore, EntersTree
  <1> DEFINE w == InOrder(keyTree)[nodes[o].keyTree]
  <1>1. ObjectOK(nodes, keyTree, o) /\ PoolOK(keyTree)
    BY DEF KeysInv
  <1>2. \A k \in KeysIn(nodes, o) : /\ Lost(nodes, k) <=> HadBefore(nodes, o, k)
                                    /\ nodes[k].nextSibling # 0 => (Lost(nodes, nodes[k].nextSibling) <=> Lost(nodes, k))
                                    /\ NameIn(nodes, k) \in Nat
    BY <1>1 DEF ObjectOK, KeyOK
  <1>3. w \in Seq(Nat) /\ Sorted(nodes, w) /\ ToSet(w) = {k \in KeysIn(nodes, o) : EntersTree(nodes, k)}
    BY <1>1, InOrderUnfold DEF ObjectOK, OrderedIn
  <1>4. Len(w) = Cardinality(ToSet(w))
    <2> HIDE DEF w
    <2> QED
      BY <1>3, SortedLength
  <1>5. KeysIn(nodes, o) \subseteq Nat
    <2>1. o \in 1 .. Len(nodes) /\ Len(nodes) \in Nat
      BY DEF ObjectsIn, TreeOK
    <2>2. KeysIn(nodes, o) \subseteq 1 .. Len(nodes)
      BY <2>1, KeysBelow DEF KeysInv
    <2> QED
      BY <2>1, <2>2
  <1> HIDE DEF w
  <1>6. ASSUME NEW i \in 1 .. Len(w) - 1
        PROVE  \/ NameIn(nodes, w[i]) < NameIn(nodes, w[i + 1])
               \/ NameIn(nodes, w[i]) = NameIn(nodes, w[i + 1]) /\ NameIn(nodes, w[i]) \in LongName
    <2> DEFINE x == w[i]  y == w[i + 1]
    <2>1. i \in 1 .. Len(w) /\ i + 1 \in 1 .. Len(w) /\ i < i + 1
      BY <1>3
    <2>2. x # y /\ NameIn(nodes, x) <= NameIn(nodes, y)
      BY <1>3, <2>1 DEF Sorted
    <2>3. x \in ToSet(w) /\ y \in ToSet(w)
      BY <1>3, <2>1 DEF ToSet
    <2>4. /\ x \in KeysIn(nodes, o) /\ y \in KeysIn(nodes, o) /\ ~ Lost(nodes, x) /\ ~ Lost(nodes, y)
          /\ x \in Nat /\ y \in Nat /\ NameIn(nodes, x) \in Nat /\ NameIn(nodes, y) \in Nat
      BY <1>2, <1>3, <1>5, <2>3 DEF EntersTree
    <2> HIDE DEF x, y
    <2>5. NameIn(nodes, x) = NameIn(nodes, y) => NameIn(nodes, x) \in LongName
      BY <1>2, <2>2, <2>4, OneKept
    <2>6. NameIn(nodes, x) < NameIn(nodes, y) \/ NameIn(nodes, x) = NameIn(nodes, y)
      BY <2>2, <2>4
    <2> QED
      BY <2>5, <2>6 DEF x, y
  <1> QED
    BY <1>2, <1>3, <1>4, <1>6 DEF w

\* What holds all along a parse.
ParseInv == ParserInv /\ StackInv /\ KeysInv

(* Nothing that happens breaks it.                                         *)
LEMMA ParseInvKept ==
  ASSUME HashOK, ParseInv, [ReadersNext]_readersVars
  PROVE  ParseInv'
  <1>0. ParserInv /\ StackInv /\ KeysInv
    BY DEF ParseInv
  <1>1. ParserInv'
    BY <1>0, InvKept
  <1>2. CASE ParserStep
    <2>1. StackInv'
      BY <1>0, <1>2, StackStep
    <2>2. KeysInv'
      BY <1>0, <1>2, KeysKeptByStep
    <2> QED
      BY <1>1, <2>1, <2>2 DEF ParseInv
  <1>3. CASE UNCHANGED <<doc, controls, scopes, nodes, keys, keyTree, capacity>>
    <2>1. StackInv'
      BY <1>0, <1>3 DEF StackInv
    <2>2. KeysInv'
      BY <1>0, <1>3 DEF KeysInv
    <2> QED
      BY <1>1, <2>1, <2>2 DEF ParseInv
  <1>4. CASE Finish
    <2>1. UNCHANGED <<doc, controls, scopes, nodes, keys, keyTree, capacity>>
      BY <1>4 DEF Finish, astVars
    <2> QED
      BY <1>3, <2>1
  <1>5. CASE SaxNext /\ UNCHANGED <<pos, controls, depth, status, astVars>>
    <2>1. doc' = doc
      BY <1>5, SaxKeepsText
    <2> QED
      BY <1>3, <1>5, <2>1 DEF astVars
  <1>6. CASE UNCHANGED readersVars
    BY <1>3, <1>6 DEF readersVars, parserVars, astVars
  <1> QED
    BY <1>2, <1>4, <1>5, <1>6 DEF ReadersNext, ParserNext

---------------------------------------------------------------------------
(* What it shows.                                                          *)

(* Whatever the text, the parser's variables have their types, its links   *)
(* and positions stay inside their arrays, and every open object or array  *)
(* has as many children as its scope counts, linked in order.              *)
THEOREM ParserTypeCorrect ==
  ReadersSpec => []ParserTypeOK
  <1>1. ParserInv => ParserTypeOK
    <2> SUFFICES ASSUME ParserInv PROVE ParserTypeOK
      OBVIOUS
    <2>1. TablesOK /\ TextOK /\ StatusOK /\ TreeOK(nodes, scopes)
      BY DEF ParserInv
    <2>2. AstTypeOK(Token)
      <3>1. Len(nodes) \in Nat /\ scopes \in Seq(ScopeOf(Len(nodes)))
        BY <2>1 DEF TreeOK
      <3>2. Index = 0 .. Len(nodes) /\ Index \ {0} = 1 .. Len(nodes)
        BY <3>1 DEF Index
      <3>3. scopes \in Seq([parent : Index \ {0}, tail : Index, count : Nat])
        BY <3>1, <3>2 DEF ScopeOf
      <3>4. /\ nodes \in Seq([type : {"OBJECT", "ARRAY", "LEAF", "SKIPPED"}, token : Token,
                              parent : Index, firstChild : Index, nextSibling : Index,
                              keyTree : 0 .. Len(keyTree)])
            /\ keyTree \in Seq([key : Index \ {0}, left : 0 .. Len(keyTree), right : 0 .. Len(keyTree)])
        BY <2>1, <3>2 DEF TablesOK, NodeOf, KeyOf
      <3> QED
        BY <2>1, <3>2, <3>3, <3>4 DEF AstTypeOK, TablesOK
    <2>3. ScopesCount
      BY <2>1, ScopesCounted
    <2> QED
      BY <2>1, <2>2, <2>3 DEF ParserTypeOK, TextOK, StatusOK, Statuses
  <1> QED
    BY <1>1, InvAlways, PTL

(* Whatever the text, the counts of the prescan that sized the tables, and *)
(* that the limits were judged on, are those of the tree the parse built.  *)
THEOREM EstimateIsExact ==
  ReadersSpec => []EstimateExact
  <1>1. ParserInv => EstimateExact
    <2> SUFFICES ASSUME ParserInv, Accepted PROVE EstimateExact
      BY DEF EstimateExact
    <2>1. /\ controls = <<>> /\ Top(controls) = "none"
          /\ pos = Len(doc) + 1 /\ Len(doc) \in Nat
          /\ Balanced(Read, "none", nodes, Len(scopes))
          /\ TreeOK(nodes, scopes)
      <3>1. controls = <<>> /\ Top(controls) = "none"
        BY DEF Accepted, ParserInv, StatusOK, Top
      <3>2. pos = Len(doc) + 1 /\ doc \in Seq(AnyToken)
        BY <3>1 DEF ParserInv, TextOK
      <3> QED
        BY <3>1, <3>2 DEF ParserInv
    <2>2. Read = Estimate(doc)
      <3>1. pos - 1 = Len(doc)
        BY <2>1
      <3> QED
        BY <3>1 DEF Read, Estimate
    <2> DEFINE e == Estimate(doc)
               deepest == {Nesting(nodes)[i] : i \in 1 .. Len(nodes)}
    <2>3. "none" \notin Openers /\ "none" \notin EndMarks /\ "none" \notin Firsts /\ "none" # "{" /\ "none" # "["
      BY DEF Openers, EndMarks, Firsts
    <2>4. Deepest(e, "none", Len(scopes)) = e.maxDepth
      BY <2>3 DEF Deepest
    <2>5. e.objects = Number(nodes, "{") /\ e.arrays = Number(nodes, "[")
      BY <2>1, <2>2, <2>3 DEF Balanced
    <2>6. /\ Number(nodes, "string") + Number(nodes, "scalar") = e.values
          /\ \A i \in 1 .. Len(nodes) : Nesting(nodes)[i] <= e.maxDepth
          /\ Len(nodes) # 0
          /\ Len(nodes) > 0 => \E i \in 1 .. Len(nodes) : Nesting(nodes)[i] = e.maxDepth
          /\ e \in Count
      BY <2>1, <2>2, <2>3, <2>4 DEF Balanced
    <2>7. Len(nodes) > 0
      <3>1. Len(nodes) \in Nat /\ Len(nodes) # 0
        BY <2>1, <2>6 DEF TreeOK
      <3> QED
        BY <3>1
    <2>8. e.maxDepth \in deepest /\ \A d \in deepest : d <= e.maxDepth
      BY <2>6, <2>7
    <2>9. e.values >= Number(nodes, "string") + Number(nodes, "scalar")
      <3>1. e.values \in Nat
        BY <2>6 DEF Count
      <3> HIDE DEF e
      <3> QED
        BY <2>6, <3>1
    <2> QED
      BY <2>5, <2>8, <2>9 DEF EstimateExact
  <1> QED
    BY <1>1, InvAlways, PTL

(* Whatever the text and the limit, what is accepted is nested no deeper   *)
(* than the limit by the prescan's count, and what is called too deep is.  *)
THEOREM NestingJudged ==
  ReadersSpec => []DepthJudged
  <1>1. ParserInv => DepthJudged
    <2> SUFFICES ASSUME ParserInv PROVE DepthJudged
      OBVIOUS
    <2>1. TextOK /\ StatusOK /\ Balanced(Read, Top(controls), nodes, Len(scopes)) /\ TreeOK(nodes, scopes)
      BY DEF ParserInv
    <2>2. doc \in Seq(AnyToken) /\ Len(doc) \in Nat /\ pos \in 1 .. Len(doc) + 1
      <3>1. doc \in Seq(AnyToken) /\ pos \in 1 .. Len(doc) + 1
        BY <2>1 DEF TextOK
      <3> QED
        BY <3>1
    <2>3. ASSUME Accepted PROVE Estimate(doc).maxDepth <= MaxDepth
      <3>1. controls = <<>> /\ Top(controls) = "none"
        BY <2>1, <2>3 DEF Accepted, StatusOK, Top
      <3>2. pos = Len(doc) + 1
        BY <2>1, <3>1 DEF TextOK
      <3>3. Read = Estimate(doc)
        <4>1. pos - 1 = Len(doc)
          BY <2>2, <3>2
        <4> QED
          BY <4>1 DEF Read, Estimate
      <3>4. "none" \notin Openers
        BY DEF Openers
      <3> QED
        BY <2>1, <3>1, <3>3, <3>4 DEF Balanced, Deepest
    <2>4. ASSUME status = "MAXIMUM_NESTED_DEPTH_REACHED" PROVE Estimate(doc).maxDepth > MaxDepth
      <3>1. Top(controls) \in {"RULE_OBJECT", "RULE_ARRAY"} /\ Len(scopes) = MaxDepth
        BY <2>1, <2>4 DEF StatusOK
      <3>2. Current.type = Opening(Top(controls))
        BY <2>1, <3>1 DEF TextOK
      <3>3. Current.type \in Openers /\ Current.type \in Symbols \ {"eof"}
        BY <3>1, <3>2 DEF Opening, Openers, Symbols, Punctuation
      <3>4. pos \in 1 .. Len(doc) /\ Adds(Read, Current, Counts(doc)[pos])
        BY <2>1, <3>3, CurrentFacts
      <3>5. Read.depth = MaxDepth /\ Read \in Count
        <4>1. Top(controls) \notin Openers \cup EndMarks
          BY <3>1 DEF Openers, EndMarks
        <4> QED
          BY <2>1, <3>1, <4>1 DEF Balanced
      <3>6. Counts(doc)[pos].maxDepth >= MaxDepth + 1
        <4> DEFINE m == Counts(doc)[pos].maxDepth
        <4>1. m = IF Read.depth + 1 > Read.maxDepth THEN Read.depth + 1 ELSE Read.maxDepth
          BY <3>3, <3>4 DEF Adds
        <4>2. Read.maxDepth \in Nat
          BY <3>5 DEF Count
        <4> HIDE DEF m
        <4>3. m >= MaxDepth + 1
          BY <3>5, <4>1, <4>2, ParserAssumption
        <4> QED
          BY <4>3 DEF m
      <3>7. Estimate(doc).maxDepth >= Counts(doc)[pos].maxDepth
        <4>1. pos \in 0 .. Len(doc)
          BY <3>4
        <4> QED
          BY <2>2, <4>1, DepthGrows DEF Estimate
      <3>8. Estimate(doc).maxDepth \in Nat /\ Counts(doc)[pos].maxDepth \in Nat
        <4>1. Counts(doc)[pos] \in Count /\ Counts(doc)[Len(doc)] \in Count
          <5>1. pos \in 0 .. Len(doc) /\ Len(doc) \in 0 .. Len(doc)
            BY <2>2, <3>4
          <5> QED
            BY <2>2, <5>1, CountsUnfold
        <4> QED
          BY <4>1 DEF Count, Estimate
      <3> QED
        BY <3>6, <3>7, <3>8, ParserAssumption
    <2> QED
      BY <2>3, <2>4 DEF DepthJudged
  <1> QED
    BY <1>1, InvAlways, PTL

(* Whatever the text, and wherever the hash leads, no key is lost to a     *)
(* full table: walking the tree of an object yields its keys once each in  *)
(* alphabetical order, all but those that link_node_to_scope leaves out,   *)
(* over 65535 bytes (parser.c:162), and those the object had before, which *)
(* are skipped with their values unless they are too long for the set.     *)
THEOREM KeysStayOrdered ==
  ASSUME \A o, n \in Nat : Hash(<<o, n>>) \in Nat
  PROVE  ReadersSpec => []KeysOrdered
  <1>0. HashOK
    BY DEF HashOK
  <1>1. ReadersInit => ParseInv
    BY InvHoldsAtFirst, StackAtFirst, KeysAtFirst DEF ReadersInit, ParseInv
  <1>2. ParseInv /\ [ReadersNext]_readersVars => ParseInv'
    BY <1>0, ParseInvKept
  <1>3. ParseInv => KeysOrdered
    BY OrderedShown DEF ParseInv, ParserInv
  <1> QED
    BY <1>1, <1>2, <1>3, PTL DEF ReadersSpec
---------------------------------------------------------------------------
(* Where in the text each node was read.                                   *)

\* What separates child m of an object or array from the next.
Separator(open, m) == IF open = "{" /\ m % 2 = 1 THEN ":" ELSE ","

\* Node i was read from token st[i] on; of those not in U, the closed ones,
\* token en[i] is the last; p tokens have been read.
NodeSpan(text, p, ns, U, st, en, i) ==
  /\ st[i] \in 1 .. p /\ text[st[i]] = ns[i].token
  /\ i \notin U => en[i] \in st[i] .. p

\* The children c of a node that begins at token `from` come one after
\* another, each closed before the next.
ChildSpans(text, open, from, c, U, st, en) ==
  /\ c # <<>> => st[c[1]] = from + 1
  /\ \A m \in 1 .. Len(c) - 1 :
       /\ c[m] \notin U
       /\ text[en[c[m]] + 1] = Mark(Separator(open, m))
       /\ st[c[m + 1]] = en[c[m]] + 2

\* And a closed node, whose last token is `to`, ends right after them.
EndSpan(text, open, from, to, c, U, en) ==
  IF open \in Openers
  THEN /\ text[to] = Mark(Closing(open))
       /\ c = <<>> => to = from + 1
       /\ c # <<>> => to = en[c[Len(c)]] + 1 /\ c[Len(c)] \notin U
       /\ open = "{" => Len(c) % 2 = 0
  ELSE c = <<>> /\ to = from

Span(text, p, ns, U, st, en, o) ==
  /\ NodeSpan(text, p, ns, U, st, en, o)
  /\ ChildSpans(text, ns[o].token.type, st[o], Kids(ns, o), U, st, en)
  /\ o \notin U => EndSpan(text, ns[o].token.type, st[o], en[o], Kids(ns, o), U, en)

Spans(text, p, ns, U, st, en) == \A o \in 1 .. Len(ns) : Span(text, p, ns, U, st, en, o)

\* The last child of open node o, if it has any, is closed, and with the
\* separator after it ends at token p.
Awaited(text, p, ns, U, st, en, o) ==
  LET c == Kids(ns, o) IN
    /\ c = <<>> => st[o] = p
    /\ c # <<>> => /\ c[Len(c)] \notin U
                   /\ en[c[Len(c)]] + 1 = p
                   /\ text[p] = Mark(Separator(ns[o].token.type, Len(c)))

\* A row with something more at its end.
With(f, n, x) == [i \in 1 .. n + 1 |-> IF i = n + 1 THEN x ELSE f[i]]

(* What is known of the other nodes does not depend on the new one.        *)
LEMMA SpanStays ==
  ASSUME NEW text, NEW p \in Nat, NEW q \in Nat, p <= q, NEW ns, NEW ns2, NEW n \in Nat, NEW o \in 1 .. n,
         NEW U, NEW U2, \A i \in 1 .. n : i \in U2 <=> i \in U,
         NEW st, NEW en, NEW st2, NEW en2, \A i \in 1 .. n : st2[i] = st[i] /\ en2[i] = en[i],
         Kids(ns, o) \in Seq(1 .. n), Kids(ns2, o) = Kids(ns, o), ns2[o].token = ns[o].token,
         Span(text, p, ns, U, st, en, o)
  PROVE  Span(text, q, ns2, U2, st2, en2, o)
  <1> DEFINE c == Kids(ns, o)
             k == ns[o].token.type
  <1>1. c \in Seq(1 .. n) /\ Len(c) \in Nat /\ \A m \in 1 .. Len(c) : c[m] \in 1 .. n
    OBVIOUS
  <1>2. \A m \in 1 .. Len(c) : st2[c[m]] = st[c[m]] /\ en2[c[m]] = en[c[m]] /\ (c[m] \in U2 <=> c[m] \in U)
    BY <1>1
  <1>3. c # <<>> => 1 \in 1 .. Len(c) /\ Len(c) \in 1 .. Len(c)
    BY <1>1, EmptySeq
  <1>4. \A m \in 1 .. Len(c) - 1 : m \in 1 .. Len(c) /\ m + 1 \in 1 .. Len(c)
    BY <1>1
  <1>5. /\ NodeSpan(text, p, ns, U, st, en, o)
        /\ ChildSpans(text, k, st[o], c, U, st, en)
        /\ o \notin U => EndSpan(text, k, st[o], en[o], c, U, en)
    BY DEF Span
  <1>6. st2[o] = st[o] /\ en2[o] = en[o] /\ (o \in U2 <=> o \in U)
    OBVIOUS
  <1> HIDE DEF c, k
  <1>7. NodeSpan(text, q, ns2, U2, st2, en2, o)
    BY <1>5, <1>6 DEF NodeSpan
  <1>8. ChildSpans(text, k, st2[o], c, U2, st2, en2)
    BY <1>2, <1>3, <1>4, <1>5, <1>6 DEF ChildSpans
  <1>9. o \notin U2 => EndSpan(text, k, st2[o], en2[o], c, U2, en2)
    BY <1>2, <1>3, <1>5, <1>6 DEF EndSpan
  <1> QED
    BY <1>7, <1>8, <1>9 DEF Span, c, k

(* A new node is read right after what was awaited.                        *)
LEMMA SpansGrow ==
  ASSUME NEW text, NEW p \in Nat, NEW ns, NEW sc, NEW ns2, NEW t, NEW ty, NEW w, LinkedAs(ns, sc, ns2, t, ty, w),
         NEW U, U \subseteq 1 .. Len(ns), NEW st, NEW en, Spans(text, p, ns, U, st, en),
         text[p + 1] = t,
         sc # <<>> => sc[Len(sc)].parent \in U /\ Awaited(text, p, ns, U, st, en, sc[Len(sc)].parent),
         NEW U2, U2 = IF t.type \in Openers THEN U \cup {Len(ns) + 1} ELSE U
  PROVE  Spans(text, p + 1, ns2, U2, With(st, Len(ns), p + 1), With(en, Len(ns), p + 1))
  <1> DEFINE n == Len(ns)
             q == p + 1
             st2 == With(st, n, q)
             en2 == With(en, n, q)
             in == sc[Len(sc)].parent
  <1>1. /\ n \in Nat /\ Len(ns2) = n + 1 /\ q \in Nat /\ p <= q
        /\ \A i \in 1 .. n : ns2[i].token = ns[i].token
        /\ ns2[n + 1].token = t
    BY DEF LinkedAs, TreeOK, Extends
  <1>2. /\ \A i \in 1 .. n : st2[i] = st[i] /\ en2[i] = en[i] /\ (i \in U2 <=> i \in U)
        /\ st2[n + 1] = q /\ en2[n + 1] = q
        /\ n + 1 \in U2 <=> t.type \in Openers
    <2>1. \A i \in 1 .. n : i \in 1 .. n + 1 /\ i # n + 1
      BY <1>1
    <2>2. n + 1 \in 1 .. n + 1 /\ n + 1 \notin 1 .. n
      BY <1>1
    <2> HIDE DEF n, q
    <2> QED
      BY <2>1, <2>2 DEF With, n
  <1>3. \A o \in 1 .. n + 1 : Kids(ns2, o) = KidsWith(ns, sc, o)
    BY KidsLinked DEF LinkedAs
  <1>4. \A o \in 1 .. n : Kids(ns, o) \in Seq(1 .. n)
    BY DEF LinkedAs, KidsOK, Chain
  <1>5. \A o \in 1 .. n : o # n + 1
    BY <1>1
  <1> HIDE DEF n, q, st2, en2, in
  <1>6. Span(text, q, ns2, U2, st2, en2, n + 1)
    <2>1. Kids(ns2, n + 1) = <<>>
      BY <1>1, <1>3 DEF KidsWith, n
    <2>2. NodeSpan(text, q, ns2, U2, st2, en2, n + 1)
      BY <1>1, <1>2 DEF NodeSpan, q
    <2>3. ChildSpans(text, t.type, q, <<>>, U2, st2, en2)
      BY DEF ChildSpans
    <2>4. t.type \notin Openers => EndSpan(text, t.type, q, q, <<>>, U2, en2)
      BY DEF EndSpan
    <2> QED
      BY <1>1, <1>2, <2>1, <2>2, <2>3, <2>4 DEF Span
  <1>7. ASSUME NEW o \in 1 .. n, sc = <<>> \/ o # in
        PROVE  Span(text, q, ns2, U2, st2, en2, o)
    <2>1. Kids(ns2, o) = Kids(ns, o)
      <3>1. o \in 1 .. n + 1
        BY <1>1, <1>7
      <3>2. Kids(ns2, o) = KidsWith(ns, sc, o)
        BY <1>3, <3>1
      <3> QED
        BY <1>5, <1>7, <3>2 DEF KidsWith, n, in
    <2>2. Span(text, p, ns, U, st, en, o)
      BY <1>7 DEF Spans, n
    <2> QED
      BY <1>1, <1>2, <1>4, <1>7, <2>1, <2>2, SpanStays
  <1>8. ASSUME sc # <<>>, in \in 1 .. n
        PROVE  Span(text, q, ns2, U2, st2, en2, in)
    <2> DEFINE c == Kids(ns, in)
               d == Append(c, n + 1)
               k == ns[in].token.type
    <2>1. c \in Seq(1 .. n) /\ Len(c) \in Nat /\ \A m \in 1 .. Len(c) : c[m] \in 1 .. n
      <3>1. c \in Seq(1 .. n) /\ n \in Nat
        BY <1>1, <1>4, <1>8
      <3> QED
        BY <3>1, RowOf
    <2>2. Kids(ns2, in) = d
      <3>1. in \in 1 .. n + 1 /\ in # n + 1
        BY <1>1, <1>5, <1>8
      <3> QED
        BY <1>3, <1>8, <3>1 DEF KidsWith, n, in
    <2>3. /\ Len(d) = Len(c) + 1 /\ d[Len(c) + 1] = n + 1
          /\ \A m \in 1 .. Len(c) : d[m] = c[m]
      BY <2>1, AppendProperties
    <2>4. Awaited(text, p, ns, U, st, en, in) /\ in \in U /\ in \in U2
      BY <1>2, <1>8 DEF in
    <2>5. Span(text, p, ns, U, st, en, in)
      BY <1>8 DEF Spans, n
    <2>6. NodeSpan(text, q, ns2, U2, st2, en2, in)
      <3>1. NodeSpan(text, p, ns, U, st, en, in)
        BY <2>5 DEF Span
      <3> QED
        BY <1>1, <1>2, <1>8, <2>4, <3>1 DEF NodeSpan
    <2>7. ChildSpans(text, k, st2[in], d, U2, st2, en2)
      <3>1. ChildSpans(text, k, st[in], c, U, st, en)
        BY <2>5 DEF Span
      <3>2. st2[in] = st[in]
        BY <1>2, <1>8
      <3>3. CASE c = <<>>
        <4>1. Len(d) = 1 /\ d[1] = n + 1
          <5>1. Len(c) = 0
            BY <3>3
          <5> HIDE DEF c, d
          <5> QED
            BY <2>3, <5>1
        <4>2. st[in] = p
          BY <2>4, <3>3 DEF Awaited
        <4>3. st2[n + 1] = st2[in] + 1
          BY <1>2, <3>2, <4>2 DEF q
        <4> HIDE DEF d, k
        <4> QED
          BY <4>1, <4>3 DEF ChildSpans
      <3>4. CASE c # <<>>
        <4>1. Len(c) \in 1 .. Len(c) /\ 1 \in 1 .. Len(c) /\ Len(c) \in Nat \ {0}
          BY <2>1, <3>4, EmptySeq
        <4>2. /\ c[Len(c)] \notin U /\ en[c[Len(c)]] + 1 = p
              /\ text[p] = Mark(Separator(k, Len(c)))
          BY <2>4, <3>4 DEF Awaited
        <4> HIDE DEF c, d, k
        <4>3. st2[d[1]] = st2[in] + 1
          BY <1>2, <2>1, <2>3, <3>1, <3>2, <3>4, <4>1 DEF ChildSpans
        <4>4. ASSUME NEW m \in 1 .. Len(d) - 1
              PROVE  /\ d[m] \notin U2
                     /\ text[en2[d[m]] + 1] = Mark(Separator(k, m))
                     /\ st2[d[m + 1]] = en2[d[m]] + 2
          <5>1. m \in 1 .. Len(c) /\ d[m] = c[m] /\ c[m] \in 1 .. n
            BY <2>1, <2>3, <4>4
          <5>2. en2[d[m]] = en[c[m]] /\ (d[m] \in U2 <=> c[m] \in U)
            BY <1>2, <5>1
          <5>3. CASE m = Len(c)
            <6>1. d[m + 1] = n + 1 /\ st2[d[m + 1]] = q
              BY <1>2, <2>3, <5>3
            <6>2. en[c[m]] + 1 = p /\ c[m] \notin U /\ text[p] = Mark(Separator(k, m)) /\ en[c[m]] + 2 = q
              <7>1. en[c[m]] + 1 = p
                BY <4>2, <5>3
              <7>2. en[c[m]] \in Int
                <8>1. Span(text, p, ns, U, st, en, c[m]) /\ c[m] \notin U
                  BY <4>2, <5>1, <5>3 DEF Spans, n
                <8> QED
                  BY <8>1 DEF Span, NodeSpan
              <7> QED
                BY <4>2, <5>3, <7>1, <7>2 DEF q
            <6> QED
              BY <5>2, <6>1, <6>2
          <5>4. CASE m # Len(c)
            <6>1. m \in 1 .. Len(c) - 1 /\ m + 1 \in 1 .. Len(c)
              BY <2>1, <5>1, <5>4
            <6>2. d[m + 1] = c[m + 1] /\ c[m + 1] \in 1 .. n
              BY <2>1, <2>3, <6>1
            <6>3. st2[d[m + 1]] = st[c[m + 1]]
              BY <1>2, <6>2
            <6> QED
              BY <3>1, <5>2, <6>1, <6>3 DEF ChildSpans
          <5> QED
            BY <5>3, <5>4
        <4> QED
          BY <4>3, <4>4 DEF ChildSpans
      <3> QED
        BY <3>3, <3>4
    <2> HIDE DEF c, d, k
    <2>8. ns2[in].token.type = k
      BY <1>1, <1>8 DEF k
    <2> QED
      BY <2>2, <2>4, <2>6, <2>7, <2>8 DEF Span
  <1>9. ASSUME NEW o \in 1 .. n + 1 PROVE Span(text, q, ns2, U2, st2, en2, o)
    <2>1. o = n + 1 \/ o \in 1 .. n
      BY <1>1, <1>9
    <2> QED
      BY <1>6, <1>7, <1>8, <2>1
  <1> QED
    BY <1>1, <1>9 DEF Spans, st2, en2, q, n

\* Of n rows the o-th changed.
EndAt(f, n, o, x) == [i \in 1 .. n |-> IF i = o THEN x ELSE f[i]]

\* Node o, open still, may be closed by token p + 1.
MayClose(text, p, ns, sc, U, st, en, o) ==
  /\ KidsOK(ns, sc) /\ Spans(text, p, ns, U, st, en)
  /\ o \in 1 .. Len(ns) /\ o \in U
  /\ ns[o].token.type \in Openers /\ text[p + 1] = Mark(Closing(ns[o].token.type))
  /\ Kids(ns, o) = <<>> => st[o] = p
  /\ Kids(ns, o) # <<>> => en[Kids(ns, o)[Len(Kids(ns, o))]] = p /\ Kids(ns, o)[Len(Kids(ns, o))] \notin U
  /\ ns[o].token.type = "{" => Len(Kids(ns, o)) % 2 = 0

(* An object or array is closed by token p + 1.                            *)
LEMMA SpansClose ==
  ASSUME NEW text, NEW p \in Nat, NEW ns, Len(ns) \in Nat, NEW sc, NEW U, NEW st, NEW en,
         NEW o, MayClose(text, p, ns, sc, U, st, en, o)
  PROVE  Spans(text, p + 1, ns, U \ {o}, st, EndAt(en, Len(ns), o, p + 1))
  <1> DEFINE en2 == EndAt(en, Len(ns), o, p + 1)
  <1>e. \A i \in 1 .. Len(ns) : en2[i] = IF i = o THEN p + 1 ELSE en[i]
    BY DEF EndAt
  <1> HIDE DEF en2
  <1>0. /\ KidsOK(ns, sc) /\ Spans(text, p, ns, U, st, en)
        /\ o \in 1 .. Len(ns) /\ o \in U
        /\ ns[o].token.type \in Openers /\ text[p + 1] = Mark(Closing(ns[o].token.type))
        /\ Kids(ns, o) = <<>> => st[o] = p
        /\ Kids(ns, o) # <<>> => en[Kids(ns, o)[Len(Kids(ns, o))]] = p /\ Kids(ns, o)[Len(Kids(ns, o))] \notin U
        /\ ns[o].token.type = "{" => Len(Kids(ns, o)) % 2 = 0
    BY DEF MayClose
  <1> DEFINE n == Len(ns)  q == p + 1  V == U \ {o}
  <1>1. \A i \in 1 .. n : Kids(ns, i) \in Seq(1 .. n)
    BY <1>0 DEF KidsOK, Chain
  <1>2. ASSUME NEW i \in 1 .. n PROVE Span(text, q, ns, V, st, en2, i)
    <2> DEFINE c == Kids(ns, i)
               k == ns[i].token.type
    <2>0. c \in Seq(1 .. n)
      BY <1>1, <1>2
    <2>1. /\ Len(c) \in Nat
          /\ \A m \in 1 .. Len(c) : c[m] \in 1 .. n
          /\ c # <<>> => 1 \in 1 .. Len(c) /\ Len(c) \in 1 .. Len(c)
          /\ \A m \in 1 .. Len(c) - 1 : m \in 1 .. Len(c) /\ m + 1 \in 1 .. Len(c)
      BY <2>0, RowOf
    <2>2. /\ NodeSpan(text, p, ns, U, st, en, i)
          /\ ChildSpans(text, k, st[i], c, U, st, en)
          /\ i \notin U => EndSpan(text, k, st[i], en[i], c, U, en)
      BY <1>0, <1>2 DEF Spans, Span
    <2>3. \A m \in 1 .. Len(c) : c[m] \notin U => c[m] \notin V /\ c[m] # o /\ en2[c[m]] = en[c[m]]
      BY <1>0, <1>e, <2>1
    <2>4. c # <<>> => Len(c) \in 1 .. Len(c)
      BY <2>1
    <2>5. \A m \in 1 .. Len(c) - 1 : m \in 1 .. Len(c)
      BY <2>1
    <2>6. i = o => en2[i] = q
      BY <1>e
    <2>7. i # o => en2[i] = en[i] /\ (i \in V <=> i \in U)
      BY <1>e
    <2>8. i = o => i \notin V
      OBVIOUS
    <2> HIDE DEF c, k, n, V
    <2>9. NodeSpan(text, q, ns, V, st, en2, i)
      <3>1. st[i] \in 1 .. p /\ st[i] \in 1 .. q /\ q \in st[i] .. q /\ \A e \in st[i] .. p : e \in st[i] .. q
        <4>1. st[i] \in 1 .. p
          BY <2>2 DEF NodeSpan
        <4> QED
          BY <4>1, Later DEF q
      <3>2. i \notin V => en2[i] \in st[i] .. q
        <4>1. i = o => en2[i] \in st[i] .. q
          BY <2>6, <3>1
        <4>2. i # o /\ i \notin V => en2[i] = en[i] /\ en[i] \in st[i] .. p
          BY <2>2, <2>7 DEF NodeSpan
        <4> HIDE DEF q
        <4> QED
          BY <3>1, <4>1, <4>2
      <3> QED
        BY <2>2, <3>1, <3>2 DEF NodeSpan
    <2>10. ChildSpans(text, k, st[i], c, V, st, en2)
      BY <2>2, <2>3, <2>5 DEF ChildSpans
    <2>11. CASE i = o
      <3>1. EndSpan(text, k, st[i], q, c, V, en2)
        BY <1>0, <2>3, <2>4, <2>11 DEF EndSpan, c, k, q
      <3> QED
        BY <2>6, <2>9, <2>10, <2>11, <3>1 DEF Span, c, k
    <2>12. CASE i # o
      <3>1. i \notin V => EndSpan(text, k, st[i], en2[i], c, V, en2)
        BY <2>2, <2>3, <2>4, <2>7, <2>12 DEF EndSpan
      <3> QED
        BY <2>9, <2>10, <3>1 DEF Span, c, k
    <2> QED
      BY <2>11, <2>12
  <1> QED
    BY <1>2 DEF Spans, en2
---------------------------------------------------------------------------
(* How far a parse has read what it has nodes for.                         *)

\* An opening bracket has its node before it is passed.
Made == IF Top(controls) \in Openers THEN pos ELSE pos - 1

\* What is on top when another node comes next, and when none does.
Wanting == Unread \cup Openers \cup {"RULE_MEMBERS", "RULE_ELEMENTS", "RULE_PAIR", "string"}
Passing == Closers \cup {"RULE_NEXT_MEMBER", "RULE_NEXT_ELEMENT", ",", ":"}
Outside == {"eof", "none"}

\* The nodes of the scopes, but that of the innermost once its last token is read.
OpenNodes(sc, top) == {sc[s].parent : s \in {s \in 1 .. Len(sc) : top \in EndMarks => s # Len(sc)}}

\* The last child of node o is closed and ends at token p.
Ended(p, ns, U, st, en, o) ==
  LET c == Kids(ns, o) IN
    /\ c = <<>> => st[o] = p
    /\ c # <<>> => c[Len(c)] \notin U /\ en[c[Len(c)]] = p

\* With this on top, what node o of the innermost scope has read.
ReadInside(text, p, ns, U, st, en, o, top) ==
  /\ top \in EndMarks => en[o] = p
  /\ top \in Wanting => Awaited(text, p, ns, U, st, en, o)
  /\ top \in Openers => Kids(ns, o) = <<>>
  /\ top \in Passing => /\ Ended(p, ns, U, st, en, o)
                        /\ Kids(ns, o) = <<>> => top \in Closers

\* And what is read where no scope is open.
ReadOutside(p, ns, en, top) ==
  /\ Len(ns) = 0 => p = 0
  /\ Len(ns) # 0 => en[1] = p /\ top \in Outside

ReadAll(text, p, ns, sc, top, st, en) ==
  /\ Spans(text, p, ns, OpenNodes(sc, top), st, en)
  /\ Len(ns) # 0 => st[1] = 1
  /\ sc = <<>> => ReadOutside(p, ns, en, top)
  /\ sc # <<>> => ReadInside(text, p, ns, OpenNodes(sc, top), st, en, sc[Len(sc)].parent, top)

\* Every scope is the last child of the one around it.
Nest(ns, sc) ==
  /\ sc # <<>> => sc[1].parent = 1
  /\ \A s \in 1 .. Len(sc) - 1 : sc[s].tail = sc[s + 1].parent

(* What may be on top is of one kind only.                                 *)
LEMMA TopKinds ==
  /\ \A x \in Wanting : x \notin Passing /\ x \notin EndMarks /\ x \notin Outside
  /\ \A x \in Passing : x \notin Openers /\ x \notin EndMarks /\ x \notin Outside
  /\ \A x \in EndMarks : x \notin Openers /\ x \notin Closers /\ x \notin Outside /\ x \notin Wanting /\ x \notin Passing
  /\ \A x \in Openers : x \in Wanting
  /\ \A x \in Closers : x \in Passing
  /\ \A x \in Outside : x \notin EndMarks /\ x \notin Openers /\ x \notin Wanting /\ x \notin Passing
  BY Zenon DEF Wanting, Passing, Outside, Openers, Closers, EndMarks, Unread

(* The open nodes stay the same while no end mark comes up.                *)
LEMMA OpenSame ==
  ASSUME NEW sc, NEW x, x \notin EndMarks, NEW y, y \notin EndMarks
  PROVE  OpenNodes(sc, x) = OpenNodes(sc, y)
  BY DEF OpenNodes

(* Something else is expected.                                             *)
LEMMA ReadSame ==
  ASSUME NEW text, NEW p, NEW ns, NEW sc, NEW st, NEW en, NEW x, ReadAll(text, p, ns, sc, x, st, en),
         NEW y, x \notin EndMarks \cup Outside, y \notin EndMarks \cup Openers,
         sc # <<>> => \/ x \in Wanting /\ y \in Wanting
                      \/ x \in Passing \ Closers /\ y \in Passing
  PROVE  ReadAll(text, p, ns, sc, y, st, en)
  <1>1. OpenNodes(sc, y) = OpenNodes(sc, x)
    BY OpenSame
  <1>2. sc = <<>> => ReadOutside(p, ns, en, y)
    BY DEF ReadAll, ReadOutside
  <1>3. sc # <<>> => ReadInside(text, p, ns, OpenNodes(sc, x), st, en, sc[Len(sc)].parent, y)
    BY TopKinds DEF ReadAll, ReadInside
  <1> QED
    BY <1>1, <1>2, <1>3 DEF ReadAll

(* The bracket that opens the innermost object or array is passed.         *)
LEMMA ReadOpener ==
  ASSUME NEW text, NEW p, NEW ns, NEW sc, sc # <<>>, NEW st, NEW en, NEW x \in Openers,
         ReadAll(text, p, ns, sc, x, st, en),
         NEW y, y \in Closers \/ y \in Wanting \ Openers
  PROVE  ReadAll(text, p, ns, sc, y, st, en)
  <1>1. y \notin EndMarks /\ y \notin Openers /\ x \notin EndMarks /\ x \in Wanting
    BY TopKinds
  <1>2. OpenNodes(sc, y) = OpenNodes(sc, x)
    BY <1>1, OpenSame
  <1> DEFINE o == sc[Len(sc)].parent  U == OpenNodes(sc, x)
  <1>3. Kids(ns, o) = <<>> /\ Awaited(text, p, ns, U, st, en, o)
    BY <1>1 DEF ReadAll, ReadInside
  <1>4. Ended(p, ns, U, st, en, o)
    BY <1>3 DEF Awaited, Ended
  <1>5. ReadInside(text, p, ns, U, st, en, o, y)
    BY <1>1, <1>3, <1>4, TopKinds DEF ReadInside
  <1> QED
    BY <1>2, <1>5 DEF ReadAll

\* Reading on changes nothing of the nodes there are.
LEMMA SpansOn ==
  ASSUME NEW text, NEW p \in Nat, NEW ns, Len(ns) \in Nat, NEW sc, KidsOK(ns, sc), NEW U, NEW st, NEW en,
         Spans(text, p, ns, U, st, en)
  PROVE  Spans(text, p + 1, ns, U, st, en)
  <1>1. \A o \in 1 .. Len(ns) : Kids(ns, o) \in Seq(1 .. Len(ns))
    BY DEF KidsOK, Chain
  <1>2. p + 1 \in Nat /\ p <= p + 1
    OBVIOUS
  <1>3. ASSUME NEW o \in 1 .. Len(ns) PROVE Span(text, p + 1, ns, U, st, en, o)
    <2>1. Span(text, p, ns, U, st, en, o)
      BY DEF Spans
    <2>2. Kids(ns, o) \in Seq(1 .. Len(ns))
      BY <1>1
    <2> QED
      BY <1>2, <2>1, <2>2, SpanStays
  <1> QED
    BY <1>3 DEF Spans

(* A separator is passed.                                                  *)
LEMMA ReadEndMark ==
  ASSUME NEW text, NEW p \in Nat, NEW ns, Len(ns) \in Nat, NEW sc, sc # <<>>, KidsOK(ns, sc), NEW st, NEW en,
         NEW x \in Passing \ Closers, ReadAll(text, p, ns, sc, x, st, en),
         NEW o, o = sc[Len(sc)].parent,
         text[p + 1] = Mark(Separator(ns[o].token.type, Len(Kids(ns, o)))),
         NEW y \in Wanting \ Openers
  PROVE  ReadAll(text, p + 1, ns, sc, y, st, en)
  <1>1. y \notin EndMarks /\ x \notin EndMarks /\ y \notin Passing
    BY TopKinds
  <1> DEFINE U == OpenNodes(sc, x)
  <1>2. OpenNodes(sc, y) = U
    BY <1>1, OpenSame
  <1>3. Ended(p, ns, U, st, en, o) /\ Kids(ns, o) # <<>>
    BY DEF ReadAll, ReadInside
  <1>4. Awaited(text, p + 1, ns, U, st, en, o)
    BY <1>3 DEF Awaited, Ended
  <1>5. Spans(text, p + 1, ns, U, st, en)
    BY SpansOn DEF ReadAll
  <1>6. ReadInside(text, p + 1, ns, U, st, en, o, y)
    BY <1>1, <1>4 DEF ReadInside
  <1> QED
    BY <1>2, <1>5, <1>6 DEF ReadAll

\* Every scope's node is one, and a different one.
LEMMA ScopeNodes ==
  ASSUME NEW ns, NEW sc, TreeOK(ns, sc)
  PROVE  /\ Len(ns) \in Nat /\ Len(sc) \in Nat /\ (sc # <<>> => Len(sc) \in 1 .. Len(sc))
         /\ \A s \in 1 .. Len(sc) : sc[s].parent \in 1 .. Len(ns)
         /\ \A s, t \in 1 .. Len(sc) : sc[s].parent = sc[t].parent => s = t
  <1>1. sc \in Seq(ScopeOf(Len(ns))) /\ Len(ns) \in Nat
    BY DEF TreeOK
  <1>2. Len(sc) \in Nat /\ (sc # <<>> => Len(sc) \in 1 .. Len(sc))
    BY <1>1, EmptySeq
  <1>3. \A s \in 1 .. Len(sc) : sc[s].parent \in 1 .. Len(ns)
    <2> TAKE s \in 1 .. Len(sc)
    <2>1. sc[s] \in ScopeOf(Len(ns))
      BY <1>1, ElementOfSeq
    <2> QED
      BY <2>1 DEF ScopeOf
  <1> QED
    BY <1>1, <1>2, <1>3 DEF TreeOK

(* The last token of the innermost object or array is passed.              *)
LEMMA ReadCloser ==
  ASSUME NEW text, NEW p \in Nat, NEW ns, NEW sc, TreeOK(ns, sc), KidsOK(ns, sc), sc # <<>>, NEW st, NEW en,
         NEW x \in Closers, ReadAll(text, p, ns, sc, x, st, en),
         NEW o, o = sc[Len(sc)].parent, ns[o].token.type \in Openers,
         text[p + 1] = Mark(Closing(ns[o].token.type)),
         ns[o].token.type = "{" => Len(Kids(ns, o)) % 2 = 0,
         NEW y \in EndMarks
  PROVE  \E en2 : ReadAll(text, p + 1, ns, sc, y, st, en2)
  <1> DEFINE n == Len(ns)
             U == OpenNodes(sc, x)
             V == OpenNodes(sc, y)
             en2 == EndAt(en, n, o, p + 1)
             l == Len(sc)
  <1>1. /\ n \in Nat /\ l \in 1 .. l /\ o \in 1 .. n
        /\ \A s, t \in 1 .. l : sc[s].parent = sc[t].parent => s = t
    BY ScopeNodes
  <1>2. x \notin EndMarks /\ x \in Passing /\ y \notin Wanting /\ y \notin Openers /\ y \notin Passing
    BY TopKinds
  <1>3. V = U \ {o} /\ o \in U
    <2>1. U = {sc[s].parent : s \in 1 .. l}
      BY <1>2 DEF OpenNodes
    <2>2. V = {sc[s].parent : s \in {s \in 1 .. l : s # l}}
      BY DEF OpenNodes
    <2> HIDE DEF U, V, l
    <2>3. o = sc[l].parent
      BY DEF l
    <2> QED
      BY <1>1, <2>1, <2>2, <2>3
  <1>4. Spans(text, p, ns, U, st, en) /\ Ended(p, ns, U, st, en, o)
    BY <1>2 DEF ReadAll, ReadInside
  <1>5. \A i \in 1 .. n : en2[i] = IF i = o THEN p + 1 ELSE en[i]
    BY DEF EndAt
  <1> HIDE DEF U, V, en2
  <1>6. Spans(text, p + 1, ns, U \ {o}, st, en2)
    <2>1. /\ Kids(ns, o) = <<>> => st[o] = p
          /\ Kids(ns, o) # <<>> => en[Kids(ns, o)[Len(Kids(ns, o))]] = p /\ Kids(ns, o)[Len(Kids(ns, o))] \notin U
      BY <1>4 DEF Ended
    <2>3. MayClose(text, p, ns, sc, U, st, en, o)
      BY <1>1, <1>3, <1>4, <2>1 DEF MayClose
    <2>4. Len(ns) \in Nat
      BY <1>1
    <2> QED
      BY <2>3, <2>4, SpansClose DEF en2
  <1>7. en2[o] = p + 1
    BY <1>1, <1>5
  <1>8. ReadInside(text, p + 1, ns, V, st, en2, o, y)
    BY <1>2, <1>7 DEF ReadInside
  <1>9. Len(ns) # 0 => st[1] = 1
    BY DEF ReadAll
  <1>10. ReadAll(text, p + 1, ns, sc, y, st, en2)
    BY <1>3, <1>6, <1>8, <1>9 DEF ReadAll, V
  <1> QED
    BY <1>10

(* And its scope is closed.                                                *)
LEMMA ReadEnd ==
  ASSUME NEW text, NEW p, NEW ns, NEW sc, TreeOK(ns, sc), KidsOK(ns, sc), Nest(ns, sc), sc # <<>>, NEW st, NEW en,
         NEW x \in EndMarks, ReadAll(text, p, ns, sc, x, st, en),
         NEW sc2, sc2 = Front(sc),
         NEW y, sc2 = <<>> => y \in Outside, sc2 # <<>> => y \in Passing \ Closers
  PROVE  ReadAll(text, p, ns, sc2, y, st, en) /\ Nest(ns, sc2)
  <1> DEFINE n == Len(ns)
             U == OpenNodes(sc, x)
             V == OpenNodes(sc2, y)
             l == Len(sc)
             o == sc[l].parent
  <1>1. /\ n \in Nat /\ l \in 1 .. l /\ l \in Nat
        /\ \A s \in 1 .. l : sc[s].parent \in 1 .. n
        /\ \A s, t \in 1 .. l : sc[s].parent = sc[t].parent => s = t
    BY ScopeNodes
  <1>2. Len(sc2) = l - 1 /\ \A s \in 1 .. l - 1 : sc2[s] = sc[s]
    BY TreeCloses
  <1>3. y \notin EndMarks
    BY TopKinds
  <1> HIDE DEF n, l
  <1>4. V = U /\ o \notin U
    <2>1. U = {sc[s].parent : s \in {s \in 1 .. l : s # l}}
      BY DEF OpenNodes, l
    <2>2. V = {sc2[s].parent : s \in 1 .. Len(sc2)}
      BY <1>3 DEF OpenNodes
    <2> HIDE DEF U, V
    <2>3. \A s \in 1 .. l : s # l <=> s \in 1 .. l - 1
      BY <1>1
    <2>4. {s \in 1 .. l : s # l} = 1 .. l - 1
      BY <1>1
    <2>5. U = {sc[s].parent : s \in 1 .. l - 1}
      BY <2>1, <2>4
    <2>6. V = U
      BY <1>2, <2>2, <2>5
    <2>7. o \notin U
      BY <1>1, <2>1
    <2> QED
      BY <2>6, <2>7
  <1>5. Spans(text, p, ns, U, st, en) /\ en[o] = p /\ (Len(ns) # 0 => st[1] = 1)
    BY DEF ReadAll, ReadInside, l
  <1>6. CASE sc2 = <<>>
    <2>1. l = 1
      BY <1>1, <1>2, <1>6
    <2>2. o = 1
      BY <2>1 DEF Nest, l
    <2>3. Len(ns) # 0
      BY <1>1, <2>1, <2>2 DEF n
    <2>4. ReadOutside(p, ns, en, y)
      BY <1>5, <1>6, <2>2, <2>3 DEF ReadOutside
    <2>5. Nest(ns, sc2)
      BY <1>1, <1>2, <2>1 DEF Nest
    <2> QED
      BY <1>4, <1>5, <1>6, <2>4, <2>5 DEF ReadAll
  <1>7. CASE sc2 # <<>>
    <2> DEFINE q == sc[l - 1].parent
               c == Kids(ns, q)
    <2>1. l - 1 \in 1 .. l - 1 /\ l - 1 \in 1 .. l
      <3>1. l - 1 # 0
        <4>1. sc2 \in Seq(ScopeOf(Len(ns)))
          BY TreeCloses DEF TreeOK
        <4> QED
          BY <1>2, <1>7, <4>1, EmptySeq
      <3> QED
        BY <1>1, <3>1
    <2>2. sc[l - 1].tail = o
      <3>1. l - 1 + 1 = l
        BY <1>1
      <3> QED
        BY <2>1, <3>1 DEF Nest, l
    <2>3. c # <<>> /\ c[Len(c)] = o
      <3>1. /\ Len(c) = sc[l - 1].count
            /\ sc[l - 1].tail = IF c = <<>> THEN 0 ELSE c[sc[l - 1].count]
        BY <2>1 DEF KidsOK, l
      <3>2. o # 0
        BY <1>1
      <3> QED
        BY <2>2, <3>1, <3>2
    <2>4. Ended(p, ns, U, st, en, q)
      BY <1>4, <1>5, <2>3 DEF Ended
    <2>5. sc2[Len(sc2)].parent = q
      BY <1>2, <2>1
    <2>6. y \notin Wanting /\ y \notin Openers /\ y \in Passing
      BY <1>7, TopKinds
    <2> HIDE DEF c, q, U, V
    <2>7. ReadInside(text, p, ns, U, st, en, q, y)
      BY <1>3, <2>3, <2>4, <2>6 DEF ReadInside, c
    <2>8. ReadAll(text, p, ns, sc2, y, st, en)
      BY <1>4, <1>5, <1>7, <2>5, <2>7 DEF ReadAll, V
    <2>9. Nest(ns, sc2)
      <3>1. sc2[1].parent = 1
        <4>1. sc[1].parent = 1 /\ 1 \in 1 .. l - 1
          BY <1>1, <2>1 DEF Nest
        <4> QED
          BY <1>2, <4>1
      <3>2. ASSUME NEW s \in 1 .. Len(sc2) - 1 PROVE sc2[s].tail = sc2[s + 1].parent
        <4>1. s \in 1 .. l - 1 /\ s + 1 \in 1 .. l - 1 /\ s \in 1 .. Len(sc) - 1
          BY <1>1, <1>2, <3>2 DEF l
        <4> QED
          BY <1>2, <4>1 DEF Nest
      <3> QED
        BY <3>1, <3>2 DEF Nest
    <2> QED
      BY <2>8, <2>9
  <1> QED
    BY <1>6, <1>7

(* What a new node does to the scopes.                                     *)
LEMMA NestGrows ==
  ASSUME NEW ns, NEW sc, NEW ns2, NEW t, NEW ty, NEW w, LinkedAs(ns, sc, ns2, t, ty, w), Nest(ns, sc),
         NEW n, n = Len(ns) + 1
  PROVE  /\ Nest(ns2, Grown(sc, n)) /\ (Grown(sc, n) = <<>> <=> sc = <<>>)
         /\ (sc = <<>> => Len(ns) = 0) => Nest(ns2, Append(Grown(sc, n), Fresh(n)))
  <1> DEFINE g == Grown(sc, n)
             l == Len(sc)
             h == Append(g, Fresh(n))
  <1>1. /\ TreeOK(ns, sc) /\ TreeOK(ns2, g) /\ Len(g) = l
        /\ \A s \in 1 .. l : g[s].parent = sc[s].parent
    BY TreeGrows DEF LinkedAs
  <1>2. l \in Nat /\ (sc # <<>> => l \in 1 .. l) /\ Len(ns) \in Nat
    BY <1>1, ScopeNodes
  <1>3. \A s \in 1 .. l : g[s].tail = IF s = l THEN n ELSE sc[s].tail
    <2> TAKE s \in 1 .. l
    <2>1. sc \in Seq(ScopeOf(Len(ns))) /\ sc[s] \in ScopeOf(Len(ns))
      BY <1>1, ElementOfSeq DEF TreeOK
    <2>2. sc # <<>>
      BY <2>1, NotEmptyAt
    <2>3. g[s] = IF s = l THEN Enlarged(sc[s], n) ELSE sc[s]
      BY <1>2, <2>1, <2>2 DEF Grown
    <2>4. Enlarged(sc[s], n).tail = n
      BY <2>1 DEF Enlarged, ScopeOf
    <2> QED
      BY <2>3, <2>4
  <1>4. g \in Seq(ScopeOf(Len(ns2))) /\ g \in Seq(ScopeOf(Len(ns2)) \cup {Fresh(n)})
    BY <1>1 DEF TreeOK
  <1>5. g = <<>> <=> sc = <<>>
    <2>1. sc \in Seq(ScopeOf(Len(ns)))
      BY <1>1 DEF TreeOK
    <2> HIDE DEF g
    <2> QED
      BY <1>1, <1>4, <2>1, EmptySeq
  <1>6. /\ Len(h) = l + 1 /\ h[l + 1] = Fresh(n)
        /\ \A s \in 1 .. l : h[s] = g[s]
    <2> HIDE DEF g
    <2> QED
      BY <1>1, <1>4, AppendFacts
  <1>7. Fresh(n).parent = n
    BY DEF Fresh
  <1> HIDE DEF g, l, h
  <1>8. Nest(ns2, g)
    <2>1. ASSUME g # <<>> PROVE g[1].parent = 1
      <3>1. sc # <<>> /\ 1 \in 1 .. l
        BY <1>2, <1>5, <2>1
      <3> QED
        BY <1>1, <3>1 DEF Nest
    <2>2. ASSUME NEW s \in 1 .. Len(g) - 1 PROVE g[s].tail = g[s + 1].parent
      <3>1. s \in 1 .. l /\ s + 1 \in 1 .. l /\ s # l /\ s \in 1 .. Len(sc) - 1
        BY <1>1, <1>2, <2>2 DEF l
      <3> QED
        BY <1>1, <1>3, <3>1 DEF Nest
    <2> QED
      BY <2>1, <2>2 DEF Nest
  <1>9. ASSUME sc = <<>> => Len(ns) = 0 PROVE Nest(ns2, h)
    <2>1. h[1].parent = 1
      <3>1. CASE sc = <<>>
        <4>1. l = 0 /\ n = 1
          <5>1. Len(<<>>) = 0
            OBVIOUS
          <5> QED
            BY <1>9, <3>1, <5>1 DEF l
        <4> QED
          BY <1>6, <1>7, <4>1
      <3>2. CASE sc # <<>>
        <4>1. 1 \in 1 .. l
          BY <1>2, <3>2
        <4> QED
          BY <1>1, <1>6, <3>2, <4>1 DEF Nest
      <3> QED
        BY <3>1, <3>2
    <2>2. ASSUME NEW s \in 1 .. Len(h) - 1 PROVE h[s].tail = h[s + 1].parent
      <3>1. s \in 1 .. l
        BY <1>2, <1>6, <2>2
      <3>2. CASE s = l
        BY <1>3, <1>6, <1>7, <3>1, <3>2
      <3>3. CASE s # l
        <4>1. s \in 1 .. Len(g) - 1 /\ s + 1 \in 1 .. l
          BY <1>1, <1>2, <3>1, <3>3
        <4> QED
          BY <1>6, <1>8, <3>1, <4>1 DEF Nest
      <3> QED
        BY <3>2, <3>3
    <2> QED
      BY <2>1, <2>2 DEF Nest
  <1> QED
    BY <1>5, <1>8, <1>9 DEF g, h

\* A node comes next, and there is one before or it is the first.
LEMMA ReadBefore ==
  ASSUME NEW text, NEW p, NEW ns, NEW sc, TreeOK(ns, sc), NEW st, NEW en, NEW x \in Wanting,
         ReadAll(text, p, ns, sc, x, st, en)
  PROVE  LET U == OpenNodes(sc, x) IN
         /\ U = {sc[s].parent : s \in 1 .. Len(sc)} /\ U \subseteq 1 .. Len(ns)
         /\ Spans(text, p, ns, U, st, en)
         /\ Len(ns) # 0 => st[1] = 1
         /\ sc = <<>> => Len(ns) = 0 /\ p = 0
         /\ sc # <<>> => sc[Len(sc)].parent \in U /\ Awaited(text, p, ns, U, st, en, sc[Len(sc)].parent)
  <1> DEFINE U == OpenNodes(sc, x)  R == {sc[s].parent : s \in 1 .. Len(sc)}
  <1>1. x \notin EndMarks /\ x \notin Outside
    BY TopKinds
  <1>2. U = R
    BY <1>1 DEF OpenNodes
  <1>3. R \subseteq 1 .. Len(ns) /\ (sc # <<>> => sc[Len(sc)].parent \in R)
    BY ScopeNodes
  <1>4. sc = <<>> => Len(ns) = 0 /\ p = 0
    BY <1>1 DEF ReadAll, ReadOutside
  <1>5. sc # <<>> => Awaited(text, p, ns, U, st, en, sc[Len(sc)].parent)
    BY DEF ReadAll, ReadInside
  <1>6. Spans(text, p, ns, U, st, en) /\ (Len(ns) # 0 => st[1] = 1)
    BY DEF ReadAll
  <1> HIDE DEF U, R
  <1>7. /\ U = R /\ U \subseteq 1 .. Len(ns)
        /\ sc # <<>> => sc[Len(sc)].parent \in U
    BY <1>2, <1>3
  <1> QED
    BY <1>4, <1>5, <1>6, <1>7 DEF U, R

(* A leaf is linked and passed.                                            *)
LEMMA ReadLeaf ==
  ASSUME NEW text, NEW p \in Nat, NEW ns, NEW sc, NEW ns2, NEW t, NEW ty, NEW w, LinkedAs(ns, sc, ns2, t, ty, w),
         NEW st, NEW en, NEW x \in Wanting, ReadAll(text, p, ns, sc, x, st, en),
         text[p + 1] = t, t.type \notin Openers,
         NEW y, sc = <<>> => y \in Outside, sc # <<>> => y \in Passing \ Closers,
         NEW n, n = Len(ns)
  PROVE  ReadAll(text, p + 1, ns2, Grown(sc, n + 1), y, With(st, n, p + 1), With(en, n, p + 1))
  <1> DEFINE U == OpenNodes(sc, x)
             g == Grown(sc, n + 1)
             st2 == With(st, n, p + 1)
             en2 == With(en, n, p + 1)
             R == {sc[s].parent : s \in 1 .. Len(sc)}
             l == Len(sc)
  <1>1. /\ TreeOK(ns, sc) /\ TreeOK(ns2, g) /\ Len(g) = l
        /\ \A s \in 1 .. l : g[s].parent = sc[s].parent
        /\ Len(ns2) = n + 1 /\ n \in Nat /\ KidsOK(ns, sc)
    <2>1. LinkedAs(ns, sc, ns2, t, ty, w) /\ n = Len(ns)
      OBVIOUS
    <2> HIDE DEF g, l
    <2>2. TreeOK(ns, sc) /\ KidsOK(ns, sc) /\ Extends(ns, sc, ns2, t)
      BY <2>1 DEF LinkedAs
    <2>3. n \in Nat /\ Len(ns2) = n + 1
      BY <2>1, <2>2 DEF TreeOK, Extends
    <2>4. /\ TreeOK(ns2, g) /\ Len(g) = l
          /\ \A s \in 1 .. l : g[s].parent = sc[s].parent
      BY <2>1, <2>2, TreeGrows DEF g, l, LinkedAs
    <2> QED
      BY <2>2, <2>3, <2>4
  <1>2. /\ U = R /\ U \subseteq 1 .. Len(ns)
        /\ Spans(text, p, ns, U, st, en)
        /\ Len(ns) # 0 => st[1] = 1
        /\ sc = <<>> => Len(ns) = 0 /\ p = 0
        /\ sc # <<>> => sc[Len(sc)].parent \in U /\ Awaited(text, p, ns, U, st, en, sc[Len(sc)].parent)
    BY <1>1, ReadBefore
  <1>3. y \notin EndMarks /\ y \notin Wanting /\ y \notin Openers
    BY TopKinds
  <1>4. OpenNodes(g, y) = U
    <2>1. OpenNodes(g, y) = {g[s].parent : s \in 1 .. l}
      BY <1>1, <1>3 DEF OpenNodes
    <2> HIDE DEF g, U
    <2> QED
      BY <1>1, <1>2, <2>1
  <1> HIDE DEF U
  <1>5. Spans(text, p + 1, ns2, U, st2, en2)
    <2>1. U = IF t.type \in Openers THEN U \cup {Len(ns) + 1} ELSE U
      OBVIOUS
    <2>2. LinkedAs(ns, sc, ns2, t, ty, w) /\ n = Len(ns)
      OBVIOUS
    <2> QED
      BY <1>2, <2>1, <2>2, SpansGrow
  <1>6. /\ st2[n + 1] = p + 1 /\ en2[n + 1] = p + 1
        /\ \A i \in 1 .. n : st2[i] = st[i]
    BY <1>1 DEF With
  <1>7. Len(ns2) # 0 /\ st2[1] = 1
    <2>1. CASE n = 0
      <3>1. sc = <<>>
        <4>1. sc # <<>> => sc[Len(sc)].parent \in 1 .. Len(ns)
          BY <1>1, ScopeNodes
        <4> QED
          BY <2>1, <4>1
      <3> QED
        BY <1>1, <1>2, <1>6, <2>1, <3>1
    <2>2. CASE n # 0
      <3>1. 1 \in 1 .. n
        BY <1>1, <2>2
      <3> QED
        BY <1>1, <1>2, <1>6, <2>2, <3>1
    <2> QED
      BY <2>1, <2>2
  <1>8. g = <<>> <=> sc = <<>>
    <2>1. sc \in Seq(ScopeOf(Len(ns))) /\ g \in Seq(ScopeOf(Len(ns2)))
      BY <1>1 DEF TreeOK
    <2> HIDE DEF g
    <2> QED
      BY <1>1, <2>1, EmptySeq
  <1> HIDE DEF g, st2, en2, R
  <1>9. ASSUME sc = <<>> PROVE ReadOutside(p + 1, ns2, en2, y)
    <2>1. n + 1 = 1
      BY <1>1, <1>2, <1>9
    <2> QED
      BY <1>6, <1>7, <1>9, <2>1 DEF ReadOutside
  <1>10. ASSUME sc # <<>>
         PROVE  ReadInside(text, p + 1, ns2, U, st2, en2, sc[l].parent, y)
    <2> DEFINE o == sc[l].parent
               c == Kids(ns, o)
    <2>1. o \in 1 .. n /\ o # n + 1 /\ o \in 1 .. n + 1
      <3>1. o \in 1 .. n
        BY <1>2, <1>10
      <3> HIDE DEF o
      <3> QED
        BY <1>1, <3>1
    <2>2. Kids(ns2, o) = Append(c, n + 1)
      <3>1. KidsOK(ns, sc) /\ TreeOK(ns, sc) /\ Extends(ns, sc, ns2, t) /\ LinksNode(ns, sc, ns2, ty, w)
        BY DEF LinkedAs
      <3>2. Kids(ns2, o) = KidsWith(ns, sc, o)
        BY <2>1, <3>1, KidsLinked
      <3> QED
        BY <1>10, <2>1, <3>2 DEF KidsWith
    <2>3. c \in Seq(1 .. n)
      BY <1>1, <2>1 DEF KidsOK, Chain
    <2>4. /\ Append(c, n + 1) # <<>>
          /\ Append(c, n + 1)[Len(Append(c, n + 1))] = n + 1
      <3> HIDE DEF c
      <3>1. c \in Seq(1 .. n + 1) /\ n + 1 \in 1 .. n + 1
        BY <1>1, <2>3
      <3>2. Append(c, n + 1) # <<>> /\ Last(Append(c, n + 1)) = n + 1
        BY <3>1, AppendLast
      <3> QED
        BY <3>2 DEF Last
    <2>5. n + 1 \notin U
      BY <1>1, <1>2
    <2> HIDE DEF o, c
    <2>6. Ended(p + 1, ns2, U, st2, en2, o)
      BY <1>6, <2>2, <2>4, <2>5 DEF Ended
    <2>7. Kids(ns2, o) # <<>>
      BY <2>2, <2>4
    <2> QED
      BY <1>3, <1>10, <2>6, <2>7 DEF ReadInside, o
  <1>11. sc # <<>> => g[Len(g)].parent = sc[l].parent
    BY <1>1, ScopeNodes
  <1> QED
    BY <1>1, <1>4, <1>5, <1>7, <1>8, <1>9, <1>10, <1>11 DEF ReadAll, g, st2, en2

(* An object or array is linked and opened.                                *)
LEMMA ReadBracket ==
  ASSUME NEW text, NEW p \in Nat, NEW ns, NEW sc, NEW ns2, NEW t, NEW ty, NEW w, LinkedAs(ns, sc, ns2, t, ty, w),
         Nest(ns, sc), NEW st, NEW en, NEW x \in Wanting, ReadAll(text, p, ns, sc, x, st, en),
         text[p + 1] = t, t.type \in Openers,
         NEW n, n = Len(ns), NEW h, h = Append(Grown(sc, n + 1), Fresh(n + 1))
  PROVE  /\ ReadAll(text, p + 1, ns2, h, t.type, With(st, n, p + 1), With(en, n, p + 1))
         /\ Nest(ns2, h)
  <1> DEFINE U == OpenNodes(sc, x)
             V == U \cup {n + 1}
             g == Grown(sc, n + 1)
             st2 == With(st, n, p + 1)
             en2 == With(en, n, p + 1)
             R == {sc[s].parent : s \in 1 .. Len(sc)}
             l == Len(sc)
  <1>0. LinkedAs(ns, sc, ns2, t, ty, w) /\ n = Len(ns)
    OBVIOUS
  <1>1. /\ TreeOK(ns, sc) /\ TreeOK(ns2, g) /\ Len(g) = l
        /\ \A s \in 1 .. l : g[s].parent = sc[s].parent
        /\ Len(ns2) = n + 1 /\ n \in Nat /\ KidsOK(ns, sc)
    <2> HIDE DEF g, l
    <2>2. TreeOK(ns, sc) /\ KidsOK(ns, sc) /\ Extends(ns, sc, ns2, t)
      BY <1>0 DEF LinkedAs
    <2>3. n \in Nat /\ Len(ns2) = n + 1
      BY <1>0, <2>2 DEF TreeOK, Extends
    <2>4. /\ TreeOK(ns2, g) /\ Len(g) = l
          /\ \A s \in 1 .. l : g[s].parent = sc[s].parent
      BY <1>0, <2>2, TreeGrows DEF g, l, LinkedAs
    <2> QED
      BY <2>2, <2>3, <2>4
  <1>2. /\ U = R /\ U \subseteq 1 .. Len(ns)
        /\ Spans(text, p, ns, U, st, en)
        /\ Len(ns) # 0 => st[1] = 1
        /\ sc = <<>> => Len(ns) = 0 /\ p = 0
        /\ sc # <<>> => sc[Len(sc)].parent \in U /\ Awaited(text, p, ns, U, st, en, sc[Len(sc)].parent)
    BY <1>1, ReadBefore
  <1>3. t.type \notin EndMarks /\ t.type \notin Passing
    BY TopKinds
  <1>4. /\ Len(h) = l + 1 /\ h[l + 1] = Fresh(n + 1) /\ l \in Nat
        /\ \A s \in 1 .. l : h[s] = g[s]
    <2>1. g \in Seq(ScopeOf(Len(ns2)) \cup {Fresh(n + 1)})
      BY <1>1 DEF TreeOK
    <2>2. l \in Nat
      BY <1>1, ScopeNodes
    <2> HIDE DEF g
    <2> QED
      BY <1>1, <2>1, <2>2, AppendFacts DEF g
  <1>5. Fresh(n + 1).parent = n + 1
    BY DEF Fresh
  <1>6. OpenNodes(h, t.type) = V
    <2>1. OpenNodes(h, t.type) = {h[s].parent : s \in 1 .. l + 1}
      BY <1>3, <1>4 DEF OpenNodes
    <2> HIDE DEF g, U, l
    <2>2. \A s \in 1 .. l + 1 : s \in 1 .. l \/ s = l + 1
      BY <1>4
    <2>3. \A s \in 1 .. l : s \in 1 .. l + 1 /\ h[s].parent = sc[s].parent
      BY <1>1, <1>4
    <2>4. l + 1 \in 1 .. l + 1 /\ h[l + 1].parent = n + 1
      BY <1>4, <1>5
    <2>5. {h[s].parent : s \in 1 .. l + 1} = {sc[s].parent : s \in 1 .. l} \cup {n + 1}
      BY <2>2, <2>3, <2>4
    <2> QED
      BY <1>2, <2>1, <2>5 DEF l
  <1> HIDE DEF U
  <1>7. Spans(text, p + 1, ns2, V, st2, en2)
    <2>1. V = IF t.type \in Openers THEN U \cup {Len(ns) + 1} ELSE U
      OBVIOUS
    <2> HIDE DEF V
    <2> QED
      BY <1>0, <1>2, <2>1, SpansGrow
  <1>8. /\ st2[n + 1] = p + 1
        /\ \A i \in 1 .. n : st2[i] = st[i]
    BY <1>1 DEF With
  <1>9. st2[1] = 1
    <2>1. CASE n = 0
      <3>1. sc = <<>>
        <4>1. sc # <<>> => sc[Len(sc)].parent \in 1 .. Len(ns)
          BY <1>1, ScopeNodes
        <4> QED
          BY <2>1, <4>1
      <3> QED
        BY <1>1, <1>2, <1>8, <2>1, <3>1
    <2>2. CASE n # 0
      <3>1. 1 \in 1 .. n
        BY <1>1, <2>2
      <3> QED
        BY <1>1, <1>2, <1>8, <2>2, <3>1
    <2> QED
      BY <2>1, <2>2
  <1>10. Kids(ns2, n + 1) = <<>>
    <2>1. KidsOK(ns, sc) /\ TreeOK(ns, sc) /\ Extends(ns, sc, ns2, t) /\ LinksNode(ns, sc, ns2, ty, w)
      BY DEF LinkedAs
    <2>2. n + 1 \in 1 .. Len(ns) + 1
      BY <1>1
    <2>3. Kids(ns2, n + 1) = KidsWith(ns, sc, n + 1)
      BY <2>1, <2>2, KidsLinked
    <2> QED
      BY <2>3 DEF KidsWith
  <1> HIDE DEF V, g, st2, en2, R
  <1>11. Awaited(text, p + 1, ns2, V, st2, en2, n + 1)
    BY <1>8, <1>10 DEF Awaited
  <1>12. ReadInside(text, p + 1, ns2, V, st2, en2, n + 1, t.type)
    BY <1>3, <1>10, <1>11 DEF ReadInside
  <1>13. h # <<>> /\ h[Len(h)].parent = n + 1
    <2>1. Len(h) # 0
      BY <1>4
    <2> QED
      BY <1>4, <1>5, <2>1
  <1>14. ReadAll(text, p + 1, ns2, h, t.type, st2, en2)
    BY <1>6, <1>7, <1>9, <1>12, <1>13 DEF ReadAll
  <1>15. Nest(ns2, h)
    <2>1. n + 1 = Len(ns) + 1 /\ (sc = <<>> => Len(ns) = 0)
      BY <1>2
    <2> QED
      BY <1>0, <2>1, NestGrows
  <1> QED
    BY <1>14, <1>15 DEF st2, en2

\* The stack is for the scopes there are.
Served(c, ns, sc) ==
  /\ c \in Seq(Expectable) /\ TreeOK(ns, sc) /\ KidsOK(ns, sc)
  /\ \E S : Owned(c, S) /\ Paired(S, ns, sc, Due(c))

(* What is on top tells of the innermost scope.                            *)
LEMMA TopMeans ==
  ASSUME NEW c, NEW ns, NEW sc, Served(c, ns, sc),
         NEW o, o = sc[Len(sc)].parent, NEW k, k = ns[o].token.type
  PROVE  /\ Top(c) \in Outside \cup {"RULE_JSON"} => sc = <<>>
         /\ Top(c) \in Objectwise => sc # <<>> /\ k = "{"
         /\ Top(c) \in Arraywise => sc # <<>> /\ k = "["
         /\ c # <<>> => Lies(Top(Front(c)), Top(c))
         /\ sc # <<>> => /\ o \in 1 .. Len(ns) /\ k \in Openers
                         /\ k = "{" => (Len(Kids(ns, o)) % 2 = 1 <=> Due(c))
  <1>1. PICK S : Owned(c, S) /\ Paired(S, ns, sc, Due(c))
    BY DEF Served
  <1>2. c \in Seq(Expectable) /\ TreeOK(ns, sc) /\ KidsOK(ns, sc)
    BY DEF Served
  <1>3. S \in Seq(Openers) /\ Len(S) = Len(sc)
    BY <1>1 DEF Paired
  <1>4. sc = <<>> <=> S = <<>>
    <2>1. sc \in Seq(ScopeOf(Len(ns)))
      BY <1>2 DEF TreeOK
    <2> QED
      BY <1>3, <2>1, EmptySeq
  <1>5. c # <<>> => Lies(Top(Front(c)), Top(c)) /\ Fits(Top(c), S)
    BY <1>1, <1>2, OwnedLess
  <1>6. c = <<>> => Top(c) = "none" /\ S = <<>>
    BY <1>1, OwnedNone DEF Top
  <1>7. Top(c) = "none" => c = <<>>
    <2>1. c # <<>> => Top(c) \in Expectable
      BY <1>2, FrontFacts
    <2>2. "none" \notin Expectable
      BY Zenon DEF Expectable, Symbols, Punctuation, Rules, EndMarks
    <2> QED
      BY <2>1, <2>2
  <1>8. ASSUME sc # <<>>
        PROVE  /\ o \in 1 .. Len(ns) /\ k \in Openers /\ Last(S) = k
               /\ k = "{" => (Len(Kids(ns, o)) % 2 = 1 <=> Due(c))
    <2>1. Len(sc) \in 1 .. Len(sc) /\ o \in 1 .. Len(ns)
      BY <1>2, <1>8, ScopeNodes
    <2> DEFINE l == Len(sc)
    <2>2. S[l] = k /\ Last(S) = S[l]
      BY <1>1, <1>3, <2>1 DEF Paired, Last
    <2>3. k \in Openers
      BY <1>3, <2>1, <2>2
    <2>4. Len(Kids(ns, o)) = sc[l].count
      BY <1>2, <2>1 DEF KidsOK
    <2> HIDE DEF l
    <2>5. S[l] = "{" => (sc[l].count % 2 = 1 <=> (l = Len(sc) /\ Due(c)))
      BY <1>1, <2>1, Zenon DEF Paired, l
    <2>6. k = "{" => (Len(Kids(ns, o)) % 2 = 1 <=> Due(c))
      BY <2>2, <2>4, <2>5, Zenon DEF l
    <2> QED
      BY <2>1, <2>2, <2>3, <2>6
  <1>9. Top(c) \in Outside \cup {"RULE_JSON"} => sc = <<>>
    BY <1>4, <1>5, <1>6, <1>7, Zenon DEF Outside, Fits
  <1>10. Top(c) \in Objectwise => sc # <<>> /\ k = "{"
    <2>1. "none" \notin Objectwise
      BY Zenon DEF Objectwise
    <2> QED
      BY <1>4, <1>5, <1>6, <1>8, <2>1, Zenon DEF Fits
  <1>11. Top(c) \in Arraywise => sc # <<>> /\ k = "["
    <2>1. "none" \notin Arraywise
      BY Zenon DEF Arraywise
    <2> QED
      BY <1>4, <1>5, <1>6, <1>8, <2>1, Zenon DEF Fits
  <1> QED
    BY <1>5, <1>8, <1>9, <1>10, <1>11

(* What comes up once a value is read.                                     *)
LEMMA AfterNode ==
  ASSUME NEW c, NEW ns, NEW sc, Served(c, ns, sc), Top(c) \in AfterValue \cup {":"}
  PROVE  /\ sc = <<>> => Top(c) \in Outside
         /\ sc # <<>> => Top(c) \in Passing \ Closers
  <1> DEFINE y == Top(c)
  <1>1. /\ y \in Outside => sc = <<>>
        /\ y \in Objectwise \cup Arraywise => sc # <<>>
    BY TopMeans, Zenon
  <1> HIDE DEF y
  <1>2. /\ y = "eof" => y \in Outside
        /\ y # "eof" => y \in Objectwise \cup Arraywise /\ y \in Passing \ Closers
    <2>1. y \in AfterValue \cup {":"}
      BY DEF y
    <2> QED
      BY <2>1, Zenon DEF AfterValue, Outside, Objectwise, Arraywise, Passing, Closers
  <1> QED
    BY <1>1, <1>2, Zenon DEF y

---------------------------------------------------------------------------
(* The invariant of the readings.                                          *)

KindOf(type) == IF type = "{" THEN "OBJECT" ELSE IF type = "[" THEN "ARRAY" ELSE "LEAF"

\* The tokens nodes are made of.
NodeTypes == Openers \cup {"string", "scalar"}

\* A node is of the kind of its token, or skipped, which only children of objects are.
TypesOK(ns) ==
  \A i \in 1 .. Len(ns) :
    /\ ns[i].token \in Token /\ ns[i].token.type \in NodeTypes
    /\ \/ ns[i].type = KindOf(ns[i].token.type)
       \/ ns[i].type = "SKIPPED" /\ ns[i].parent \in ObjectsIn(ns)

SpanInv ==
  /\ TypesOK(nodes)
  /\ Nest(nodes, scopes)
  /\ \E st, en : ReadAll(doc, Made, nodes, scopes, Top(controls), st, en)

(* A node more of its kind.                                                *)
LEMMA TypesGrow ==
  ASSUME NEW ns, NEW sc, NEW ns2, NEW t, NEW ty, NEW w, LinkedAs(ns, sc, ns2, t, ty, w), TypesOK(ns),
         t \in Token, t.type \in NodeTypes,
         \/ ty = KindOf(t.type)
         \/ ty = "SKIPPED" /\ sc # <<>> /\ sc[Len(sc)].parent \in ObjectsIn(ns)
  PROVE  TypesOK(ns2)
  <1> DEFINE n == Len(ns)  p == sc[Len(sc)].parent
  <1>1. Extends(ns, sc, ns2, t) /\ LinksNode(ns, sc, ns2, ty, w) /\ n \in Nat
    BY DEF LinkedAs, TreeOK
  <1>2. /\ Len(ns2) = n + 1 /\ ns2[n + 1].token = t /\ ns2[n + 1].type = ty
        /\ \A i \in 1 .. n : ns2[i].token = ns[i].token /\ ns2[i].type = ns[i].type /\ ns2[i].parent = ns[i].parent
        /\ sc # <<>> => ns2[n + 1].parent = p
    BY <1>1 DEF Extends, LinksNode
  <1>3. \A i \in 1 .. n : i \in 1 .. n + 1
    BY <1>1
  <1>4. \A i \in 1 .. n + 1 : i \in 1 .. n \/ i = n + 1
    BY <1>1
  <1>5. ObjectsIn(ns) \subseteq ObjectsIn(ns2)
    BY <1>2, <1>3 DEF ObjectsIn
  <1>6. ASSUME NEW i \in 1 .. Len(ns2)
        PROVE  /\ ns2[i].token \in Token /\ ns2[i].token.type \in NodeTypes
               /\ \/ ns2[i].type = KindOf(ns2[i].token.type)
                  \/ ns2[i].type = "SKIPPED" /\ ns2[i].parent \in ObjectsIn(ns2)
    <2> HIDE DEF n, p
    <2>1. CASE i \in 1 .. n
      <3>1. /\ ns[i].token \in Token /\ ns[i].token.type \in NodeTypes
            /\ \/ ns[i].type = KindOf(ns[i].token.type)
               \/ ns[i].type = "SKIPPED" /\ ns[i].parent \in ObjectsIn(ns)
        BY <2>1 DEF TypesOK, n
      <3> QED
        BY <1>2, <1>5, <2>1, <3>1
    <2>2. CASE i = n + 1
      BY <1>2, <1>5, <2>2 DEF p
    <2> QED
      BY <1>2, <1>4, <2>1, <2>2
  <1> QED
    BY <1>6 DEF TypesOK

(* The kind linked for the token at hand.                                  *)
LEMMA TypesLinked ==
  ASSUME ParserInv, KeysInv, TypesOK(nodes), Current \in Token, Current.type \in NodeTypes,
         NEW type \in {"OBJECT", "ARRAY", "LEAF"}, type = KindOf(Current.type), LinkNode(type, Current, HugeName)
  PROVE  /\ LinkedAs(nodes, scopes, nodes', Current, TypeAs(type, Current), RootWith(Current))
         /\ TypesOK(nodes')
  <1> DEFINE ty == TypeAs(type, Current)  w == RootWith(Current)
  <1>1. LinkedAs(nodes, scopes, nodes', Current, ty, w)
    BY LinkedHere
  <1>2. ty = type \/ (ty = "SKIPPED" /\ InObject)
    BY DEF TypeAs, IsDuplicate, IsKey, ValueOfSkipped
  <1>3. InObject => scopes # <<>> /\ scopes[Len(scopes)].parent \in ObjectsIn(nodes)
    BY KeyMeans
  <1> HIDE DEF ty, w
  <1>4. TypesOK(nodes')
    BY <1>1, <1>2, <1>3, TypesGrow
  <1> QED
    BY <1>1, <1>4 DEF ty, w

(* What holds along a parse, for the stack and the scopes.                 *)
LEMMA ServedNow ==
  ASSUME ParserInv, StackInv, KeysInv
  PROVE  Served(controls, nodes, scopes)
  BY DEF ParserInv, StackInv, KeysInv, StackOK, Served

(* A rule is replaced.                                                     *)
LEMMA SpanExpanding ==
  ASSUME ParserInv, StackInv, KeysInv, SpanInv, ParserInv', StackInv', KeysInv', controls # <<>>,
         NEW s, Expand(s), NEW x, x = Top(controls), NEW y, y = Top(controls'),
         x \notin EndMarks \cup Outside \cup Openers, y \notin EndMarks \cup Openers,
         \/ x = "RULE_JSON"
         \/ x \in Wanting /\ y \in Wanting
         \/ x \in Passing \ Closers /\ y \in Passing
  PROVE  SpanInv'
  <1>1. /\ doc' = doc /\ pos' = pos /\ nodes' = nodes /\ scopes' = scopes
    BY DEF Expand, Push, astVars
  <1>2. Made = pos - 1 /\ Made' = pos - 1
    BY <1>1 DEF Made
  <1>3. x = "RULE_JSON" => scopes = <<>>
    BY ServedNow, TopMeans
  <1>4. PICK st, en : ReadAll(doc, Made, nodes, scopes, x, st, en)
    BY DEF SpanInv
  <1>5. ReadAll(doc, Made, nodes, scopes, y, st, en)
    <2>1. scopes # <<>> => \/ x \in Wanting /\ y \in Wanting
                           \/ x \in Passing \ Closers /\ y \in Passing
      BY <1>3
    <2> QED
      BY <1>4, <2>1, ReadSame
  <1>6. TypesOK(nodes) /\ Nest(nodes, scopes)
    BY DEF SpanInv
  <1> QED
    BY <1>1, <1>2, <1>5, <1>6 DEF SpanInv

(* Nothing changes that was read.                                          *)
LEMMA SpanSame ==
  ASSUME SpanInv, doc' = doc, pos' = pos, controls' = controls, nodes' = nodes, scopes' = scopes
  PROVE  SpanInv'
  BY DEF SpanInv, Made

(* An object or an array is opened.                                        *)
LEMMA SpanOpening ==
  ASSUME ParserInv, StackInv, KeysInv, SpanInv, ParserInv', StackInv', KeysInv', controls # <<>>,
         NEW rule \in {"RULE_OBJECT", "RULE_ARRAY"}, NEW type \in {"OBJECT", "ARRAY"},
         NEW open \in Openers, NEW close \in Closers, NEW end \in EndMarks,
         NEW content \in {"RULE_MEMBERS", "RULE_ELEMENTS"},
         Open(rule, type, open, close, end, content), open = Opening(rule), type = KindOf(open)
  PROVE  SpanInv'
  <1> DEFINE s == IF Ahead.type = close THEN <<end, close, open>> ELSE <<end, close, content, open>>
             t == Current
             n == Len(nodes)
             h == Append(Grown(scopes, n + 1), Fresh(n + 1))
             p == pos - 1
             ty == TypeAs(type, t)
             w == RootWith(t)
  <1>1. Top(controls) = rule /\ controls[Len(controls)] = rule /\ rule \notin Openers /\ rule \in Wanting
    BY TopFacts, Zenon DEF Open, Openers, Wanting, Unread
  <1>2. StackOK(controls) /\ TextOK /\ t.type = open
    BY <1>1 DEF ParserInv, TextOK
  <1>3. open \in Symbols \ {"eof"}
    BY DEF Symbols, Punctuation, Openers
  <1>4. t \in Token /\ pos \in 1 .. Len(doc)
    BY <1>2, <1>3, CurrentFacts
  <1>5. doc[pos] = t /\ Len(doc) \in Nat
    <2>1. doc \in Seq(AnyToken)
      BY <1>2 DEF TextOK
    <2> QED
      BY <1>4, <2>1 DEF Current, TokenAt
  <1>6. CASE UNCHANGED <<doc, pos, controls, nodes, scopes>>
    BY <1>6, SpanSame
  <1>7. CASE /\ controls' = Front(controls) \o s /\ LinkNode(type, t, HugeName)
             /\ scopes' = Append(Linked, NewScope)
             /\ doc' = doc /\ pos' = pos
    <2>1. Top(controls') = open
      <3>1. s = <<end, close, open>> \/ s = <<end, close, content, open>>
        OBVIOUS
      <3> HIDE DEF s
      <3>2. Len(controls') > 0 /\ controls'[Len(controls')] = open
        BY <1>1, <1>2, <1>7, <3>1, OpenStack
      <3>3. Len(<<>>) = 0
        OBVIOUS
      <3> QED
        BY <3>2, <3>3 DEF Top
    <2>2. LinkedAs(nodes, scopes, nodes', t, ty, w) /\ TypesOK(nodes')
      <3>1. /\ type = KindOf(t.type) /\ TypesOK(nodes) /\ type \in {"OBJECT", "ARRAY", "LEAF"}
            /\ t.type \in NodeTypes
        BY <1>2 DEF SpanInv, NodeTypes
      <3> QED
        BY <1>4, <1>7, <3>1, TypesLinked
    <2>3. scopes' = h
      BY <1>7, ScopesGrown
    <2>4. Made = p /\ Made' = pos
      BY <1>1, <1>7, <2>1 DEF Made
    <2>5. p \in Nat /\ p + 1 = pos
      BY <1>4, <1>5
    <2>6. PICK st, en : ReadAll(doc, p, nodes, scopes, rule, st, en)
      BY <1>1, <2>4 DEF SpanInv
    <2>7. Nest(nodes, scopes)
      BY DEF SpanInv
    <2> HIDE DEF s, t, n, h, p, ty, w
    <2>8. /\ ReadAll(doc, p + 1, nodes', h, t.type, With(st, n, p + 1), With(en, n, p + 1))
          /\ Nest(nodes', h)
      <3>1. doc[p + 1] = t /\ t.type \in Openers /\ n = Len(nodes) /\ h = Append(Grown(scopes, n + 1), Fresh(n + 1))
        BY <1>2, <1>5, <2>5 DEF n, h
      <3> QED
        BY <1>1, <2>2, <2>5, <2>6, <2>7, <3>1, ReadBracket
    <2>9. ReadAll(doc', Made', nodes', scopes', Top(controls'), With(st, n, p + 1), With(en, n, p + 1))
      BY <1>2, <1>7, <2>1, <2>3, <2>4, <2>5, <2>8
    <2> QED
      BY <2>2, <2>3, <2>8, <2>9 DEF SpanInv
  <1> HIDE DEF s
  <1> QED
    BY <1>6, <1>7 DEF Open, Push, astVars, s

(* What a token of its kind is.                                            *)
LEMMA MarkIs ==
  ASSUME NEW t \in Token, t.type \notin {"string", "scalar"}
  PROVE  t = Mark(t.type)
  <1>1. t = Scalar \/ (\E n \in Name : t = String(n)) \/ \E type \in Punctuation : t = Mark(type)
    BY DEF Token
  <1>2. Scalar.type = "scalar" /\ \A n : String(n).type = "string"
    BY DEF Scalar, Mark, String
  <1>3. \A type : Mark(type).type = type
    BY DEF Mark
  <1> QED
    BY <1>1, <1>2, <1>3

(* What else a symbol on top says.                                         *)
LEMMA SymbolMeans ==
  ASSUME NEW b, NEW x, Lies(b, x)
  PROVE  /\ x \in {"string", "scalar"} => b \in AfterValue \cup {":"}
         /\ x \in Openers => b \in Closers \cup (Wanting \ Openers)
         /\ x \in Closers => b \in EndMarks
         /\ x \in EndMarks => b \in AfterValue
         /\ x = "," => b \in Wanting \ Openers /\ b \in Objectwise \cup Arraywise
         /\ x = ":" => b \in Wanting \ Openers
         /\ x = "eof" => b = "none"
         /\ x = "RULE_NEXT_MEMBER" => b = "}"
         /\ x = "RULE_NEXT_ELEMENT" => b = "]"
  <1>1. {"RULE_MEMBERS", "RULE_ELEMENTS", "RULE_VALUE"} \subseteq Wanting \ Openers
    BY Zenon DEF Wanting, Unread, Openers
  <1>2. x \in {"string", "scalar"} => b \in AfterValue \cup {":"}
    BY Zenon DEF Lies, Unread
  <1>3. x \in Openers => b \in Closers \cup (Wanting \ Openers)
    BY <1>1, Zenon DEF Lies
  <1>4. x = "," => b \in Wanting \ Openers /\ b \in Objectwise \cup Arraywise
    BY <1>1, Zenon DEF Lies, Objectwise, Arraywise
  <1>5. x = ":" => b \in Wanting \ Openers
    BY <1>1, Zenon DEF Lies
  <1>6. (x \in Closers => b \in EndMarks) /\ (x \in EndMarks => b \in AfterValue) /\ (x = "eof" => b = "none")
    BY Zenon DEF Lies
  <1>7. (x = "RULE_NEXT_MEMBER" => b = "}") /\ (x = "RULE_NEXT_ELEMENT" => b = "]")
    BY Zenon DEF Lies
  <1> QED
    BY <1>2, <1>3, <1>4, <1>5, <1>6, <1>7

(* A token is passed.                                                      *)
LEMMA SpanMatching ==
  ASSUME ParserInv, StackInv, KeysInv, SpanInv, ParserInv', StackInv', KeysInv', controls # <<>>, Match
  PROVE  SpanInv'
  <1> DEFINE t == Current
             c == controls
             d == Front(c)
             o == scopes[Len(scopes)].parent
             k == nodes[o].token.type
             n == Len(nodes)
             p == pos - 1
             x == Top(c)
             y == Top(d)
  <1>1. /\ Expected = x /\ x \in Symbols /\ TextOK /\ n \in Nat /\ c \in Seq(Expectable)
        /\ TreeOK(nodes, scopes) /\ KidsOK(nodes, scopes)
    BY TopFacts DEF Match, ParserInv, StackOK, KeysInv
  <1>2. doc \in Seq(AnyToken) /\ pos \in 1 .. Len(doc) + 1 /\ Len(doc) \in Nat
    <2>1. doc \in Seq(AnyToken) /\ pos \in 1 .. Len(doc) + 1
      BY <1>1 DEF TextOK
    <2> QED
      BY <2>1
  <1>3. d \o <<>> = d
    BY <1>1, FrontFacts, ConcatEmptySeq
  <1>4. CASE UNCHANGED <<doc, pos, controls, nodes, scopes>>
    BY <1>4, SpanSame
  <1>5. CASE /\ t.type = x
             /\ \/ IsLeaf(t.type) /\ LinkNode("LEAF", t, HugeName) /\ scopes' = Linked
                \/ ~IsLeaf(t.type) /\ nodes' = nodes /\ scopes' = scopes
             /\ pos' = IF pos <= Len(doc) THEN pos + 1 ELSE pos
             /\ controls' = d
             /\ doc' = doc
    <2>1. Lies(y, x) /\ Served(c, nodes, scopes)
      BY ServedNow, TopMeans
    <2>2. Served(d, nodes', scopes')
      BY <1>5 DEF ParserInv, StackInv, KeysInv, StackOK, Served
    <2>3. t.type \in Symbols
      BY <1>1, <1>5
    <2>4. TypesOK(nodes) /\ Nest(nodes, scopes)
      BY DEF SpanInv
    <2>5. PICK st, en : ReadAll(doc, Made, nodes, scopes, x, st, en)
      BY DEF SpanInv
    <2>6. t.type # "eof" => /\ t \in Token /\ pos \in 1 .. Len(doc) /\ doc[pos] = t /\ pos' = pos + 1
                            /\ p \in Nat /\ p + 1 = pos
      <3>1. t.type # "eof" => t \in Token /\ pos \in 1 .. Len(doc)
        BY <1>1, <2>3, CurrentFacts
      <3> QED
        BY <1>2, <1>5, <3>1 DEF Current, TokenAt
    <2>7. y \notin Openers => Made' = pos' - 1
      BY <1>5 DEF Made
    <2>8. x \notin Openers => Made = p
      BY DEF Made
    <2>l. ~ IsLeaf(x) => nodes' = nodes /\ scopes' = scopes
      BY <1>5, Zenon
    <2>k. IsLeaf(x) => LinkNode("LEAF", t, HugeName) /\ scopes' = Linked
      BY <1>5, Zenon
    <2>e. x # "eof" => pos' - 1 = pos
      <3>1. x # "eof" => pos' = pos + 1
        BY <1>5, <2>6, Zenon
      <3> QED
        BY <1>2, <3>1
    <2>s. scopes # <<>> =>
            /\ k \in Openers
            /\ k = "{" => (Len(Kids(nodes, o)) % 2 = 1 <=> Due(c))
      BY <2>1, TopMeans
    <2>9. CASE x = "eof"
      <3>1. y = "none" /\ scopes = <<>> /\ y \notin Openers /\ x \notin Openers
        <4>1. x \in Outside /\ x \notin Openers /\ "none" \notin Openers
          BY <2>9, Zenon DEF Outside, Openers
        <4> QED
          BY <2>1, <2>9, <4>1, SymbolMeans, TopMeans
      <3>2. nodes' = nodes /\ scopes' = scopes /\ pos' = pos
        <4>1. pos = Len(doc) + 1
          BY <1>1, <1>5, <2>9, CurrentFacts
        <4>2. ~ IsLeaf(x)
          BY <2>9, Zenon DEF IsLeaf
        <4>3. pos' = pos
          BY <1>2, <1>5, <4>1
        <4> QED
          BY <2>l, <4>2, <4>3, Zenon
      <3>3. y \in Outside /\ y \notin EndMarks /\ x \notin EndMarks
        BY <2>9, <3>1, Zenon DEF Outside, EndMarks
      <3> HIDE DEF t, c, d, o, k, n, x, y
      <3>4. ReadAll(doc, p, nodes, scopes, y, st, en)
        <4>1. OpenNodes(scopes, y) = OpenNodes(scopes, x)
          BY <3>3, OpenSame
        <4>2. ReadAll(doc, p, nodes, scopes, x, st, en)
          BY <2>5, <2>8, <3>1
        <4>3. ReadOutside(p, nodes, en, y)
          BY <3>1, <3>3, <4>2 DEF ReadAll, ReadOutside
        <4> QED
          BY <3>1, <4>1, <4>2, <4>3 DEF ReadAll
      <3>5. Made' = p
        BY <2>7, <3>1, <3>2
      <3> HIDE DEF p
      <3> QED
        BY <1>5, <2>4, <3>2, <3>4, <3>5 DEF SpanInv, y, d, c
    <2>10. CASE x \in Openers
      <3>1. scopes # <<>> /\ ~ IsLeaf(x) /\ x # "eof"
        <4>1. x \in Objectwise \cup Arraywise /\ ~ IsLeaf(x) /\ x # "eof"
          BY <2>10, Zenon DEF Openers, Objectwise, Arraywise, IsLeaf
        <4> QED
          BY <2>1, <4>1, TopMeans
      <3>2. nodes' = nodes /\ scopes' = scopes /\ pos' - 1 = pos
        BY <2>e, <2>l, <3>1, Zenon
      <3>3. y \in Closers \cup (Wanting \ Openers) /\ y \notin Openers
        <4>1. y \in Closers \cup (Wanting \ Openers)
          BY <2>1, <2>10, SymbolMeans
        <4>2. \A z \in Closers : z \notin Openers
          BY TopKinds
        <4> QED
          BY <4>1, <4>2
      <3>4. Made = pos /\ Made' = pos
        BY <2>7, <2>10, <3>2, <3>3 DEF Made
      <3> HIDE DEF t, c, d, o, k, n, p, x, y
      <3>5. ReadAll(doc, pos, nodes, scopes, y, st, en)
        BY <2>5, <2>10, <3>1, <3>3, <3>4, ReadOpener
      <3> QED
        BY <1>5, <2>4, <3>2, <3>4, <3>5 DEF SpanInv, y, d, c
    <2>11. CASE x \in Closers
      <3>1. scopes # <<>> /\ ~ IsLeaf(x) /\ x # "eof" /\ x \notin Openers /\ ~ Due(c) /\ x = Closing(k)
            /\ x \notin {"string", "scalar"}
        <4>1. /\ x \in Objectwise \cup Arraywise /\ ~ IsLeaf(x) /\ x # "eof" /\ x \notin Openers
              /\ x \notin {"string", "scalar"}
          BY <2>11, Zenon DEF Closers, Objectwise, Arraywise, IsLeaf, Openers
        <4>2. ~ Due(c)
          BY <2>11, Zenon DEF Due, DueAt, Unread, Closers
        <4>3. (x \in Objectwise => k = "{") /\ (x \in Arraywise => k = "[") /\ scopes # <<>>
          BY <2>1, <4>1, TopMeans
        <4>4. (x \in Objectwise => x = "}") /\ (x \in Arraywise => x = "]")
          BY <2>11, Zenon DEF Closers, Objectwise, Arraywise
        <4>5. x = Closing(k)
          BY <4>1, <4>3, <4>4, Zenon DEF Closing
        <4> QED
          BY <4>1, <4>2, <4>3, <4>5
      <3>2. nodes' = nodes /\ scopes' = scopes /\ pos' - 1 = pos
        BY <2>e, <2>l, <3>1, Zenon
      <3>3. y \in EndMarks /\ y \notin Openers
        <4>1. y \in EndMarks
          BY <2>1, <2>11, SymbolMeans
        <4> QED
          BY <4>1, TopKinds
      <3>4. Made = p /\ Made' = pos
        BY <2>7, <2>8, <3>1, <3>2, <3>3
      <3>5. doc[p + 1] = Mark(Closing(k)) /\ k \in Openers /\ (k = "{" => Len(Kids(nodes, o)) % 2 = 0)
        <4>1. doc[p + 1] = t /\ t = Mark(t.type)
          BY <1>5, <2>6, <3>1, MarkIs
        <4>2. Len(Kids(nodes, o)) \in Nat
          <5>1. o \in 1 .. n
            BY <2>1, <3>1, TopMeans
          <5>2. Kids(nodes, o) \in Seq(1 .. n)
            BY <1>1, <5>1 DEF KidsOK, Chain
          <5> QED
            BY <5>2
        <4>3. k = "{" => Len(Kids(nodes, o)) % 2 = 0
          <5>1. k = "{" => ~ (Len(Kids(nodes, o)) % 2 = 1)
            BY <2>s, <3>1
          <5> QED
            BY <4>2, <5>1, Parity
        <4> QED
          BY <1>5, <2>s, <3>1, <4>1, <4>3
      <3>6. /\ p \in Nat /\ p + 1 = pos /\ o = scopes[Len(scopes)].parent /\ k = nodes[o].token.type
            /\ ReadAll(doc, p, nodes, scopes, x, st, en)
        BY <2>5, <2>6, <3>1, <3>4, <1>5
      <3> HIDE DEF t, c, d, n, p, x, y, o, k
      <3>7. \E en2 : ReadAll(doc, p + 1, nodes, scopes, y, st, en2)
        BY <1>1, <2>11, <3>1, <3>3, <3>5, <3>6, ReadCloser
      <3> QED
        BY <1>5, <2>4, <3>2, <3>4, <3>6, <3>7 DEF SpanInv, y, d, c
    <2>12. CASE x \in {",", ":"}
      <3>1. ~ IsLeaf(x) /\ x # "eof" /\ x \notin Openers /\ x \in Passing \ Closers /\ x \notin {"string", "scalar"}
        BY <2>12, Zenon DEF IsLeaf, Openers, Passing, Closers
      <3>2. nodes' = nodes /\ scopes' = scopes /\ pos' - 1 = pos
        BY <2>e, <2>l, <3>1, Zenon
      <3>3. y \in Wanting \ Openers
        BY <2>1, <2>12, SymbolMeans
      <3>4. Made = p /\ Made' = pos
        BY <2>7, <2>8, <3>1, <3>2, <3>3
      <3>5. scopes # <<>> /\ (x = ":" => k = "{")
        <4>1. CASE x = ","
          <5>1. y \in Objectwise \cup Arraywise
            BY <2>1, <4>1, SymbolMeans
          <5>2. scopes' # <<>>
            BY <2>2, <5>1, TopMeans
          <5> QED
            BY <3>2, <4>1, <5>2
        <4>2. CASE x = ":"
          <5>1. x \in Objectwise
            BY <4>2, Zenon DEF Objectwise
          <5> QED
            BY <2>1, <5>1, TopMeans
        <4> QED
          BY <2>12, <4>1, <4>2
      <3>6. Due(c) <=> x = ":"
        BY <2>12, Zenon DEF Due, DueAt, Unread
      <3>7. doc[p + 1] = Mark(Separator(k, Len(Kids(nodes, o))))
        <4>1. doc[p + 1] = t /\ t = Mark(t.type)
          BY <1>5, <2>6, <3>1, MarkIs
        <4>2. x = Separator(k, Len(Kids(nodes, o)))
          BY <2>s, <2>12, <3>5, <3>6, Zenon DEF Separator
        <4> QED
          BY <1>5, <4>1, <4>2
      <3>8. /\ p \in Nat /\ p + 1 = pos /\ o = scopes[Len(scopes)].parent /\ k = nodes[o].token.type
            /\ ReadAll(doc, p, nodes, scopes, x, st, en) /\ Len(nodes) \in Nat
        BY <1>1, <2>5, <2>6, <3>1, <3>4, <1>5
      <3> HIDE DEF t, c, d, n, p, x, y, o, k
      <3>9. ReadAll(doc, p + 1, nodes, scopes, y, st, en)
        BY <1>1, <3>1, <3>3, <3>5, <3>7, <3>8, ReadEndMark
      <3> QED
        BY <1>5, <2>4, <3>2, <3>4, <3>8, <3>9 DEF SpanInv, y, d, c
    <2>13. CASE x \in {"string", "scalar"}
      <3>1. /\ IsLeaf(x) /\ x # "eof" /\ x \notin Openers /\ x \in Wanting
            /\ "LEAF" = KindOf(x) /\ x \in NodeTypes
        BY <2>13, Zenon DEF IsLeaf, Openers, Wanting, Unread, KindOf, NodeTypes
      <3>2. LinkNode("LEAF", t, HugeName) /\ scopes' = Grown(scopes, n + 1) /\ pos' - 1 = pos
        <4>1. Linked = Grown(scopes, n + 1)
          BY ScopesGrown
        <4> QED
          BY <2>e, <2>k, <3>1, <4>1, Zenon
      <3>3. y \in AfterValue \cup {":"} /\ y \notin Openers
        <4>1. y \in AfterValue \cup {":"}
          BY <2>1, <2>13, SymbolMeans
        <4>2. y \notin Openers
          BY <4>1, Zenon DEF AfterValue, Openers
        <4> QED
          BY <4>1, <4>2
      <3>4. Made = p /\ Made' = pos
        BY <2>7, <2>8, <3>1, <3>2, <3>3
      <3>5. /\ LinkedAs(nodes, scopes, nodes', t, TypeAs("LEAF", t), RootWith(t))
            /\ TypesOK(nodes')
        BY <1>5, <2>4, <2>6, <3>1, <3>2, TypesLinked
      <3>6. (scopes' = <<>> => y \in Outside) /\ (scopes' # <<>> => y \in Passing \ Closers)
        <4> HIDE DEF d
        <4> QED
          BY <2>2, <3>3, AfterNode
      <3>7. /\ p \in Nat /\ p + 1 = pos /\ doc[p + 1] = t /\ t.type \notin Openers /\ n = Len(nodes)
            /\ ReadAll(doc, p, nodes, scopes, x, st, en)
        BY <2>5, <2>6, <3>1, <3>4, <1>5
      <3> DEFINE ty == TypeAs("LEAF", t)  w == RootWith(t)
      <3> HIDE DEF t, c, d, n, p, x, y, o, k, ty, w
      <3>8. /\ Nest(nodes', scopes')
            /\ scopes' = <<>> <=> scopes = <<>>
        <4>1. LinkedAs(nodes, scopes, nodes', t, ty, w) /\ n + 1 = Len(nodes) + 1
          BY <3>5, <3>7 DEF ty, w
        <4>2. Nest(nodes', Grown(scopes, n + 1)) /\ (Grown(scopes, n + 1) = <<>> <=> scopes = <<>>)
          BY <2>4, <4>1, NestGrows
        <4> QED
          BY <3>2, <4>2
      <3>9. ReadAll(doc, p + 1, nodes', Grown(scopes, n + 1), y, With(st, n, p + 1), With(en, n, p + 1))
        <4>1. LinkedAs(nodes, scopes, nodes', t, ty, w)
          BY <3>5 DEF ty, w
        <4> QED
          BY <3>1, <3>6, <3>7, <3>8, <4>1, ReadLeaf
      <3>10. ReadAll(doc', Made', nodes', scopes', Top(controls'), With(st, n, p + 1), With(en, n, p + 1))
        BY <1>5, <3>2, <3>4, <3>7, <3>9 DEF y, d, c
      <3> QED
        BY <3>5, <3>8, <3>10 DEF SpanInv
    <2> QED
      BY <1>1, <2>9, <2>10, <2>11, <2>12, <2>13, Zenon DEF Symbols, Punctuation, Openers, Closers
  <1> QED
    BY <1>1, <1>3, <1>4, <1>5 DEF Match, Raise, Push, astVars

(* An object or an array is closed.                                        *)
LEMMA SpanClosing ==
  ASSUME ParserInv, StackInv, KeysInv, SpanInv, ParserInv', StackInv', KeysInv', controls # <<>>, Close
  PROVE  SpanInv'
  <1> DEFINE c == controls
             d == Front(c)
             p == pos - 1
             x == Top(c)
             y == Top(d)
  <1>1. /\ x \in EndMarks /\ c \in Seq(Expectable) /\ TreeOK(nodes, scopes) /\ KidsOK(nodes, scopes)
    BY TopFacts DEF Close, EndMarks, ParserInv, StackOK, KeysInv
  <1>2. d \o <<>> = d
    BY <1>1, FrontFacts, ConcatEmptySeq
  <1>3. /\ doc' = doc /\ pos' = pos /\ nodes' = nodes /\ scopes' = Front(scopes) /\ controls' = d
    BY <1>2 DEF Close, Push
  <1>4. scopes # <<>>
    BY StackCloses DEF NodeClosed
  <1>5. Lies(y, x)
    BY ServedNow, TopMeans
  <1>6. y \in AfterValue /\ y \notin Openers /\ x \notin Openers
    <2>1. y \in AfterValue
      BY <1>1, <1>5, SymbolMeans
    <2>2. y \notin Openers
      BY <2>1, Zenon DEF AfterValue, Openers
    <2> QED
      BY <1>1, <2>1, <2>2, TopKinds
  <1>7. Served(d, nodes', scopes')
    BY <1>3 DEF ParserInv, StackInv, KeysInv, StackOK, Served
  <1>8. Made = p /\ Made' = p
    BY <1>3, <1>6 DEF Made
  <1>9. TypesOK(nodes) /\ Nest(nodes, scopes)
    BY DEF SpanInv
  <1>10. PICK st, en : ReadAll(doc, p, nodes, scopes, x, st, en)
    BY <1>8 DEF SpanInv
  <1> HIDE DEF d
  <1>11. (scopes' = <<>> => y \in Outside) /\ (scopes' # <<>> => y \in Passing \ Closers)
    BY <1>6, <1>7, AfterNode
  <1> HIDE DEF c, p, x, y
  <1>12. ReadAll(doc, p, nodes, scopes', y, st, en) /\ Nest(nodes, scopes')
    BY <1>1, <1>3, <1>4, <1>9, <1>10, <1>11, ReadEnd
  <1> QED
    BY <1>3, <1>8, <1>9, <1>12 DEF SpanInv, y

(* So it is at first.                                                      *)
LEMMA SpansAtFirst ==
  ASSUME ParserInit
  PROVE  SpanInv
  <1>1. pos = 1 /\ controls = <<"RULE_JSON">> /\ nodes = <<>> /\ scopes = <<>>
    BY DEF ParserInit, AstInit
  <1> DEFINE x == Top(controls)
  <1>2. x = "RULE_JSON" /\ x \notin Openers /\ x \notin EndMarks
    <2>1. x = "RULE_JSON"
      BY <1>1 DEF Top
    <2> QED
      BY <2>1, Zenon DEF Openers, EndMarks
  <1>3. Made = 0
    BY <1>1, <1>2 DEF Made
  <1>4. Len(nodes) = 0 /\ Len(scopes) = 0 /\ 1 .. 0 = {}
    BY <1>1
  <1> HIDE DEF x
  <1>5. TypesOK(nodes) /\ Nest(nodes, scopes)
    BY <1>1, <1>4 DEF TypesOK, Nest
  <1>6. ReadAll(doc, 0, nodes, scopes, x, <<>>, <<>>)
    <2>1. Spans(doc, 0, nodes, OpenNodes(scopes, x), <<>>, <<>>)
      BY <1>4 DEF Spans
    <2>2. ReadOutside(0, nodes, <<>>, x)
      BY <1>4 DEF ReadOutside
    <2> QED
      BY <1>1, <1>4, <2>1, <2>2 DEF ReadAll
  <1> QED
    BY <1>3, <1>5, <1>6 DEF SpanInv, x

(* What is on top once a rule is replaced.                                 *)
LEMMA TopPushed ==
  ASSUME NEW f \in Seq(Expectable), NEW a \in Expectable, NEW b \in Expectable, NEW c \in Expectable
  PROVE  /\ f \o <<>> = f /\ Top(f \o <<a>>) = a /\ Top(f \o <<a, b>>) = b /\ Top(f \o <<a, b, c>>) = c
  <1>1. /\ f \o <<>> = f /\ f \o <<a>> = Append(f, a) /\ f \o <<a, b>> = Append(Append(f, a), b)
        /\ f \o <<a, b, c>> = Append(Append(Append(f, a), b), c)
    BY Pushes
  <1>2. Append(f, a) \in Seq(Expectable) /\ Top(Append(f, a)) = a
    BY AppendFacts
  <1>3. Append(Append(f, a), b) \in Seq(Expectable) /\ Top(Append(Append(f, a), b)) = b
    BY <1>2, AppendFacts
  <1>4. Top(Append(Append(Append(f, a), b), c)) = c
    BY <1>3, AppendFacts
  <1> QED
    BY <1>1, <1>2, <1>3, <1>4

(* No step of the parser breaks it.                                        *)
LEMMA SpansKeptByStep ==
  ASSUME ParserInv, StackInv, KeysInv, SpanInv, ParserInv', StackInv', KeysInv', ParserStep
  PROVE  SpanInv'
  <1> DEFINE c == controls
             f == Front(c)
             x == Top(c)
  <1>1. c # <<>> /\ Expected = x /\ c \in Seq(Expectable) /\ f \in Seq(Expectable)
    <2>1. c # <<>> /\ c \in Seq(Expectable)
      BY DEF ParserStep, ParserInv, StackOK
    <2> QED
      BY <2>1, TopFacts, FrontFacts
  <1>2. ASSUME NEW s, Expand(s), NEW y, Top(f \o s) = y,
               x \notin EndMarks \cup Outside \cup Openers, y \notin EndMarks \cup Openers,
               \/ x = "RULE_JSON"
               \/ x \in Wanting /\ y \in Wanting
               \/ x \in Passing \ Closers /\ y \in Passing
        PROVE  SpanInv'
    <2>1. y = Top(controls')
      BY <1>2 DEF Expand, Push
    <2> HIDE DEF c, f
    <2> QED
      BY <1>1, <1>2, <2>1, SpanExpanding DEF c
  <1>3. ASSUME NEW s, Expand(s), NEW y, Top(f \o s) = y, y \in Wanting \ Openers, x \in Rules,
               x = "RULE_JSON" \/ x \in Wanting
        PROVE  SpanInv'
    <2>1. x \notin EndMarks \cup Outside \cup Openers
      BY <1>3, Zenon DEF Rules, EndMarks, Outside, Openers
    <2>2. y \notin EndMarks \cup Openers
      BY <1>3, TopKinds
    <2> HIDE DEF x, f
    <2> QED
      BY <1>2, <1>3, <2>1, <2>2
  <1>4. /\ \A a \in {"RULE_VALUE", "RULE_OBJECT", "RULE_ARRAY", "string", "scalar", "RULE_PAIR"} :
             a \in Expectable /\ a \in Wanting \ Openers
        /\ \A a \in {"RULE_NEXT_MEMBER", "RULE_NEXT_ELEMENT", "eof", ":", ",", "RULE_MEMBERS", "RULE_ELEMENTS"} : a \in Expectable
        /\ \A a \in {"RULE_VALUE", "RULE_MEMBERS", "RULE_ELEMENTS", "RULE_PAIR"} : a \in Rules /\ a \in Wanting
        /\ "RULE_JSON" \in Rules
    BY Zenon DEF Expectable, Symbols, Punctuation, Rules, Wanting, Unread, Openers
  <1>u. ASSUME NEW a \in Expectable, NEW b \in Expectable, NEW e \in Expectable
        PROVE  Top(f \o <<a>>) = a /\ Top(f \o <<a, b>>) = b /\ Top(f \o <<a, b, e>>) = e
    <2>1. f \in Seq(Expectable)
      BY <1>1
    <2> HIDE DEF f
    <2> QED
      BY <2>1, TopPushed
  <1>t. \A a \in Expectable : \A b \in Expectable : Top(f \o <<a>>) = a /\ Top(f \o <<a, b>>) = b
    <2> TAKE a \in Expectable
    <2> TAKE b \in Expectable
    <2> HIDE DEF f
    <2>1. Top(f \o <<a>>) = a /\ Top(f \o <<a, b>>) = b /\ Top(f \o <<a, b, a>>) = a
      BY <1>u
    <2> QED
      BY <2>1
  <1> HIDE DEF c, f
  <1>5. CASE Match
    BY <1>1, <1>5, SpanMatching DEF c
  <1>6. CASE ExpandJson
    <2>1. x = "RULE_JSON" /\ Expand(<<"eof", "RULE_VALUE">>)
      BY <1>1, <1>6 DEF ExpandJson
    <2>2. Top(f \o <<"eof", "RULE_VALUE">>) = "RULE_VALUE"
      BY <1>t, <1>4, Zenon
    <2> QED
      BY <1>3, <1>4, <2>1, <2>2, Zenon
  <1>7. CASE ExpandValue
    <2>1. x = "RULE_VALUE"
      BY <1>1, <1>7 DEF ExpandValue
    <2>2. ASSUME NEW a \in {"RULE_OBJECT", "RULE_ARRAY", "string", "scalar"}, Expand(<<a>>) PROVE SpanInv'
      <3>1. a \in Expectable /\ a \in Wanting \ Openers
        BY <1>4, <2>2, Zenon
      <3>2. Top(f \o <<a>>) = a
        BY <1>t, <3>1, Zenon
      <3> QED
        BY <1>3, <1>4, <2>1, <2>2, <3>1, <3>2, Zenon
    <2>3. CASE Current.type = "{" /\ Expand(<<"RULE_OBJECT">>)
      BY <2>2, <2>3, Zenon
    <2>4. CASE Current.type = "[" /\ Expand(<<"RULE_ARRAY">>)
      BY <2>2, <2>4, Zenon
    <2>5. CASE IsLeaf(Current.type) /\ Expand(<<Current.type>>)
      <3>1. Current.type \in {"RULE_OBJECT", "RULE_ARRAY", "string", "scalar"}
        BY <2>5, Zenon DEF IsLeaf
      <3> QED
        BY <2>2, <2>5, <3>1, Zenon
    <2>6. CASE Raise("MALFORMED_JSON")
      BY <2>6, SpanSame DEF Raise, astVars
    <2> QED
      BY <1>7, <2>3, <2>4, <2>5, <2>6 DEF ExpandValue
  <1>8. CASE ExpandObject
    <2>1. /\ "{" \in Openers /\ "}" \in Closers /\ "MARK_OBJECT_END" \in EndMarks /\ "{" = Opening("RULE_OBJECT")
          /\ "OBJECT" = KindOf("{")
      BY Zenon DEF Openers, Closers, EndMarks, Opening, KindOf
    <2> QED
      BY <1>1, <1>8, <2>1, SpanOpening DEF ExpandObject, c
  <1>9. CASE ExpandArray
    <2>1. /\ "[" \in Openers /\ "]" \in Closers /\ "MARK_ARRAY_END" \in EndMarks /\ "[" = Opening("RULE_ARRAY")
          /\ "ARRAY" = KindOf("[")
      BY Zenon DEF Openers, Closers, EndMarks, Opening, KindOf
    <2> QED
      BY <1>1, <1>9, <2>1, SpanOpening DEF ExpandArray, c
  <1>10. CASE ExpandMembers
    <2>1. x = "RULE_MEMBERS" /\ Expand(<<"RULE_NEXT_MEMBER", "RULE_PAIR">>)
      BY <1>1, <1>10 DEF ExpandMembers
    <2>2. Top(f \o <<"RULE_NEXT_MEMBER", "RULE_PAIR">>) = "RULE_PAIR"
      BY <1>t, <1>4, Zenon
    <2> QED
      BY <1>3, <1>4, <2>1, <2>2, Zenon
  <1>11. CASE ExpandElements
    <2>1. x = "RULE_ELEMENTS" /\ Expand(<<"RULE_NEXT_ELEMENT", "RULE_VALUE">>)
      BY <1>1, <1>11 DEF ExpandElements
    <2>2. Top(f \o <<"RULE_NEXT_ELEMENT", "RULE_VALUE">>) = "RULE_VALUE"
      BY <1>t, <1>4, Zenon
    <2> QED
      BY <1>3, <1>4, <2>1, <2>2, Zenon
  <1>12. CASE ExpandPair
    <2>1. x = "RULE_PAIR" /\ Expand(<<"RULE_VALUE", ":", "string">>)
      BY <1>1, <1>12 DEF ExpandPair
    <2>2. Top(f \o <<"RULE_VALUE", ":", "string">>) = "string"
      <3> DEFINE a == "RULE_VALUE"  b == ":"  e == "string"
      <3>1. a \in Expectable /\ b \in Expectable /\ e \in Expectable
        BY <1>4, Zenon
      <3> HIDE DEF a, b, e
      <3>2. Top(f \o <<a>>) = a /\ Top(f \o <<a, b>>) = b /\ Top(f \o <<a, b, e>>) = e
        BY <1>u, <3>1
      <3> QED
        BY <3>2 DEF a, b, e
    <2> QED
      BY <1>3, <1>4, <2>1, <2>2, Zenon
  <1>13. ASSUME NEW rule \in {"RULE_NEXT_MEMBER", "RULE_NEXT_ELEMENT"}, NEW content \in {"RULE_MEMBERS", "RULE_ELEMENTS"},
                ExpandNext(rule, content)
         PROVE  SpanInv'
    <2>1. x = rule /\ (Expand(<<content, ",">>) \/ Expand(<<>>))
      BY <1>1, <1>13 DEF ExpandNext
    <2>2. x \notin EndMarks \cup Outside \cup Openers /\ x \in Passing \ Closers
      BY <1>13, <2>1, Zenon DEF EndMarks, Outside, Openers, Passing, Closers
    <2>3. /\ "," \notin EndMarks \cup Openers /\ "," \in Passing
          /\ \A y \in {"}", "]"} : y \notin EndMarks \cup Openers /\ y \in Passing
      BY Zenon DEF EndMarks, Openers, Passing, Closers
    <2>4. CASE Expand(<<content, ",">>)
      <3>1. Top(f \o <<content, ",">>) = ","
        <4>1. content \in Expectable /\ "," \in Expectable
          BY <1>4, <1>13, Zenon
        <4> QED
          BY <1>t, <4>1, Zenon
      <3> QED
        BY <1>2, <2>2, <2>3, <2>4, <3>1, Zenon
    <2>5. CASE Expand(<<>>)
      <3>1. Lies(Top(f), x)
        BY <1>1, ServedNow, TopMeans DEF f, c
      <3>2. Top(f) \in {"}", "]"}
        BY <1>13, <2>1, <3>1, SymbolMeans, Zenon
      <3>3. f \o <<>> = f
        BY <1>1, ConcatEmptySeq
      <3> HIDE DEF x
      <3> QED
        BY <1>2, <2>2, <2>3, <2>5, <3>2, <3>3, Zenon
    <2> QED
      BY <2>1, <2>4, <2>5
  <1>14. CASE ExpandNextMember
    BY <1>13, <1>14, Zenon DEF ExpandNextMember
  <1>15. CASE ExpandNextElement
    BY <1>13, <1>15, Zenon DEF ExpandNextElement
  <1>16. CASE Close
    BY <1>1, <1>16, SpanClosing DEF c
  <1> QED
    BY <1>5, <1>6, <1>7, <1>8, <1>9, <1>10, <1>11, <1>12, <1>14, <1>15, <1>16 DEF ParserStep

(* And so always.                                                          *)
LEMMA SpansAlways ==
  ASSUME HashOK
  PROVE  ReadersSpec => [](ParseInv /\ SpanInv)
  <1>1. ReadersInit => ParseInv /\ SpanInv
    BY InvHoldsAtFirst, StackAtFirst, KeysAtFirst, SpansAtFirst DEF ReadersInit, ParseInv
  <1>2. ParseInv /\ SpanInv /\ [ReadersNext]_readersVars => (ParseInv /\ SpanInv)'
    <2> SUFFICES ASSUME ParseInv, SpanInv, [ReadersNext]_readersVars PROVE ParseInv' /\ SpanInv'
      OBVIOUS
    <2>1. ParseInv'
      BY ParseInvKept
    <2>2. CASE ParserStep
      <3>1. SpanInv'
        BY <2>1, <2>2, SpansKeptByStep DEF ParseInv
      <3> QED
        BY <2>1, <3>1
    <2>3. CASE UNCHANGED <<doc, pos, controls, nodes, scopes>>
      <3>1. SpanInv'
        BY <2>3, SpanSame
      <3> QED
        BY <2>1, <3>1
    <2>4. CASE Finish
      BY <2>3, <2>4 DEF Finish, astVars
    <2>5. CASE SaxNext /\ UNCHANGED <<pos, controls, depth, status, astVars>>
      <3>1. doc' = doc
        BY <2>5, SaxKeepsText
      <3> QED
        BY <2>3, <2>5, <3>1 DEF astVars
    <2>6. CASE UNCHANGED readersVars
      BY <2>3, <2>6 DEF readersVars, parserVars, astVars
    <2> QED
      BY <2>2, <2>4, <2>5, <2>6 DEF ReadersNext, ParserNext
  <1> QED
    BY <1>1, <1>2, PTL DEF ReadersSpec

---------------------------------------------------------------------------
(* The maps of objects.                                                    *)

(* What maps of one pair, and maps laid over others, have.                 *)
LEMMA MapFacts ==
  ASSUME NEW f, NEW g, NEW n, NEW v
  PROVE  /\ DOMAIN OneName(n, v) = {n} /\ OneName(n, v)[n] = v
         /\ DOMAIN Overlaid(f, g) = DOMAIN f \cup DOMAIN g
         /\ \A m \in DOMAIN f : Overlaid(f, g)[m] = f[m]
         /\ \A m \in DOMAIN g \ DOMAIN f : Overlaid(f, g)[m] = g[m]
         /\ Overlaid(f, g) = [m \in DOMAIN Overlaid(f, g) |-> Overlaid(f, g)[m]]
         /\ OneName(n, v) = [m \in DOMAIN OneName(n, v) |-> OneName(n, v)[m]]
  BY DEF OneName, Overlaid

---------------------------------------------------------------------------
(* The value made from the AST, along its links.                           *)

(* The items are those of the siblings from the first on.                  *)
LEMMA ItemsAlong ==
  ASSUME SiblingsOK(nodes), NEW f, NEW o \in 0 .. Len(nodes)
  PROVE  ItemsOf(f, o) = Valued(f, Rest(nodes)[o])
  <1> DEFINE n == Len(nodes)
             w == Rest(nodes)
             Is(g) == g = [k \in 0 .. n |-> IF k = 0 THEN <<>> ELSE <<f[k]>> \o g[Sibling(k)]]
             h == [k \in 0 .. n |-> Valued(f, w[k])]
             v == CHOOSE g : Is(g)
             T == {k \in 0 .. n : v[k] # h[k]}
  <1>1. n \in Nat /\ \A k \in 1 .. n : nodes[k].nextSibling \in Onward(k, n)
    BY DEF SiblingsOK
  <1>2. /\ w[0] = <<>> /\ \A k \in 1 .. n : w[k] = <<k>> \o w[nodes[k].nextSibling]
        /\ \A k \in 0 .. n : w[k] \in Seq(1 .. n)
    BY RestUnfold, RestRows
  <1>3. ItemsOf(f, o) = v[o]
    BY DEF ItemsOf
  <1> HIDE DEF n, w
  <1>4. \A k \in 1 .. n : Sibling(k) = 0 \/ Sibling(k) \in k + 1 .. n
    BY <1>1 DEF Onward, Sibling
  <1>5. \A k \in 1 .. n : Sibling(k) \in 0 .. n
    BY <1>1, <1>4
  <1>6. ASSUME NEW k \in 0 .. n
        PROVE  h[k] = IF k = 0 THEN <<>> ELSE <<f[k]>> \o h[Sibling(k)]
    <2>1. CASE k = 0
      <3>1. Valued(f, <<>>) = <<>>
        BY DEF Valued
      <3> QED
        BY <1>2, <2>1, <3>1
    <2>2. CASE k # 0
      <3>1. k \in 1 .. n
        BY <1>1, <2>2
      <3> DEFINE s == Sibling(k)
      <3>2. w[k] = <<k>> \o w[s] /\ s \in 0 .. n
        BY <1>2, <1>5, <3>1 DEF Sibling
      <3>3. w[s] \in Seq(1 .. n) /\ h[s] = Valued(f, w[s]) /\ h[k] = Valued(f, w[k])
        BY <1>2, <3>2
      <3> HIDE DEF h, s
      <3>4. Valued(f, <<k>> \o w[s]) = <<f[k]>> \o Valued(f, w[s])
        BY <1>1, <3>1, <3>3, ValuedFirst
      <3> QED
        BY <2>2, <3>2, <3>3, <3>4 DEF s
    <2> QED
      BY <2>1, <2>2
  <1>7. Is(h)
    <2>1. h = [k \in 0 .. n |-> h[k]]
      OBVIOUS
    <2> HIDE DEF h
    <2> QED
      BY <1>6, <2>1
  <1>8. Is(v)
    <2> HIDE DEF Is, h
    <2> QED
      BY <1>7
  <1> HIDE DEF v
  <1>9. \A k \in 0 .. n : v[k] = IF k = 0 THEN <<>> ELSE <<f[k]>> \o v[Sibling(k)]
    <2> HIDE DEF h
    <2> QED
      BY <1>8
  <1>10. T = {}
    <2> SUFFICES ASSUME T # {} PROVE FALSE
      OBVIOUS
    <2> HIDE DEF h
    <2>1. PICK k \in T : \A j \in T : j <= k
      <3>1. T \subseteq 0 .. n
        OBVIOUS
      <3> HIDE DEF T
      <3> QED
        BY <1>1, <3>1, GreatestNat
    <2>2. k \in 0 .. n /\ v[k] # h[k]
      BY <2>1
    <2>3. v[0] = h[0]
      <3>1. 0 \in 0 .. n
        BY <1>1
      <3>2. v[0] = <<>>
        BY <1>9, <3>1
      <3>3. h[0] = <<>>
        BY <1>6, <3>1
      <3> QED
        BY <3>2, <3>3
    <2>4. k \in 1 .. n
      BY <1>1, <2>2, <2>3
    <2>5. Sibling(k) \in 0 .. n /\ Sibling(k) \notin T
      <3>1. CASE Sibling(k) = 0
        BY <1>5, <2>3, <2>4, <3>1
      <3>2. CASE Sibling(k) \in k + 1 .. n
        <4> HIDE DEF T
        <4> QED
          BY <1>1, <1>5, <2>1, <2>4, <3>2
      <3> QED
        BY <1>4, <2>4, <3>1, <3>2
    <2>6. v[Sibling(k)] = h[Sibling(k)]
      BY <2>5
    <2>7. k # 0
      BY <1>1, <2>4
    <2> QED
      BY <1>6, <1>9, <2>2, <2>6, <2>7
  <1>11. o \in 0 .. n
    BY DEF n
  <1>12. v[o] = h[o]
    BY <1>10, <1>11
  <1> QED
    BY <1>3, <1>11, <1>12 DEF w

(* The map of a row of keys has their names, each with what stands behind  *)
(* its key, when no two have one name.                                     *)
LEMMA MapAlong ==
  ASSUME NEW f, NEW w, Len(w) \in Nat,
         \A j, k \in 1 .. Len(w) : KeyName(w[j]) = KeyName(w[k]) => w[j] = w[k]
  PROVE  /\ DOMAIN MapOf(f, w) = {KeyName(w[j]) : j \in 1 .. Len(w)}
         /\ \A j \in 1 .. Len(w) : MapOf(f, w)[KeyName(w[j])] = f[Sibling(w[j])]
         /\ MapOf(f, w) = [n \in DOMAIN MapOf(f, w) |-> MapOf(f, w)[n]]
  <1> DEFINE l == Len(w)
             Is(g) == g = [k \in 0 .. l |-> IF k = 0 THEN EmptyMap
                              ELSE Overlaid(OneName(KeyName(w[k]), f[Sibling(w[k])]), g[k - 1])]
             names(k) == {KeyName(w[j]) : j \in 1 .. k}
             key(n) == CHOOSE j \in 1 .. l : KeyName(w[j]) = n
             h == [k \in 0 .. l |-> [n \in names(k) |-> f[Sibling(w[key(n)])]]]
             v == CHOOSE g : Is(g)
             T == {k \in 0 .. l : v[k] # h[k]}
  <1>1. MapOf(f, w) = v[l]
    BY DEF MapOf
  <1>2. l \in Nat
    OBVIOUS
  <1>3. \A j \in 1 .. l : w[key(KeyName(w[j]))] = w[j]
    <2> TAKE j \in 1 .. l
    <2>1. key(KeyName(w[j])) \in 1 .. l /\ KeyName(w[key(KeyName(w[j]))]) = KeyName(w[j])
      OBVIOUS
    <2> HIDE DEF key
    <2> QED
      BY <2>1
  <1> HIDE DEF l, key
  <1>4. ASSUME NEW k \in 1 .. l
        PROVE  h[k] = Overlaid(OneName(KeyName(w[k]), f[Sibling(w[k])]), h[k - 1])
    <2> DEFINE a == KeyName(w[k])  b == f[Sibling(w[k])]
    <2>1. k \in 0 .. l /\ k - 1 \in 0 .. l
      BY <1>2
    <2>2. names(k) = {a} \cup names(k - 1)
      <3>1. \A j : j \in 1 .. k <=> j = k \/ j \in 1 .. k - 1
        BY <1>2
      <3> QED
        BY <3>1
    <2>3. f[Sibling(w[key(a)])] = b
      BY <1>3
    <2> HIDE DEF names, a, b
    <2>4. /\ h[k] = [n \in names(k) |-> f[Sibling(w[key(n)])]]
          /\ h[k - 1] = [n \in names(k - 1) |-> f[Sibling(w[key(n)])]]
      BY <2>1
    <2> HIDE DEF h
    <2>5. Overlaid(OneName(a, b), h[k - 1]) = [n \in {a} \cup names(k - 1) |-> f[Sibling(w[key(n)])]]
      <3>1. /\ DOMAIN OneName(a, b) = {a} /\ OneName(a, b)[a] = b
        BY MapFacts
      <3>2. DOMAIN h[k - 1] = names(k - 1) /\ \A n \in names(k - 1) : h[k - 1][n] = f[Sibling(w[key(n)])]
        BY <2>4
      <3> QED
        BY <2>3, <3>1, <3>2 DEF Overlaid
    <2> QED
      BY <2>2, <2>4, <2>5 DEF a, b
  <1>5. h[0] = EmptyMap
    <2>1. names(0) = {}
      OBVIOUS
    <2>2. 0 \in 0 .. l
      BY <1>2
    <2>3. h[0] = [n \in names(0) |-> f[Sibling(w[key(n)])]]
      BY <2>2
    <2> HIDE DEF names, h
    <2> QED
      BY <2>1, <2>3 DEF EmptyMap
  <1>6. h = [k \in 0 .. l |-> h[k]]
    OBVIOUS
  <1>7. \A k \in 0 .. l : h[k] = [n \in names(k) |-> f[Sibling(w[key(n)])]]
    OBVIOUS
  <1> HIDE DEF h
  <1>8. \A k \in 0 .. l : k # 0 => k \in 1 .. l
    BY <1>2
  <1>9. Is(h)
    BY <1>4, <1>5, <1>6, <1>8
  <1>10. Is(v)
    <2> HIDE DEF Is
    <2> QED
      BY <1>9
  <1> HIDE DEF v
  <1>11. \A k \in 0 .. l : v[k] = IF k = 0 THEN EmptyMap
                                  ELSE Overlaid(OneName(KeyName(w[k]), f[Sibling(w[k])]), v[k - 1])
    BY <1>10
  <1>12. T = {}
    <2> SUFFICES ASSUME T # {} PROVE FALSE
      OBVIOUS
    <2>1. PICK k \in T : \A j \in T : k <= j
      <3>1. T \subseteq Nat
        BY <1>2
      <3> HIDE DEF T
      <3> QED
        BY <3>1, LeastNat
    <2>2. k \in 0 .. l /\ v[k] # h[k]
      BY <2>1
    <2>3. k # 0
      BY <1>5, <1>11, <2>2
    <2>4. k \in 1 .. l /\ k - 1 \in 0 .. l /\ k - 1 < k
      BY <1>2, <1>8, <2>2, <2>3
    <2>5. k - 1 \notin T
      <3> HIDE DEF T
      <3> QED
        BY <1>2, <2>1, <2>4
    <2>6. v[k - 1] = h[k - 1]
      BY <2>4, <2>5
    <2> QED
      BY <1>4, <1>11, <2>2, <2>3, <2>4, <2>6
  <1>13. v[l] = [n \in names(l) |-> f[Sibling(w[key(n)])]]
    <2>1. l \in 0 .. l
      BY <1>2
    <2> QED
      BY <1>7, <1>12, <2>1
  <1>14. \A j \in 1 .. l : KeyName(w[j]) \in names(l)
    OBVIOUS
  <1> HIDE DEF names
  <1>15. DOMAIN v[l] = names(l) /\ v[l] = [n \in DOMAIN v[l] |-> v[l][n]]
    BY <1>13
  <1>16. \A j \in 1 .. l : v[l][KeyName(w[j])] = f[Sibling(w[j])]
    BY <1>3, <1>13, <1>14
  <1> QED
    BY <1>1, <1>15, <1>16 DEF names, l

=============================================================================
