--------------------------- MODULE GrammarProofs ----------------------------
(***************************************************************************)
(* Both readers of JSON, src/src/parser/parser.c and src/src/parser/sax.c, *)
(* read the grammar, proved: a document they accept is a text of           *)
(* JsonGrammar, and one they find malformed is not, whatever the documents *)
(* and the limits.                                                         *)
(*                                                                         *)
(* The symbols on the parser's stack stand for languages, and so does the  *)
(* stack.  The invariant is that a document is a text of the grammar just  *)
(* when what is left of it is in the language of the stack; every step of  *)
(* the table keeps it.  The languages come first, as sets of texts freed   *)
(* from the sizes JsonGrammar builds them by, then the symbols, what each  *)
(* row of the table does to a language, and the stack.  The frames and the *)
(* stage of the event parser stand for such a stack.                       *)
(*                                                                         *)
(* What the readers make of a text is gathered from it token by token: the *)
(* events a host has heard and the nodes of the AST are those of the       *)
(* tokens passed, so that two readers with one limit agree on a text.      *)
(*                                                                         *)
(* And each node stands for the tokens it was made of: the value made from *)
(* the AST of a text, children first, is the one the grammar gives it.     *)
(***************************************************************************)
EXTENDS ParserProofs
---------------------------------------------------------------------------
\* Upto for sizes to n.
UptoSize(f, n) == f = [i \in 0 .. n |-> IF i = 0 THEN NoTexts ELSE Larger(i, f[i - 1])]

(* What Upto is made of at small sizes does not depend on how far it goes. *)
LEMMA UptoUnique ==
  ASSUME NEW m \in Nat, NEW n \in Nat, NEW f, UptoSize(f, m), NEW g, UptoSize(g, n),
         NEW i \in 0 .. m, i \in 0 .. n
  PROVE  f[i] = g[i]
  <1> DEFINE T == {j \in 0 .. i : f[j] # g[j]}
  <1> SUFFICES ASSUME T # {} PROVE FALSE
    OBVIOUS
  <1>1. PICK j \in T : \A k \in T : j <= k
    <2>1. T \subseteq Nat
      OBVIOUS
    <2> HIDE DEF T
    <2> QED
      BY <2>1, LeastNat
  <1>2. j \in 0 .. i /\ f[j] # g[j] /\ j \in 0 .. m /\ j \in 0 .. n
    BY <1>1
  <1>3. /\ f[j] = (IF j = 0 THEN NoTexts ELSE Larger(j, f[j - 1]))
        /\ g[j] = (IF j = 0 THEN NoTexts ELSE Larger(j, g[j - 1]))
    BY <1>2 DEF UptoSize
  <1>4. j # 0
    BY <1>2, <1>3
  <1>5. j - 1 \in 0 .. i /\ j - 1 \notin T
    <2>1. j - 1 \in 0 .. i /\ j - 1 < j
      BY <1>2, <1>4
    <2> HIDE DEF T
    <2> QED
      BY <1>1, <1>2, <2>1
  <1>6. f[j - 1] = g[j - 1]
    BY <1>5
  <1> QED
    BY <1>2, <1>3, <1>6

(* For every size there is such a function.                                *)
LEMMA UptoExists ==
  ASSUME NEW n \in Nat
  PROVE  \E f : UptoSize(f, n)
  <1> DEFINE T == {m \in Nat : \A f : ~UptoSize(f, m)}
  <1> SUFFICES ASSUME T # {} PROVE FALSE
    OBVIOUS
  <1>1. PICK m \in T : \A k \in T : m <= k
    <2>1. T \subseteq Nat
      OBVIOUS
    <2> HIDE DEF T
    <2> QED
      BY <2>1, LeastNat
  <1>2. m \in Nat /\ \A f : ~UptoSize(f, m)
    BY <1>1
  <1>3. CASE m = 0
    <2> DEFINE f == [i \in 0 .. 0 |-> NoTexts]
    <2>1. UptoSize(f, 0)
      BY DEF UptoSize
    <2> QED
      BY <1>2, <1>3, <2>1
  <1>4. CASE m # 0
    <2>1. m - 1 \in Nat /\ m - 1 \notin T
      <3>1. m - 1 \in Nat /\ m - 1 < m
        BY <1>2, <1>4
      <3> HIDE DEF T
      <3> QED
        BY <1>1, <1>2, <3>1
    <2>2. PICK g : UptoSize(g, m - 1)
      BY <2>1
    <2> DEFINE f == [i \in 0 .. m |-> IF i = m THEN Larger(m, g[m - 1]) ELSE g[i]]
    <2>3. \A i \in 0 .. m : f[i] = IF i = 0 THEN NoTexts ELSE Larger(i, f[i - 1])
      <3> TAKE i \in 0 .. m
      <3>1. CASE i = m
        <4>1. f[m - 1] = g[m - 1] /\ f[m] = Larger(m, g[m - 1])
          BY <1>2, <1>4
        <4> QED
          BY <1>4, <3>1, <4>1
      <3>2. CASE i # m
        <4>1. i \in 0 .. m - 1 /\ f[i] = g[i]
          BY <1>2, <3>2
        <4>2. i # 0 => f[i - 1] = g[i - 1]
          BY <1>2, <3>2
        <4>3. g[i] = IF i = 0 THEN NoTexts ELSE Larger(i, g[i - 1])
          BY <2>2, <4>1 DEF UptoSize
        <4> QED
          BY <4>1, <4>2, <4>3
      <3> QED
        BY <3>1, <3>2
    <2>4. UptoSize(f, m)
      <3>1. f = [i \in 0 .. m |-> f[i]]
        OBVIOUS
      <3> HIDE DEF f
      <3> QED
        BY <2>3, <3>1 DEF UptoSize
    <2> QED
      BY <1>2, <2>4
  <1> QED
    BY <1>3, <1>4

(* The recursion of Upto has a solution.                                   *)
LEMMA UptoUnfold ==
  /\ Upto[0] = NoTexts
  /\ \A n \in Nat \ {0} : Upto[n] = Larger(n, Upto[n - 1])
  <1> DEFINE All(f) == f = [i \in Nat |-> IF i = 0 THEN NoTexts ELSE Larger(i, f[i - 1])]
             part(n) == CHOOSE f : UptoSize(f, n)
             u == [i \in Nat |-> part(i)[i]]
  <1>1. \A n \in Nat : UptoSize(part(n), n)
    BY UptoExists
  <1> HIDE DEF part
  <1>2. \A i \in Nat : u[i] = IF i = 0 THEN NoTexts ELSE Larger(i, u[i - 1])
    <2> TAKE i \in Nat
    <2>1. i \in 0 .. i /\ part(i)[i] = IF i = 0 THEN NoTexts ELSE Larger(i, part(i)[i - 1])
      BY <1>1 DEF UptoSize
    <2>2. ASSUME i # 0 PROVE part(i)[i - 1] = u[i - 1]
      <3>1. i - 1 \in Nat /\ i - 1 \in 0 .. i /\ i - 1 \in 0 .. i - 1
        BY <2>2
      <3>2. part(i)[i - 1] = part(i - 1)[i - 1]
        BY <1>1, <3>1, UptoUnique
      <3> QED
        BY <3>1, <3>2
    <2> QED
      BY <2>1, <2>2
  <1>3. All(u)
    <2>1. u = [i \in Nat |-> u[i]]
      OBVIOUS
    <2> HIDE DEF u
    <2> QED
      BY <1>2, <2>1
  <1>4. Upto = CHOOSE f : All(f)
    BY DEF Upto
  <1>5. All(CHOOSE f : All(f))
    <2> HIDE DEF All
    <2> QED
      BY <1>3
  <1>6. All(Upto)
    BY <1>4, <1>5
  <1> HIDE DEF u
  <1> QED
    BY <1>6

---------------------------------------------------------------------------
(* The texts of the grammar.                                               *)

\* The words over tokens.
Word == Seq(Token)

(* Punctuation is made of tokens.                                          *)
LEMMA Marks1 ==
  /\ \A type \in Punctuation : Mark(type) \in Token
  /\ Scalar \in Token
  /\ \A n \in Name : String(n) \in Token
  BY DEF Token

(* Joining words.                                                          *)
LEMMA Joins ==
  /\ \A v, w \in Word : v \o w \in Word /\ Len(v \o w) = Len(v) + Len(w)
  /\ \A t \in Token : <<t>> \in Word /\ Len(<<t>>) = 1
  /\ \A w \in Word : Len(w) \in Nat
  <1>1. \A v, w \in Word : v \o w \in Word /\ Len(v \o w) = Len(v) + Len(w)
    BY ConcatProperties DEF Word
  <1>2. \A t \in Token : <<t>> \in Word /\ Len(<<t>>) = 1
    BY DEF Word
  <1> QED
    BY <1>1, <1>2 DEF Word

(* Enclosing a word in brackets.                                           *)
LEMMA Encloses ==
  ASSUME NEW open \in Punctuation, NEW close \in Punctuation, NEW w \in Word
  PROVE  Enclose(open, w, close) \in Word /\ Len(Enclose(open, w, close)) = Len(w) + 2
  <1> DEFINE a == <<Mark(open)>>  b == <<Mark(close)>>
  <1>1. a \in Word /\ b \in Word /\ Len(a) = 1 /\ Len(b) = 1
    BY Marks1, Joins
  <1> HIDE DEF a, b
  <1>2. Enclose(open, w, close) = a \o w \o b
    BY DEF Enclose, a, b
  <1>3. a \o w \in Word /\ Len(a \o w) = Len(a) + Len(w) /\ Len(w) \in Nat
    BY <1>1, Joins
  <1>4. a \o w \o b \in Word /\ Len(a \o w \o b) = Len(a \o w) + Len(b)
    BY <1>1, <1>3, Joins
  <1>5. Len(a \o w \o b) = Len(w) + 2
    BY <1>1, <1>3, <1>4
  <1> QED
    BY <1>2, <1>4, <1>5

Sized(texts, n) == \A e \in texts : e.text \in Word /\ Len(e.text) \in Nat /\ 0 < Len(e.text) /\ Len(e.text) <= n

(* A value of a size is a leaf, or in brackets.                            *)
LEMMA ValuesAre ==
  ASSUME NEW n \in Nat \ {0}, NEW less, NEW v
  PROVE  v \in ValuesFrom(n, less) <=>
           \/ v \in Leaves
           \/ n >= 2 /\ \E e \in Short(less.items, n - 2) \cup {NoItems} : v = ArrayOf(e)
           \/ n >= 2 /\ \E e \in Short(less.members, n - 2) \cup {NoMembers} : v = ObjectOf(e)
  <1>1. n < 2 <=> ~ (n >= 2)
    OBVIOUS
  <1> QED
    BY <1>1, Zenon DEF ValuesFrom

(* A list of values is one, or one before others.                          *)
LEMMA ItemsAre ==
  ASSUME NEW n, NEW values, NEW less, NEW e
  PROVE  e \in ItemsFrom(n, values, less) <=>
           \/ \E v \in values : e = OneItem(v)
           \/ \E v \in values : \E d \in Short(less.items, n - 1 - Len(v.text)) : e = MoreItems(v, d)
  BY DEF ItemsFrom

(* A member is a name with a value.                                        *)
LEMMA PairsAre ==
  ASSUME NEW n, NEW values, NEW e
  PROVE  e \in PairsFrom(n, values) <=> \E m \in Name : \E v \in Short(values, n - 2) : e = Pair(m, v)
  BY DEF PairsFrom

(* A list of members is one, or one before others.                         *)
LEMMA MembersAre ==
  ASSUME NEW n, NEW pairs, NEW less, NEW e
  PROVE  e \in MembersFrom(n, pairs, less) <=>
           \/ e \in pairs
           \/ \E p \in pairs : \E d \in Short(less.members, n - 1 - Len(p.text)) : e = MoreMembers(p, d)
  BY DEF MembersFrom

\* A list is its first element, a comma and the others; a member is a name,
\* a colon and its value.
Listed(v, w) == v \o <<Mark(",")>> \o w
Labelled(n, v) == <<String(n), Mark(":")>> \o v

(* The texts of what the grammar puts together.                            *)
LEMMA TextsOf ==
  ASSUME NEW v, NEW e, NEW n
  PROVE  /\ OneItem(v).text = v.text
         /\ MoreItems(v, e).text = Listed(v.text, e.text)
         /\ Pair(n, v).text = Labelled(n, v.text)
         /\ MoreMembers(v, e).text = Listed(v.text, e.text)
         /\ ArrayOf(e).text = Enclose("[", e.text, "]")
         /\ ObjectOf(e).text = Enclose("{", e.text, "}")
         /\ NoItems.text = <<>> /\ NoMembers.text = <<>>
  BY DEF OneItem, MoreItems, Pair, MoreMembers, ArrayOf, ObjectOf, NoItems, NoMembers, Listed, Labelled

(* Their words and lengths.                                                *)
LEMMA ListedFacts ==
  ASSUME NEW v \in Word, NEW w \in Word
  PROVE  Listed(v, w) \in Word /\ Len(Listed(v, w)) = Len(v) + 1 + Len(w)
  <1> DEFINE a == <<Mark(",")>>
  <1>1. a \in Word /\ Len(a) = 1
    BY Marks1, Joins DEF Punctuation
  <1> HIDE DEF a
  <1>2. v \o a \in Word /\ Len(v \o a) = Len(v) + Len(a) /\ Len(v) \in Nat /\ Len(w) \in Nat
    BY <1>1, Joins
  <1>3. v \o a \o w \in Word /\ Len(v \o a \o w) = Len(v \o a) + Len(w)
    BY <1>2, Joins
  <1>4. Len(v \o a \o w) = Len(v) + 1 + Len(w)
    BY <1>1, <1>2, <1>3
  <1> QED
    BY <1>3, <1>4 DEF Listed, a

(* A name, a colon and a text make a text of two more tokens.              *)
LEMMA LabelledFacts ==
  ASSUME NEW n \in Name, NEW v \in Word
  PROVE  Labelled(n, v) \in Word /\ Len(Labelled(n, v)) = Len(v) + 2
  <1> DEFINE a == <<String(n), Mark(":")>>
  <1>1. a \in Word /\ Len(a) = 2
    <2>1. String(n) \in Token /\ Mark(":") \in Token
      BY Marks1 DEF Punctuation
    <2> QED
      BY <2>1 DEF Word
  <1> HIDE DEF a
  <1>2. a \o v \in Word /\ Len(a \o v) = Len(a) + Len(v) /\ Len(v) \in Nat
    BY <1>1, Joins
  <1>3. Len(a \o v) = Len(v) + 2
    BY <1>1, <1>2
  <1> QED
    BY <1>2, <1>3 DEF Labelled, a

(* The texts of leaves have one token.                                     *)
LEMMA LeafFacts ==
  ASSUME NEW e
  PROVE  e \in Leaves => e.text \in Word /\ Len(e.text) = 1
  <1>1. \A t \in Token : <<t>> \in Word /\ Len(<<t>>) = 1
    BY Joins
  <1>2. CASE e = [text |-> <<Scalar>>, value |-> ScalarValue]
    <2>1. e.text = <<Scalar>>
      BY <1>2
    <2> QED
      BY <1>1, <2>1, Marks1
  <1>3. ASSUME NEW n \in Name, e = [text |-> <<String(n)>>, value |-> StringValue(n)]
        PROVE  e.text \in Word /\ Len(e.text) = 1
    <2>1. e.text = <<String(n)>>
      BY <1>3
    <2> QED
      BY <1>1, <2>1, Marks1
  <1> QED
    BY <1>2, <1>3 DEF Leaves

(* Made of texts below a size, values, lists and members have theirs.      *)
LEMMA ValuesSized ==
  ASSUME NEW n \in Nat \ {0}, NEW less, Sized(less.items, n - 1), Sized(less.members, n - 1)
  PROVE  Sized(ValuesFrom(n, less), n)
  <1>0. <<>> \in Word /\ Len(<<>>) = 0
    BY DEF Word
  <1>1. ASSUME NEW e \in Short(less.items, n - 2) \cup {NoItems}, n >= 2
        PROVE  e.text \in Word /\ Len(e.text) \in Nat /\ Len(e.text) <= n - 2
    <2>1. CASE e \in Short(less.items, n - 2)
      BY <2>1 DEF Short, Sized
    <2>2. CASE e = NoItems
      BY <1>0, <1>1, <2>2 DEF NoItems
    <2> QED
      BY <1>1, <2>1, <2>2
  <1>2. ASSUME NEW e \in Short(less.members, n - 2) \cup {NoMembers}, n >= 2
        PROVE  e.text \in Word /\ Len(e.text) \in Nat /\ Len(e.text) <= n - 2
    <2>1. CASE e \in Short(less.members, n - 2)
      BY <2>1 DEF Short, Sized
    <2>2. CASE e = NoMembers
      BY <1>0, <1>2, <2>2 DEF NoMembers
    <2> QED
      BY <1>2, <2>1, <2>2
  <1>3. ASSUME NEW w \in Word, Len(w) \in Nat, Len(w) <= n - 2, NEW open \in Punctuation, NEW close \in Punctuation,
               NEW t, t = Enclose(open, w, close)
        PROVE  t \in Word /\ Len(t) \in Nat /\ 0 < Len(t) /\ Len(t) <= n
    <2>1. t \in Word /\ Len(t) = Len(w) + 2
      BY <1>3, Encloses
    <2> QED
      BY <1>3, <2>1
  <1>4. /\ "[" \in Punctuation /\ "]" \in Punctuation
        /\ "{" \in Punctuation /\ "}" \in Punctuation
    BY DEF Punctuation
  <1> SUFFICES ASSUME NEW v \in ValuesFrom(n, less)
               PROVE  v.text \in Word /\ Len(v.text) \in Nat /\ 0 < Len(v.text) /\ Len(v.text) <= n
    BY DEF Sized
  <1>5. CASE v \in Leaves
    <2>1. v.text \in Word /\ Len(v.text) = 1
      BY <1>5, LeafFacts
    <2> QED
      BY <2>1
  <1>6. ASSUME n >= 2, NEW e \in Short(less.items, n - 2) \cup {NoItems}, v = ArrayOf(e)
        PROVE  v.text \in Word /\ Len(v.text) \in Nat /\ 0 < Len(v.text) /\ Len(v.text) <= n
    <2>1. v.text = Enclose("[", e.text, "]")
      BY <1>6, TextsOf, Zenon
    <2>2. e.text \in Word /\ Len(e.text) \in Nat /\ Len(e.text) <= n - 2
      BY <1>1, <1>6
    <2> QED
      BY <1>3, <1>4, <2>1, <2>2, Zenon
  <1>7. ASSUME n >= 2, NEW e \in Short(less.members, n - 2) \cup {NoMembers}, v = ObjectOf(e)
        PROVE  v.text \in Word /\ Len(v.text) \in Nat /\ 0 < Len(v.text) /\ Len(v.text) <= n
    <2>1. v.text = Enclose("{", e.text, "}")
      BY <1>7, TextsOf, Zenon
    <2>2. e.text \in Word /\ Len(e.text) \in Nat /\ Len(e.text) <= n - 2
      BY <1>2, <1>7
    <2> QED
      BY <1>3, <1>4, <2>1, <2>2, Zenon
  <1>8. \/ v \in Leaves
        \/ n >= 2 /\ \E e \in Short(less.items, n - 2) \cup {NoItems} : v = ArrayOf(e)
        \/ n >= 2 /\ \E e \in Short(less.members, n - 2) \cup {NoMembers} : v = ObjectOf(e)
    BY ValuesAre, Zenon
  <1> QED
    BY <1>5, <1>6, <1>7, <1>8, Zenon

(* A text, a comma and another: the size of a list.                        *)
LEMMA ListedSized ==
  ASSUME NEW n \in Nat \ {0}, NEW v, NEW w, v \in Word, Len(v) \in Nat, 0 < Len(v),
         w \in Word, Len(w) \in Nat, Len(w) <= n - 1 - Len(v), NEW t, t = Listed(v, w)
  PROVE  t \in Word /\ Len(t) \in Nat /\ 0 < Len(t) /\ Len(t) <= n
  <1>1. t \in Word /\ Len(t) = Len(v) + 1 + Len(w)
    BY ListedFacts
  <1> QED
    BY <1>1

(* So the elements have their size ...                                     *)
LEMMA ItemsSized ==
  ASSUME NEW n \in Nat \ {0}, NEW less, Sized(less.items, n - 1), NEW values, Sized(values, n)
  PROVE  Sized(ItemsFrom(n, values, less), n)
  <1> SUFFICES ASSUME NEW e \in ItemsFrom(n, values, less)
               PROVE  e.text \in Word /\ Len(e.text) \in Nat /\ 0 < Len(e.text) /\ Len(e.text) <= n
    BY DEF Sized
  <1>1. ASSUME NEW v \in values, e = OneItem(v)
        PROVE  e.text \in Word /\ Len(e.text) \in Nat /\ 0 < Len(e.text) /\ Len(e.text) <= n
    <2>1. e.text = v.text
      BY <1>1, TextsOf
    <2> QED
      BY <2>1 DEF Sized
  <1>2. ASSUME NEW v \in values, NEW d \in Short(less.items, n - 1 - Len(v.text)), e = MoreItems(v, d)
        PROVE  e.text \in Word /\ Len(e.text) \in Nat /\ 0 < Len(e.text) /\ Len(e.text) <= n
    <2>1. d.text \in Word /\ Len(d.text) \in Nat /\ Len(d.text) <= n - 1 - Len(v.text)
      BY DEF Short, Sized
    <2>2. v.text \in Word /\ Len(v.text) \in Nat /\ 0 < Len(v.text)
      BY DEF Sized
    <2>3. e.text = Listed(v.text, d.text)
      BY <1>2, TextsOf
    <2> QED
      BY <2>1, <2>2, <2>3, ListedSized
  <1>3. \/ \E v \in values : e = OneItem(v)
        \/ \E v \in values : \E d \in Short(less.items, n - 1 - Len(v.text)) : e = MoreItems(v, d)
    BY DEF ItemsFrom
  <1> QED
    BY <1>1, <1>2, <1>3, Zenon

(* ... the members ...                                                     *)
LEMMA PairsSized ==
  ASSUME NEW n \in Nat \ {0}, NEW values, Sized(values, n)
  PROVE  Sized(PairsFrom(n, values), n)
  <1> SUFFICES ASSUME NEW e \in PairsFrom(n, values)
               PROVE  e.text \in Word /\ Len(e.text) \in Nat /\ 0 < Len(e.text) /\ Len(e.text) <= n
    BY DEF Sized
  <1>1. PICK m \in Name : \E v \in Short(values, n - 2) : e = Pair(m, v)
    BY PairsAre
  <1>2. PICK v \in Short(values, n - 2) : e = Pair(m, v)
    BY <1>1
  <1>3. v.text \in Word /\ Len(v.text) \in Nat /\ Len(v.text) <= n - 2
    BY DEF Short, Sized
  <1>4. e.text = Labelled(m, v.text)
    BY <1>2, TextsOf
  <1>5. e.text \in Word /\ Len(e.text) = Len(v.text) + 2
    BY <1>3, <1>4, LabelledFacts
  <1> QED
    BY <1>3, <1>5

(* ... and the lists of members.                                           *)
LEMMA MembersSized ==
  ASSUME NEW n \in Nat \ {0}, NEW less, Sized(less.members, n - 1), NEW pairs, Sized(pairs, n)
  PROVE  Sized(MembersFrom(n, pairs, less), n)
  <1> SUFFICES ASSUME NEW e \in MembersFrom(n, pairs, less)
               PROVE  e.text \in Word /\ Len(e.text) \in Nat /\ 0 < Len(e.text) /\ Len(e.text) <= n
    BY DEF Sized
  <1>1. CASE e \in pairs
    BY <1>1 DEF Sized
  <1>2. ASSUME NEW v \in pairs, NEW d \in Short(less.members, n - 1 - Len(v.text)), e = MoreMembers(v, d)
        PROVE  e.text \in Word /\ Len(e.text) \in Nat /\ 0 < Len(e.text) /\ Len(e.text) <= n
    <2>1. d.text \in Word /\ Len(d.text) \in Nat /\ Len(d.text) <= n - 1 - Len(v.text)
      BY DEF Short, Sized
    <2>2. v.text \in Word /\ Len(v.text) \in Nat /\ 0 < Len(v.text)
      BY DEF Sized
    <2>3. e.text = Listed(v.text, d.text)
      BY <1>2, TextsOf
    <2> QED
      BY <2>1, <2>2, <2>3, ListedSized
  <1>3. \/ e \in pairs
        \/ \E p \in pairs : \E d \in Short(less.members, n - 1 - Len(p.text)) : e = MoreMembers(p, d)
    BY DEF MembersFrom
  <1> QED
    BY <1>1, <1>2, <1>3, Zenon

AllSized(u, n) == Sized(u.values, n) /\ Sized(u.items, n) /\ Sized(u.members, n)

(* Texts are no longer than the size they are made for.                    *)
LEMMA UptoSized ==
  ASSUME NEW n \in Nat
  PROVE  AllSized(Upto[n], n)
  <1> DEFINE T == {k \in Nat : ~AllSized(Upto[k], k)}
  <1> SUFFICES ASSUME T # {} PROVE FALSE
    OBVIOUS
  <1>1. PICK k \in T : \A m \in T : k <= m
    <2>1. T \subseteq Nat
      OBVIOUS
    <2> HIDE DEF T
    <2> QED
      BY <2>1, LeastNat
  <1>2. k \in Nat /\ ~AllSized(Upto[k], k)
    BY <1>1
  <1>3. k # 0
    BY <1>2, UptoUnfold DEF AllSized, Sized, NoTexts
  <1>4. k - 1 \in Nat /\ k - 1 \notin T
    <2>1. k - 1 \in Nat /\ k - 1 < k
      BY <1>2, <1>3
    <2> HIDE DEF T
    <2> QED
      BY <1>1, <1>2, <2>1
  <1>5. AllSized(Upto[k - 1], k - 1)
    BY <1>4
  <1> DEFINE less == Upto[k - 1]
             vs == ValuesFrom(k, less)
             ps == PairsFrom(k, vs)
  <1>6. Upto[k] = Larger(k, less) /\ k \in Nat \ {0}
    BY <1>2, <1>3, UptoUnfold
  <1> HIDE DEF less
  <1>7. Larger(k, less) = [values |-> vs, items |-> ItemsFrom(k, vs, less), members |-> MembersFrom(k, ps, less)]
    BY DEF Larger
  <1>8. Sized(less.values, k - 1) /\ Sized(less.items, k - 1) /\ Sized(less.members, k - 1)
    BY <1>5 DEF AllSized, less
  <1>9. Sized(vs, k)
    BY <1>6, <1>8, ValuesSized
  <1> HIDE DEF vs
  <1>10. Sized(ps, k)
    BY <1>6, <1>9, PairsSized
  <1> HIDE DEF ps
  <1>11. Sized(ItemsFrom(k, vs, less), k) /\ Sized(MembersFrom(k, ps, less), k)
    BY <1>6, <1>8, <1>9, <1>10, ItemsSized, MembersSized
  <1> QED
    BY <1>2, <1>6, <1>7, <1>9, <1>11 DEF AllSized

\* What is in s and no longer than m is in t.
Stays(s, t, m) == \A e \in s : Len(e.text) <= m => e \in t

(* A value made with more texts at hand than it needs is made with fewer.  *)
LEMMA ValuesStay ==
  ASSUME NEW k \in Nat \ {0}, NEW m \in Nat \ {0}, NEW a, NEW b,
         Sized(a.items, k - 1), Sized(a.members, k - 1),
         Stays(a.items, b.items, m - 1), Stays(a.members, b.members, m - 1)
  PROVE  Stays(ValuesFrom(k, a), ValuesFrom(m, b), m)
  <1> SUFFICES ASSUME NEW v \in ValuesFrom(k, a), Len(v.text) <= m
               PROVE  v \in ValuesFrom(m, b)
    BY DEF Stays
  <1>1. CASE v \in Leaves
    BY <1>1, ValuesAre, Zenon
  <1>2. ASSUME NEW d \in Short(a.items, k - 2) \cup {NoItems}, v = ArrayOf(d)
        PROVE  m >= 2 /\ d \in Short(b.items, m - 2) \cup {NoItems}
    <2>1. v.text = Enclose("[", d.text, "]")
      BY <1>2, TextsOf, Zenon
    <2>2. d.text \in Word
      <3>1. CASE d = NoItems
        <4>1. d.text = <<>>
          BY <3>1, TextsOf
        <4> QED
          BY <4>1 DEF Word
      <3>2. CASE d \in Short(a.items, k - 2)
        BY <3>2 DEF Short, Sized
      <3> QED
        BY <3>1, <3>2
    <2>3. "[" \in Punctuation /\ "]" \in Punctuation
      BY DEF Punctuation
    <2>4. Len(v.text) = Len(d.text) + 2
      <3>1. Len(Enclose("[", d.text, "]")) = Len(d.text) + 2
        BY <2>2, <2>3, Encloses
      <3> QED
        BY <2>1, <3>1
    <2>5. Len(d.text) \in Nat
      BY <2>2, Joins
    <2>6. m >= 2 /\ Len(d.text) <= m - 2 /\ Len(d.text) <= m - 1
      BY <2>4, <2>5
    <2> QED
      BY <2>6 DEF Short, Stays
  <1>3. ASSUME NEW d \in Short(a.members, k - 2) \cup {NoMembers}, v = ObjectOf(d)
        PROVE  m >= 2 /\ d \in Short(b.members, m - 2) \cup {NoMembers}
    <2>1. v.text = Enclose("{", d.text, "}")
      BY <1>3, TextsOf, Zenon
    <2>2. d.text \in Word
      <3>1. CASE d = NoMembers
        <4>1. d.text = <<>>
          BY <3>1, TextsOf
        <4> QED
          BY <4>1 DEF Word
      <3>2. CASE d \in Short(a.members, k - 2)
        BY <3>2 DEF Short, Sized
      <3> QED
        BY <3>1, <3>2
    <2>3. "{" \in Punctuation /\ "}" \in Punctuation
      BY DEF Punctuation
    <2>4. Len(v.text) = Len(d.text) + 2
      <3>1. Len(Enclose("{", d.text, "}")) = Len(d.text) + 2
        BY <2>2, <2>3, Encloses
      <3> QED
        BY <2>1, <3>1
    <2>5. Len(d.text) \in Nat
      BY <2>2, Joins
    <2>6. m >= 2 /\ Len(d.text) <= m - 2 /\ Len(d.text) <= m - 1
      BY <2>4, <2>5
    <2> QED
      BY <2>6 DEF Short, Stays
  <1>4. \/ v \in Leaves
        \/ k >= 2 /\ \E e \in Short(a.items, k - 2) \cup {NoItems} : v = ArrayOf(e)
        \/ k >= 2 /\ \E e \in Short(a.members, k - 2) \cup {NoMembers} : v = ObjectOf(e)
    BY ValuesAre, Zenon
  <1>5. \/ v \in Leaves
        \/ m >= 2 /\ \E e \in Short(b.items, m - 2) \cup {NoItems} : v = ArrayOf(e)
        \/ m >= 2 /\ \E e \in Short(b.members, m - 2) \cup {NoMembers} : v = ObjectOf(e)
    BY <1>2, <1>3, <1>4, Zenon
  <1> QED
    BY <1>5, ValuesAre, Zenon

(* What is left for the rest of a list.                                    *)
LEMMA Spare ==
  ASSUME NEW p \in Nat, NEW q \in Nat, NEW m \in Nat, p + 1 + q <= m
  PROVE  p <= m /\ q <= m - 1 /\ q <= m - 1 - p
  OBVIOUS

(* The same holds of the elements ...                                      *)
LEMMA ItemsStay ==
  ASSUME NEW k \in Nat \ {0}, NEW m \in Nat \ {0}, NEW a, NEW b, NEW vs, NEW ws,
         Sized(a.items, k - 1), Sized(vs, k),
         Stays(a.items, b.items, m - 1), Stays(vs, ws, m)
  PROVE  Stays(ItemsFrom(k, vs, a), ItemsFrom(m, ws, b), m)
  <1> SUFFICES ASSUME NEW e \in ItemsFrom(k, vs, a), Len(e.text) <= m
               PROVE  e \in ItemsFrom(m, ws, b)
    BY DEF Stays
  <1>1. ASSUME NEW v \in vs, e = OneItem(v)
        PROVE  v \in ws
    <2>1. e.text = v.text
      BY <1>1, TextsOf
    <2> QED
      BY <2>1 DEF Stays
  <1>2. ASSUME NEW v \in vs, NEW d \in Short(a.items, k - 1 - Len(v.text)), e = MoreItems(v, d)
        PROVE  v \in ws /\ d \in Short(b.items, m - 1 - Len(v.text))
    <2>1. d \in a.items /\ d.text \in Word /\ Len(d.text) \in Nat
      BY DEF Short, Sized
    <2>2. v.text \in Word /\ Len(v.text) \in Nat /\ 0 < Len(v.text)
      BY DEF Sized
    <2>3. e.text = Listed(v.text, d.text)
      BY <1>2, TextsOf
    <2>4. Len(e.text) = Len(v.text) + 1 + Len(d.text)
      BY <2>1, <2>2, <2>3, ListedFacts
    <2>5. Len(v.text) <= m /\ Len(d.text) <= m - 1 /\ Len(d.text) <= m - 1 - Len(v.text)
      <3>1. Len(v.text) + 1 + Len(d.text) <= m
        BY <2>4
      <3> QED
        BY <2>1, <2>2, <3>1, Spare
    <2> QED
      BY <2>1, <2>5 DEF Short, Stays
  <1>3. \/ \E v \in vs : e = OneItem(v)
        \/ \E v \in vs : \E d \in Short(a.items, k - 1 - Len(v.text)) : e = MoreItems(v, d)
    BY DEF ItemsFrom
  <1>4. \/ \E v \in ws : e = OneItem(v)
        \/ \E v \in ws : \E d \in Short(b.items, m - 1 - Len(v.text)) : e = MoreItems(v, d)
    BY <1>1, <1>2, <1>3, Zenon
  <1> QED
    BY <1>4 DEF ItemsFrom

(* ... of a member ...                                                     *)
LEMMA PairsStay ==
  ASSUME NEW k \in Nat \ {0}, NEW m \in Nat \ {0}, NEW vs, NEW ws,
         Sized(vs, k), Stays(vs, ws, m)
  PROVE  Stays(PairsFrom(k, vs), PairsFrom(m, ws), m)
  <1> SUFFICES ASSUME NEW e \in PairsFrom(k, vs), Len(e.text) <= m
               PROVE  e \in PairsFrom(m, ws)
    BY DEF Stays
  <1>1. PICK n \in Name : \E v \in Short(vs, k - 2) : e = Pair(n, v)
    BY PairsAre
  <1>2. PICK v \in Short(vs, k - 2) : e = Pair(n, v)
    BY <1>1
  <1>3. v \in vs /\ v.text \in Word /\ Len(v.text) \in Nat
    BY DEF Short, Sized
  <1>4. e.text = Labelled(n, v.text)
    BY <1>2, TextsOf
  <1>5. Len(e.text) = Len(v.text) + 2
    BY <1>3, <1>4, LabelledFacts
  <1>6. Len(v.text) <= m /\ Len(v.text) <= m - 2
    BY <1>3, <1>5
  <1>7. v \in Short(ws, m - 2)
    BY <1>3, <1>6 DEF Short, Stays
  <1> QED
    BY <1>2, <1>7, PairsAre

(* ... and of the members.                                                 *)
LEMMA MembersStay ==
  ASSUME NEW k \in Nat \ {0}, NEW m \in Nat \ {0}, NEW a, NEW b, NEW ps, NEW qs,
         Sized(a.members, k - 1), Sized(ps, k),
         Stays(a.members, b.members, m - 1), Stays(ps, qs, m)
  PROVE  Stays(MembersFrom(k, ps, a), MembersFrom(m, qs, b), m)
  <1> SUFFICES ASSUME NEW e \in MembersFrom(k, ps, a), Len(e.text) <= m
               PROVE  e \in MembersFrom(m, qs, b)
    BY DEF Stays
  <1>1. CASE e \in ps
    BY <1>1 DEF Stays, MembersFrom
  <1>2. ASSUME NEW v \in ps, NEW d \in Short(a.members, k - 1 - Len(v.text)), e = MoreMembers(v, d)
        PROVE  v \in qs /\ d \in Short(b.members, m - 1 - Len(v.text))
    <2>1. d \in a.members /\ d.text \in Word /\ Len(d.text) \in Nat
      BY DEF Short, Sized
    <2>2. v.text \in Word /\ Len(v.text) \in Nat /\ 0 < Len(v.text)
      BY DEF Sized
    <2>3. e.text = Listed(v.text, d.text)
      BY <1>2, TextsOf
    <2>4. Len(e.text) = Len(v.text) + 1 + Len(d.text)
      BY <2>1, <2>2, <2>3, ListedFacts
    <2>5. Len(v.text) <= m /\ Len(d.text) <= m - 1 /\ Len(d.text) <= m - 1 - Len(v.text)
      <3>1. Len(v.text) + 1 + Len(d.text) <= m
        BY <2>4
      <3> QED
        BY <2>1, <2>2, <3>1, Spare
    <2> QED
      BY <2>1, <2>5 DEF Short, Stays
  <1>3. CASE \E v \in ps : \E d \in Short(a.members, k - 1 - Len(v.text)) : e = MoreMembers(v, d)
    <2>1. \E v \in qs : \E d \in Short(b.members, m - 1 - Len(v.text)) : e = MoreMembers(v, d)
      BY <1>2, <1>3, Zenon
    <2> QED
      BY <2>1 DEF MembersFrom
  <1>4. \/ e \in ps
        \/ \E v \in ps : \E d \in Short(a.members, k - 1 - Len(v.text)) : e = MoreMembers(v, d)
    BY DEF MembersFrom
  <1> QED
    BY <1>1, <1>3, <1>4

(* What is made for a size, of what is made for the one before it.         *)
LEMMA UptoParts ==
  ASSUME NEW n \in Nat \ {0}
  PROVE  /\ Upto[n].values = ValuesFrom(n, Upto[n - 1])
         /\ Upto[n].items = ItemsFrom(n, Upto[n].values, Upto[n - 1])
         /\ Upto[n].members = MembersFrom(n, PairsFrom(n, Upto[n].values), Upto[n - 1])
  <1>1. Upto[n] = Larger(n, Upto[n - 1])
    BY UptoUnfold
  <1> DEFINE less == Upto[n - 1]
             vs == ValuesFrom(n, less)
  <1>2. Larger(n, less) = [values |-> vs, items |-> ItemsFrom(n, vs, less),
                           members |-> MembersFrom(n, PairsFrom(n, vs), less)]
    BY DEF Larger
  <1> HIDE DEF vs
  <1> QED
    BY <1>1, <1>2 DEF vs

AllStays(s, t, m) == Stays(s.values, t.values, m) /\ Stays(s.items, t.items, m) /\ Stays(s.members, t.members, m)

(* A text is there at every size that is large enough for it.              *)
LEMMA UptoStays ==
  ASSUME NEW n \in Nat, NEW m \in Nat
  PROVE  AllStays(Upto[n], Upto[m], m)
  <1> DEFINE T == {k \in Nat : \E j \in Nat : ~AllStays(Upto[k], Upto[j], j)}
  <1> SUFFICES ASSUME T # {} PROVE FALSE
    OBVIOUS
  <1>1. PICK k \in T : \A i \in T : k <= i
    <2>1. T \subseteq Nat
      OBVIOUS
    <2> HIDE DEF T
    <2> QED
      BY <2>1, LeastNat
  <1>2. k \in Nat
    BY <1>1
  <1>3. PICK j \in Nat : ~AllStays(Upto[k], Upto[j], j)
    BY <1>1
  <1>4. k # 0
    BY <1>3, UptoUnfold DEF AllStays, Stays, NoTexts
  <1>5. j # 0
    <2>1. AllSized(Upto[k], k)
      BY <1>2, UptoSized
    <2>2. ASSUME j = 0 PROVE AllStays(Upto[k], Upto[j], j)
      BY <2>1, <2>2 DEF AllSized, Sized, AllStays, Stays
    <2> QED
      BY <1>3, <2>2
  <1>6. k \in Nat \ {0} /\ j \in Nat \ {0} /\ k - 1 \in Nat /\ j - 1 \in Nat
    BY <1>2, <1>3, <1>4, <1>5
  <1>7. k - 1 \notin T
    <2>1. k - 1 < k
      BY <1>6
    <2> HIDE DEF T
    <2> QED
      BY <1>1, <1>6, <2>1
  <1>8. AllStays(Upto[k - 1], Upto[j - 1], j - 1)
    BY <1>6, <1>7
  <1>9. AllSized(Upto[k - 1], k - 1) /\ AllSized(Upto[k], k)
    BY <1>6, UptoSized
  <1> DEFINE a == Upto[k - 1]  b == Upto[j - 1]
  <1>10. /\ Sized(a.items, k - 1) /\ Sized(a.members, k - 1)
         /\ Stays(a.items, b.items, j - 1) /\ Stays(a.members, b.members, j - 1)
         /\ Sized(Upto[k].values, k)
    BY <1>8, <1>9 DEF AllSized, AllStays
  <1>11. /\ Upto[k].values = ValuesFrom(k, a) /\ Upto[j].values = ValuesFrom(j, b)
         /\ Upto[k].items = ItemsFrom(k, Upto[k].values, a) /\ Upto[j].items = ItemsFrom(j, Upto[j].values, b)
         /\ Upto[k].members = MembersFrom(k, PairsFrom(k, Upto[k].values), a)
         /\ Upto[j].members = MembersFrom(j, PairsFrom(j, Upto[j].values), b)
    BY <1>6, UptoParts
  <1> HIDE DEF a, b
  <1>12. Stays(Upto[k].values, Upto[j].values, j)
    BY <1>6, <1>10, <1>11, ValuesStay
  <1>13. Stays(Upto[k].items, Upto[j].items, j)
    <2>1. Stays(ItemsFrom(k, Upto[k].values, a), ItemsFrom(j, Upto[j].values, b), j)
      BY <1>6, <1>10, <1>12, ItemsStay
    <2> QED
      BY <1>11, <2>1
  <1>14. Stays(Upto[k].members, Upto[j].members, j)
    <2>1. Sized(PairsFrom(k, Upto[k].values), k)
      BY <1>6, <1>10, PairsSized
    <2>2. Stays(PairsFrom(k, Upto[k].values), PairsFrom(j, Upto[j].values), j)
      BY <1>6, <1>10, <1>12, PairsStay
    <2>3. Stays(MembersFrom(k, PairsFrom(k, Upto[k].values), a), MembersFrom(j, PairsFrom(j, Upto[j].values), b), j)
      BY <1>6, <1>10, <2>1, <2>2, MembersStay
    <2> QED
      BY <1>11, <2>3
  <1> QED
    BY <1>3, <1>12, <1>13, <1>14 DEF AllStays

---------------------------------------------------------------------------
(* The languages of the grammar: the words that are values, lists of       *)
(* values, members, and lists of members, of any size.                     *)

ValueTexts   == {w \in Word : \E n \in Nat : \E e \in Upto[n].values : e.text = w}
ItemsTexts   == {w \in Word : \E n \in Nat : \E e \in Upto[n].items : e.text = w}
MembersTexts == {w \in Word : \E n \in Nat : \E e \in Upto[n].members : e.text = w}
PairTexts    == {w \in Word : \E n \in Name : \E v \in ValueTexts : w = Labelled(n, v)}
LeafTexts    == {w \in Word : w = <<Scalar>> \/ \E n \in Name : w = <<String(n)>>}
ArrayTexts   == {w \in Word : \E u \in ItemsTexts \cup {<<>>} : w = Enclose("[", u, "]")}
ObjectTexts  == {w \in Word : \E u \in MembersTexts \cup {<<>>} : w = Enclose("{", u, "}")}

(* Texts are words.                                                        *)
LEMMA TextsAreWords ==
  /\ <<>> \in Word
  /\ ValueTexts \subseteq Word /\ ItemsTexts \subseteq Word /\ MembersTexts \subseteq Word /\ PairTexts \subseteq Word
  /\ LeafTexts \subseteq Word /\ ArrayTexts \subseteq Word /\ ObjectTexts \subseteq Word
  <1>1. <<>> \in Word
    BY DEF Word
  <1> QED
    BY <1>1 DEF ValueTexts, ItemsTexts, MembersTexts, PairTexts, LeafTexts, ArrayTexts, ObjectTexts

(* A text is among those of any size that is large enough.                 *)
LEMMA TextsAt ==
  ASSUME NEW n \in Nat, NEW w, Len(w) <= n
  PROVE  /\ w \in ValueTexts => \E e \in Upto[n].values : e.text = w
         /\ w \in ItemsTexts => \E e \in Upto[n].items : e.text = w
         /\ w \in MembersTexts => \E e \in Upto[n].members : e.text = w
  <1>1. \A k \in Nat : AllStays(Upto[k], Upto[n], n)
    BY UptoStays
  <1> QED
    BY <1>1 DEF ValueTexts, ItemsTexts, MembersTexts, AllStays, Stays

(* A pair is there as soon as there is room for it.                        *)
LEMMA PairAt ==
  ASSUME NEW n \in Nat, NEW w \in PairTexts, Len(w) <= n
  PROVE  \E p \in PairsFrom(n, Upto[n].values) : p.text = w
  <1>1. PICK m \in Name, v \in ValueTexts : w = Labelled(m, v)
    BY DEF PairTexts
  <1>2. v \in Word /\ Len(v) \in Nat
    BY Joins DEF ValueTexts
  <1>3. Len(w) = Len(v) + 2
    BY <1>1, <1>2, LabelledFacts
  <1>4. Len(v) <= n /\ Len(v) <= n - 2
    BY <1>2, <1>3
  <1>5. PICK e \in Upto[n].values : e.text = v
    BY <1>4, TextsAt
  <1>6. e \in Short(Upto[n].values, n - 2)
    BY <1>4, <1>5 DEF Short
  <1>7. Pair(m, e) \in PairsFrom(n, Upto[n].values)
    BY <1>6 DEF PairsFrom
  <1>8. Pair(m, e).text = w
    BY <1>1, <1>5, TextsOf
  <1> QED
    BY <1>7, <1>8

(* What is made for a size is among the texts.                             *)
LEMMA TextsIn ==
  ASSUME NEW n \in Nat
  PROVE  /\ \A e \in Upto[n].values : e.text \in ValueTexts
         /\ \A e \in Upto[n].items : e.text \in ItemsTexts
         /\ \A e \in Upto[n].members : e.text \in MembersTexts
         /\ \A e \in PairsFrom(n, Upto[n].values) : e.text \in PairTexts
  <1>1. AllSized(Upto[n], n)
    BY UptoSized
  <1>2. \A e \in Upto[n].values : e.text \in ValueTexts
    BY <1>1 DEF AllSized, Sized, ValueTexts
  <1>3. \A e \in Upto[n].items : e.text \in ItemsTexts
    BY <1>1 DEF AllSized, Sized, ItemsTexts
  <1>4. \A e \in Upto[n].members : e.text \in MembersTexts
    BY <1>1 DEF AllSized, Sized, MembersTexts
  <1>5. ASSUME NEW e \in PairsFrom(n, Upto[n].values) PROVE e.text \in PairTexts
    <2>1. PICK m \in Name : \E v \in Short(Upto[n].values, n - 2) : e = Pair(m, v)
      BY PairsAre
    <2>2. PICK v \in Short(Upto[n].values, n - 2) : e = Pair(m, v)
      BY <2>1
    <2>3. v.text \in ValueTexts
      BY <1>2 DEF Short
    <2>4. e.text = Labelled(m, v.text)
      BY <2>2, TextsOf
    <2>5. v.text \in Word
      BY <2>3 DEF ValueTexts
    <2>6. e.text \in Word
      BY <2>4, <2>5, LabelledFacts
    <2> QED
      BY <2>3, <2>4, <2>6 DEF PairTexts
  <1> QED
    BY <1>2, <1>3, <1>4, <1>5

\* Nothing is made for size 0.
LEMMA NothingAtZero ==
  ASSUME NEW n \in Nat, Upto[n].values # {} \/ Upto[n].items # {} \/ Upto[n].members # {}
  PROVE  n \in Nat \ {0} /\ n - 1 \in Nat
  BY UptoUnfold DEF NoTexts

(* A value is a leaf, an array or an object.                               *)
LEMMA ValueCases ==
  ASSUME NEW w \in ValueTexts
  PROVE  w \in LeafTexts \/ w \in ArrayTexts \/ w \in ObjectTexts
  <1>0. PICK n \in Nat : \E v \in Upto[n].values : v.text = w
    BY DEF ValueTexts
  <1>1. PICK v \in Upto[n].values : v.text = w
    BY <1>0
  <1>2. n \in Nat \ {0} /\ n - 1 \in Nat
    BY <1>1, NothingAtZero
  <1>3. v \in ValuesFrom(n, Upto[n - 1])
    BY <1>1, <1>2, UptoParts
  <1>4. w \in Word
    BY DEF ValueTexts
  <1>5. CASE v \in Leaves
    <2>1. w = <<Scalar>> \/ \E m \in Name : w = <<String(m)>>
      BY <1>1, <1>5 DEF Leaves
    <2> QED
      BY <1>4, <2>1 DEF LeafTexts
  <1>6. ASSUME NEW d \in Short(Upto[n - 1].items, n - 2) \cup {NoItems}, v = ArrayOf(d)
        PROVE  w \in ArrayTexts
    <2>1. d.text \in ItemsTexts \cup {<<>>}
      <3>1. CASE d = NoItems
        BY <3>1, TextsOf
      <3>2. CASE d \in Upto[n - 1].items
        BY <1>2, <3>2, TextsIn
      <3> QED
        BY <3>1, <3>2 DEF Short
    <2>2. w = Enclose("[", d.text, "]")
      BY <1>1, <1>6, TextsOf, Zenon
    <2> QED
      BY <1>4, <2>1, <2>2, Zenon DEF ArrayTexts
  <1>7. ASSUME NEW d \in Short(Upto[n - 1].members, n - 2) \cup {NoMembers}, v = ObjectOf(d)
        PROVE  w \in ObjectTexts
    <2>1. d.text \in MembersTexts \cup {<<>>}
      <3>1. CASE d = NoMembers
        BY <3>1, TextsOf
      <3>2. CASE d \in Upto[n - 1].members
        BY <1>2, <3>2, TextsIn
      <3> QED
        BY <3>1, <3>2 DEF Short
    <2>2. w = Enclose("{", d.text, "}")
      BY <1>1, <1>7, TextsOf, Zenon
    <2> QED
      BY <1>4, <2>1, <2>2, Zenon DEF ObjectTexts
  <1>8. \/ v \in Leaves
        \/ n >= 2 /\ \E e \in Short(Upto[n - 1].items, n - 2) \cup {NoItems} : v = ArrayOf(e)
        \/ n >= 2 /\ \E e \in Short(Upto[n - 1].members, n - 2) \cup {NoMembers} : v = ObjectOf(e)
    BY <1>2, <1>3, ValuesAre, Zenon
  <1> QED
    BY <1>5, <1>6, <1>7, <1>8, Zenon

(* Leaves, arrays and objects are values.                                  *)
LEMMA ValueMade ==
  /\ LeafTexts \subseteq ValueTexts
  /\ ArrayTexts \subseteq ValueTexts
  /\ ObjectTexts \subseteq ValueTexts
  <1>1. ASSUME NEW w \in LeafTexts PROVE w \in ValueTexts
    <2>1. PICK e \in Leaves : e.text = w
      <3>1. CASE w = <<Scalar>>
        <4> DEFINE e == [text |-> <<Scalar>>, value |-> ScalarValue]
        <4>1. e \in Leaves /\ e.text = w
          BY <3>1 DEF Leaves
        <4> QED
          BY <4>1
      <3>2. ASSUME NEW n \in Name, w = <<String(n)>>
            PROVE  \E e \in Leaves : e.text = w
        <4> DEFINE e == [text |-> <<String(n)>>, value |-> StringValue(n)]
        <4>1. e \in Leaves /\ e.text = w
          BY <3>2 DEF Leaves
        <4> QED
          BY <4>1
      <3> QED
        BY <3>1, <3>2 DEF LeafTexts
    <2>2. e \in ValuesFrom(1, Upto[0])
      BY ValuesAre
    <2>3. Upto[1].values = ValuesFrom(1, Upto[1 - 1])
      BY UptoParts
    <2>4. e \in Upto[1].values
      BY <2>2, <2>3
    <2> QED
      BY <2>1, <2>4, TextsIn
  <1>2. ASSUME NEW w \in ArrayTexts PROVE w \in ValueTexts
    <2>1. PICK u \in ItemsTexts \cup {<<>>} : w = Enclose("[", u, "]")
      BY DEF ArrayTexts
    <2>2. u \in Word
      BY TextsAreWords
    <2> DEFINE n == Len(u) + 2
    <2>3. Len(u) \in Nat
      BY <2>2, Joins
    <2>4. n \in Nat \ {0} /\ n >= 2 /\ n - 1 \in Nat /\ Len(u) <= n - 1 /\ Len(u) <= n - 2
      BY <2>3
    <2> HIDE DEF n
    <2>5. PICK d \in Short(Upto[n - 1].items, n - 2) \cup {NoItems} : d.text = u
      <3>1. CASE u = <<>>
        BY <3>1, TextsOf
      <3>2. CASE u \in ItemsTexts
        <4>1. PICK d \in Upto[n - 1].items : d.text = u
          BY <2>4, <3>2, TextsAt
        <4> QED
          BY <2>4, <4>1 DEF Short
      <3> QED
        BY <3>1, <3>2
    <2>6. ArrayOf(d).text = w
      BY <2>1, <2>5, TextsOf, Zenon
    <2>7. ArrayOf(d) \in ValuesFrom(n, Upto[n - 1])
      BY <2>4, <2>5, ValuesAre, Zenon
    <2>8. ArrayOf(d) \in Upto[n].values
      BY <2>4, <2>7, UptoParts
    <2> QED
      BY <2>4, <2>6, <2>8, TextsIn
  <1>3. ASSUME NEW w \in ObjectTexts PROVE w \in ValueTexts
    <2>1. PICK u \in MembersTexts \cup {<<>>} : w = Enclose("{", u, "}")
      BY DEF ObjectTexts
    <2>2. u \in Word
      BY TextsAreWords
    <2> DEFINE n == Len(u) + 2
    <2>3. Len(u) \in Nat
      BY <2>2, Joins
    <2>4. n \in Nat \ {0} /\ n >= 2 /\ n - 1 \in Nat /\ Len(u) <= n - 1 /\ Len(u) <= n - 2
      BY <2>3
    <2> HIDE DEF n
    <2>5. PICK d \in Short(Upto[n - 1].members, n - 2) \cup {NoMembers} : d.text = u
      <3>1. CASE u = <<>>
        BY <3>1, TextsOf
      <3>2. CASE u \in MembersTexts
        <4>1. PICK d \in Upto[n - 1].members : d.text = u
          BY <2>4, <3>2, TextsAt
        <4> QED
          BY <2>4, <4>1 DEF Short
      <3> QED
        BY <3>1, <3>2
    <2>6. ObjectOf(d).text = w
      BY <2>1, <2>5, TextsOf, Zenon
    <2>7. ObjectOf(d) \in ValuesFrom(n, Upto[n - 1])
      BY <2>4, <2>5, ValuesAre, Zenon
    <2>8. ObjectOf(d) \in Upto[n].values
      BY <2>4, <2>7, UptoParts
    <2> QED
      BY <2>4, <2>6, <2>8, TextsIn
  <1> QED
    BY <1>1, <1>2, <1>3

(* A list of values is a value, or one before a list of values.            *)
LEMMA ItemsCases ==
  ASSUME NEW w \in ItemsTexts
  PROVE  w \in ValueTexts \/ \E v \in ValueTexts, u \in ItemsTexts : w = Listed(v, u)
  <1>0. PICK n \in Nat : \E e \in Upto[n].items : e.text = w
    BY DEF ItemsTexts
  <1>1. PICK e \in Upto[n].items : e.text = w
    BY <1>0
  <1>2. n \in Nat \ {0} /\ n - 1 \in Nat
    BY <1>1, NothingAtZero
  <1>3. e \in ItemsFrom(n, Upto[n].values, Upto[n - 1])
    BY <1>1, <1>2, UptoParts
  <1>4. ASSUME NEW v \in Upto[n].values, e = OneItem(v) PROVE w \in ValueTexts
    BY <1>1, <1>4, TextsOf, TextsIn
  <1>5. ASSUME NEW v \in Upto[n].values, NEW d \in Short(Upto[n - 1].items, n - 1 - Len(v.text)), e = MoreItems(v, d)
        PROVE  v.text \in ValueTexts /\ d.text \in ItemsTexts /\ w = Listed(v.text, d.text)
    <2>1. d \in Upto[n - 1].items
      BY DEF Short
    <2> QED
      BY <1>1, <1>2, <1>5, <2>1, TextsOf, TextsIn
  <1>6. \/ \E v \in Upto[n].values : e = OneItem(v)
        \/ \E v \in Upto[n].values : \E d \in Short(Upto[n - 1].items, n - 1 - Len(v.text)) : e = MoreItems(v, d)
    BY <1>3 DEF ItemsFrom
  <1> QED
    BY <1>4, <1>5, <1>6, Zenon

(* Lists of elements are made of a value, and of a value and a list.       *)
LEMMA ItemsMade ==
  /\ ValueTexts \subseteq ItemsTexts
  /\ \A v \in ValueTexts, u \in ItemsTexts : Listed(v, u) \in ItemsTexts
  <1>1. ASSUME NEW w \in ValueTexts PROVE w \in ItemsTexts
    <2>0. PICK n \in Nat : \E v \in Upto[n].values : v.text = w
      BY DEF ValueTexts
    <2>1. PICK v \in Upto[n].values : v.text = w
      BY <2>0
    <2>2. n \in Nat \ {0} /\ n - 1 \in Nat
      BY <2>1, NothingAtZero
    <2>3. OneItem(v) \in ItemsFrom(n, Upto[n].values, Upto[n - 1])
      BY <2>1 DEF ItemsFrom
    <2>4. OneItem(v) \in Upto[n].items /\ OneItem(v).text = w
      BY <2>1, <2>2, <2>3, UptoParts, TextsOf
    <2> QED
      BY <2>4, TextsIn
  <1>2. ASSUME NEW w \in ValueTexts, NEW u \in ItemsTexts PROVE Listed(w, u) \in ItemsTexts
    <2> DEFINE n == Len(w) + 1 + Len(u)
    <2>1. Len(w) \in Nat /\ Len(u) \in Nat
      BY Joins DEF ValueTexts, ItemsTexts
    <2>2. n \in Nat \ {0} /\ n - 1 \in Nat /\ Len(w) <= n /\ Len(u) <= n - 1 /\ Len(u) <= n - 1 - Len(w)
      BY <2>1
    <2> HIDE DEF n
    <2>3. PICK v \in Upto[n].values : v.text = w
      BY <2>2, TextsAt
    <2>4. PICK d \in Upto[n - 1].items : d.text = u
      BY <2>2, TextsAt
    <2>5. d \in Short(Upto[n - 1].items, n - 1 - Len(v.text))
      BY <2>2, <2>3, <2>4 DEF Short
    <2>6. MoreItems(v, d) \in ItemsFrom(n, Upto[n].values, Upto[n - 1])
      BY <2>5 DEF ItemsFrom
    <2>7. MoreItems(v, d) \in Upto[n].items /\ MoreItems(v, d).text = Listed(w, u)
      BY <2>2, <2>3, <2>4, <2>6, UptoParts, TextsOf
    <2> QED
      BY <2>2, <2>7, TextsIn
  <1> QED
    BY <1>1, <1>2

(* And so are members.                                                     *)
LEMMA MembersCases ==
  ASSUME NEW w \in MembersTexts
  PROVE  w \in PairTexts \/ \E v \in PairTexts, u \in MembersTexts : w = Listed(v, u)
  <1>0. PICK n \in Nat : \E e \in Upto[n].members : e.text = w
    BY DEF MembersTexts
  <1>1. PICK e \in Upto[n].members : e.text = w
    BY <1>0
  <1>2. n \in Nat \ {0} /\ n - 1 \in Nat
    BY <1>1, NothingAtZero
  <1> DEFINE ps == PairsFrom(n, Upto[n].values)
  <1>3. e \in MembersFrom(n, ps, Upto[n - 1])
    BY <1>1, <1>2, UptoParts
  <1>4. \A p \in ps : p.text \in PairTexts
    BY TextsIn
  <1> HIDE DEF ps
  <1>5. ASSUME NEW v \in ps, NEW d \in Short(Upto[n - 1].members, n - 1 - Len(v.text)), e = MoreMembers(v, d)
        PROVE  v.text \in PairTexts /\ d.text \in MembersTexts /\ w = Listed(v.text, d.text)
    <2>1. d \in Upto[n - 1].members
      BY DEF Short
    <2> QED
      BY <1>1, <1>2, <1>4, <1>5, <2>1, TextsOf, TextsIn
  <1>6. \/ e \in ps
        \/ \E v \in ps : \E d \in Short(Upto[n - 1].members, n - 1 - Len(v.text)) : e = MoreMembers(v, d)
    BY <1>3 DEF MembersFrom
  <1>7. CASE e \in ps
    BY <1>1, <1>4, <1>7
  <1> QED
    BY <1>5, <1>6, <1>7, Zenon

(* Lists of members are made of a pair, and of a pair and a list.          *)
LEMMA MembersMade ==
  /\ PairTexts \subseteq MembersTexts
  /\ \A v \in PairTexts, u \in MembersTexts : Listed(v, u) \in MembersTexts
  <1>1. ASSUME NEW w \in PairTexts PROVE w \in MembersTexts
    <2> DEFINE n == Len(w) + 1
    <2>1. Len(w) \in Nat
      BY Joins DEF PairTexts
    <2>2. n \in Nat \ {0} /\ Len(w) <= n
      BY <2>1
    <2> HIDE DEF n
    <2>3. PICK p \in PairsFrom(n, Upto[n].values) : p.text = w
      BY <2>2, PairAt
    <2>4. p \in MembersFrom(n, PairsFrom(n, Upto[n].values), Upto[n - 1])
      BY DEF MembersFrom
    <2>5. p \in Upto[n].members
      BY <2>2, <2>4, UptoParts
    <2> QED
      BY <2>2, <2>3, <2>5, TextsIn
  <1>2. ASSUME NEW w \in PairTexts, NEW u \in MembersTexts PROVE Listed(w, u) \in MembersTexts
    <2> DEFINE n == Len(w) + 1 + Len(u)
    <2>1. Len(w) \in Nat /\ Len(u) \in Nat
      BY Joins DEF PairTexts, MembersTexts
    <2>2. n \in Nat \ {0} /\ n - 1 \in Nat /\ Len(w) <= n /\ Len(u) <= n - 1 /\ Len(u) <= n - 1 - Len(w)
      BY <2>1
    <2> HIDE DEF n
    <2>3. PICK v \in PairsFrom(n, Upto[n].values) : v.text = w
      BY <2>2, PairAt
    <2>4. PICK d \in Upto[n - 1].members : d.text = u
      BY <2>2, TextsAt
    <2>5. d \in Short(Upto[n - 1].members, n - 1 - Len(v.text))
      BY <2>2, <2>3, <2>4 DEF Short
    <2>6. MoreMembers(v, d) \in MembersFrom(n, PairsFrom(n, Upto[n].values), Upto[n - 1])
      BY <2>5 DEF MembersFrom
    <2>7. MoreMembers(v, d) \in Upto[n].members /\ MoreMembers(v, d).text = Listed(w, u)
      BY <2>2, <2>3, <2>4, <2>6, UptoParts, TextsOf
    <2> QED
      BY <2>2, <2>7, TextsIn
  <1> QED
    BY <1>1, <1>2

---------------------------------------------------------------------------
(* Words, and the tokens at their head.                                    *)

AnyWord == Seq(AnyToken)

At(w, i) == IF i <= Len(w) THEN w[i] ELSE EndOfFile

(* What words are, joined.                                                 *)
LEMMA WordFacts ==
  /\ Word \subseteq AnyWord /\ <<>> \in AnyWord
  /\ \A w \in AnyWord : Len(w) \in Nat
  /\ \A t \in AnyToken : <<t>> \in AnyWord /\ Len(<<t>>) = 1
  /\ \A v, w \in AnyWord : v \o w \in AnyWord
  /\ \A u, v, w \in AnyWord : (u \o v) \o w = u \o (v \o w)
  /\ \A w \in AnyWord : <<>> \o w = w /\ w \o <<>> = w
  <1>1. Token \subseteq AnyToken
    BY DEF AnyToken
  <1>2. Word \subseteq AnyWord /\ <<>> \in AnyWord
    BY <1>1, SeqMonotonic DEF Word, AnyWord
  <1>3. \A w \in AnyWord : Len(w) \in Nat
    BY DEF AnyWord
  <1>4. \A t \in AnyToken : <<t>> \in AnyWord /\ Len(<<t>>) = 1
    BY DEF AnyWord
  <1>5. \A v, w \in AnyWord : v \o w \in AnyWord
    BY ConcatProperties DEF AnyWord
  <1>6. \A u, v, w \in AnyWord : (u \o v) \o w = u \o (v \o w)
    BY ConcatAssociative, SMTT(30) DEF AnyWord
  <1>7. \A w \in AnyWord : <<>> \o w = w /\ w \o <<>> = w
    BY ConcatEmptySeq DEF AnyWord
  <1> QED
    BY <1>2, <1>3, <1>4, <1>5, <1>6, <1>7

(* Joining words is associative.                                           *)
LEMMA Regrouped ==
  ASSUME NEW u \in AnyWord, NEW v \in AnyWord, NEW w \in AnyWord
  PROVE  (u \o v) \o w = u \o (v \o w)
  BY WordFacts

(* The first tokens of a word.                                             *)
LEMMA AtFacts ==
  /\ At(<<>>, 1) = EndOfFile
  /\ \A t \in AnyToken : \A w \in AnyWord : /\ At(<<t>> \o w, 1) = t
                                            /\ At(<<t>> \o w, 2) = At(w, 1)
                                            /\ <<t>> \o w # <<>>
                                            /\ Len(<<t>> \o w) = Len(w) + 1
  <1>1. At(<<>>, 1) = EndOfFile
    BY DEF At
  <1>2. ASSUME NEW t \in AnyToken, NEW w \in AnyWord
        PROVE  /\ At(<<t>> \o w, 1) = t /\ At(<<t>> \o w, 2) = At(w, 1)
               /\ <<t>> \o w # <<>> /\ Len(<<t>> \o w) = Len(w) + 1
    <2> DEFINE s == <<t>>  v == s \o w
    <2>1. s \in AnyWord /\ Len(s) = 1 /\ s[1] = t /\ Len(w) \in Nat
      BY WordFacts
    <2> HIDE DEF s
    <2>2. /\ Len(v) = Len(s) + Len(w)
          /\ \A i \in 1 .. Len(s) + Len(w) : v[i] = IF i <= Len(s) THEN s[i] ELSE w[i - Len(s)]
      BY <2>1, ConcatProperties DEF AnyWord
    <2> HIDE DEF v
    <2>3. Len(v) = 1 + Len(w) /\ v[1] = t /\ (Len(w) >= 1 => v[2] = w[1])
      <3>1. 1 \in 1 .. 1 + Len(w) /\ (Len(w) >= 1 => 2 \in 1 .. 1 + Len(w))
        BY <2>1
      <3> QED
        BY <2>1, <2>2, <3>1
    <2>4. At(v, 1) = t /\ At(v, 2) = At(w, 1)
      BY <2>1, <2>3 DEF At
    <2>5. v # <<>>
      <3>1. Len(v) # 0
        BY <2>1, <2>3
      <3> QED
        BY <3>1
    <2> QED
      BY <2>1, <2>3, <2>4, <2>5 DEF v, s
  <1> QED
    BY <1>1, <1>2

(* A word is empty, or a token before a word; only in one way.             *)
LEMMA HeadFacts ==
  /\ \A w \in AnyWord : w # <<>> => \E t \in AnyToken : \E r \in AnyWord : w = <<t>> \o r
  /\ \A w \in Word : w # <<>> => \E t \in Token : \E r \in Word : w = <<t>> \o r
  /\ \A t, u \in AnyToken : \A v, w \in AnyWord : <<t>> \o v = <<u>> \o w => t = u /\ v = w
  <1>1. ASSUME NEW S, NEW w \in Seq(S), w # <<>>
        PROVE  \E t \in S : \E r \in Seq(S) : w = <<t>> \o r
    <2>1. Head(w) \in S /\ Tail(w) \in Seq(S)
      BY <1>1, HeadTailProperties
    <2>2. w = <<Head(w)>> \o Tail(w)
      <3>1. Len(w) \in Nat \ {0}
        BY <1>1, EmptySeq
      <3>2. 1 \in 1 .. Len(w) /\ Len(w) \in 1 .. Len(w)
        BY <3>1
      <3>3. SubSeq(w, 1, Len(w)) = <<w[1]>> \o SubSeq(w, 1 + 1, Len(w))
        BY <3>2, SubSeqRecursiveFirst
      <3>4. SubSeq(w, 1, Len(w)) = w
        BY SubSeqFull
      <3>5. Tail(w) = SubSeq(w, 2, Len(w))
        BY <1>1, TailIsSubSeq
      <3>6. Head(w) = w[1]
        BY <1>1
      <3> QED
        BY <3>3, <3>4, <3>5, <3>6
    <2> QED
      BY <2>1, <2>2
  <1>2. ASSUME NEW t \in AnyToken, NEW u \in AnyToken, NEW v \in AnyWord, NEW w \in AnyWord, <<t>> \o v = <<u>> \o w
        PROVE  t = u /\ v = w
    <2>1. t = u
      <3>1. At(<<t>> \o v, 1) = t /\ At(<<u>> \o w, 1) = u
        BY AtFacts
      <3> QED
        BY <1>2, <3>1
    <2>2. <<t>> \in Seq(AnyToken) /\ v \in Seq(AnyToken) /\ w \in Seq(AnyToken) /\ <<t>> \o v = <<t>> \o w
      BY <1>2, <2>1, WordFacts DEF AnyWord
    <2>3. v = w
      <3> DEFINE s == <<t>>
      <3>1. s \in Seq(AnyToken) /\ s \o v = s \o w
        BY <2>2
      <3> HIDE DEF s
      <3> QED
        BY <2>2, <3>1, ConcatSimplifications
    <2> QED
      BY <2>1, <2>3
  <1> QED
    BY <1>1, <1>2 DEF AnyWord, Word

(* The head of two words is that of the first, if that has one.            *)
LEMMA HeadOf ==
  ASSUME NEW v \in AnyWord, NEW w \in AnyWord, v # <<>>
  PROVE  At(v \o w, 1) = At(v, 1)
  <1>1. PICK t \in AnyToken : \E r \in AnyWord : v = <<t>> \o r
    BY HeadFacts
  <1>2. PICK r \in AnyWord : v = <<t>> \o r
    BY <1>1
  <1> DEFINE s == <<t>>
  <1>3. s \in AnyWord
    BY WordFacts
  <1>4. v \o w = s \o (r \o w) /\ r \o w \in AnyWord
    BY <1>2, <1>3, WordFacts, SMTT(30)
  <1>5. At(s \o (r \o w), 1) = t /\ At(v, 1) = t
    BY <1>2, <1>4, AtFacts
  <1> QED
    BY <1>4, <1>5

(* What follows the first words of a text.                                 *)
LEMMA AtRest ==
  ASSUME NEW v \in AnyWord, NEW w \in AnyWord, NEW k \in Nat \ {0}
  PROVE  At(v \o w, Len(v) + k) = At(w, k)
  <1> DEFINE u == v \o w
  <1>1. Len(v) \in Nat /\ Len(w) \in Nat
    BY WordFacts
  <1>2. /\ Len(u) = Len(v) + Len(w)
        /\ \A i \in 1 .. Len(v) + Len(w) : u[i] = IF i <= Len(v) THEN v[i] ELSE w[i - Len(v)]
    BY ConcatProperties DEF AnyWord
  <1> HIDE DEF u
  <1>3. CASE k <= Len(w)
    <2>1. Len(v) + k \in 1 .. Len(v) + Len(w) /\ ~ (Len(v) + k <= Len(v)) /\ Len(v) + k - Len(v) = k /\ Len(v) + k <= Len(u)
      BY <1>1, <1>2, <1>3
    <2>2. u[Len(v) + k] = w[k]
      BY <1>2, <2>1
    <2> QED
      BY <1>3, <2>1, <2>2 DEF At, u
  <1>4. CASE ~ (k <= Len(w))
    <2>1. ~ (Len(v) + k <= Len(u))
      BY <1>1, <1>2, <1>4
    <2> QED
      BY <1>4, <2>1 DEF At, u
  <1> QED
    BY <1>3, <1>4

---------------------------------------------------------------------------
(* Languages.                                                              *)

Joined(A, B) == {w \in Word : \E a \in A, b \in B : w = a \o b}

Empty == {<<>>}

(* Joining languages, and the language of the empty text.                  *)
LEMMA JoinedFacts ==
  ASSUME NEW A \in SUBSET Word, NEW B \in SUBSET Word
  PROVE  /\ Joined(A, B) \in SUBSET Word
         /\ \A a \in A, b \in B : a \o b \in Joined(A, B)
         /\ Joined(Empty, B) = B
         /\ Joined(A, Empty) = A
         /\ Empty \in SUBSET Word
  <1>1. Joined(A, B) \in SUBSET Word
    BY DEF Joined
  <1>2. \A a \in A, b \in B : a \o b \in Joined(A, B)
    BY Joins DEF Joined
  <1>3. \A w \in Word : <<>> \o w = w /\ w \o <<>> = w
    BY WordFacts
  <1>4. Joined(Empty, B) = B /\ Joined(A, Empty) = A
    BY <1>3 DEF Joined, Empty
  <1>5. Empty \in SUBSET Word
    BY TextsAreWords DEF Empty
  <1> QED
    BY <1>1, <1>2, <1>4, <1>5

\* A comma and what follows it, or nothing.
Next(L) == {w \in Word : w = <<>> \/ \E u \in L : w = <<Mark(",")>> \o u}

Terminal == Punctuation \cup {"string", "scalar"}

\* The language of each of the parser's symbols, and of the contents of an
\* object or an array of which nothing is read yet.
Lang(x) ==
  CASE x \in {"RULE_JSON", "RULE_VALUE"} -> ValueTexts
    [] x = "RULE_OBJECT" -> ObjectTexts
    [] x = "RULE_ARRAY" -> ArrayTexts
    [] x = "RULE_MEMBERS" -> MembersTexts
    [] x = "RULE_PAIR" -> PairTexts
    [] x = "RULE_ELEMENTS" -> ItemsTexts
    [] x = "RULE_NEXT_MEMBER" -> Next(MembersTexts)
    [] x = "RULE_NEXT_ELEMENT" -> Next(ItemsTexts)
    [] x = "ANY_MEMBERS" -> MembersTexts \cup Empty
    [] x = "ANY_ELEMENTS" -> ItemsTexts \cup Empty
    [] x \in Terminal -> {w \in Word : \E t \in Token : t.type = x /\ w = <<t>>}
    [] OTHER -> Empty

(* What the symbols on the stack of parser.c stand for.                    *)
LEMMA LangFacts ==
  /\ Lang("RULE_JSON") = ValueTexts /\ Lang("RULE_VALUE") = ValueTexts
  /\ Lang("RULE_OBJECT") = ObjectTexts /\ Lang("RULE_ARRAY") = ArrayTexts
  /\ Lang("RULE_MEMBERS") = MembersTexts /\ Lang("RULE_ELEMENTS") = ItemsTexts
  /\ Lang("RULE_PAIR") = PairTexts
  /\ Lang("RULE_NEXT_MEMBER") = Next(MembersTexts) /\ Lang("RULE_NEXT_ELEMENT") = Next(ItemsTexts)
  /\ Lang("ANY_MEMBERS") = MembersTexts \cup Empty /\ Lang("ANY_ELEMENTS") = ItemsTexts \cup Empty
  /\ \A x \in Terminal : Lang(x) = {w \in Word : \E t \in Token : t.type = x /\ w = <<t>>}
  /\ \A x \in EndMarks \cup {"eof"} : Lang(x) = Empty
  /\ \A x : Lang(x) \in SUBSET Word
  <1>1. /\ Lang("RULE_JSON") = ValueTexts /\ Lang("RULE_VALUE") = ValueTexts
        /\ Lang("RULE_OBJECT") = ObjectTexts /\ Lang("RULE_ARRAY") = ArrayTexts
    BY DEF Lang, Terminal, Punctuation
  <1>2. /\ Lang("RULE_MEMBERS") = MembersTexts /\ Lang("RULE_ELEMENTS") = ItemsTexts
        /\ Lang("RULE_PAIR") = PairTexts
    BY DEF Lang, Terminal, Punctuation
  <1>3. Lang("RULE_NEXT_MEMBER") = Next(MembersTexts) /\ Lang("RULE_NEXT_ELEMENT") = Next(ItemsTexts)
    BY DEF Lang, Terminal, Punctuation
  <1>4. Lang("ANY_MEMBERS") = MembersTexts \cup Empty /\ Lang("ANY_ELEMENTS") = ItemsTexts \cup Empty
    BY DEF Lang, Terminal, Punctuation
  <1>5. ASSUME NEW x \in Terminal PROVE Lang(x) = {w \in Word : \E t \in Token : t.type = x /\ w = <<t>>}
    <2>1. x \notin {"RULE_JSON", "RULE_VALUE", "RULE_OBJECT", "RULE_ARRAY", "RULE_MEMBERS", "RULE_PAIR", "RULE_ELEMENTS",
                    "RULE_NEXT_MEMBER", "RULE_NEXT_ELEMENT", "ANY_MEMBERS", "ANY_ELEMENTS"}
      BY DEF Terminal, Punctuation
    <2> QED
      BY <2>1 DEF Lang
  <1>6. ASSUME NEW x \in EndMarks \cup {"eof"} PROVE Lang(x) = Empty
    BY DEF Lang, Terminal, Punctuation, EndMarks
  <1>7. ASSUME NEW x PROVE Lang(x) \in SUBSET Word
    <2>1. Next(MembersTexts) \in SUBSET Word /\ Next(ItemsTexts) \in SUBSET Word /\ Empty \in SUBSET Word
      BY TextsAreWords DEF Next, Empty
    <2>2. {w \in Word : \E t \in Token : t.type = x /\ w = <<t>>} \in SUBSET Word
      OBVIOUS
    <2> QED
      BY <2>1, <2>2, TextsAreWords DEF Lang
  <1> QED
    BY <1>1, <1>2, <1>3, <1>4, <1>5, <1>6, <1>7

(* There is one token of each kind of punctuation.                         *)
LEMMA MarkOf ==
  ASSUME NEW x \in Punctuation
  PROVE  /\ Mark(x) \in Token /\ Mark(x).type = x
         /\ \A t \in Token : t.type = x <=> t = Mark(x)
         /\ Lang(x) = {<<Mark(x)>>}
  <1>1. Mark(x) \in Token /\ Mark(x).type = x
    BY DEF Token, Mark
  <1>2. ASSUME NEW t \in Token, t.type = x PROVE t = Mark(x)
    <2>1. x # "scalar" /\ x # "string"
      BY DEF Punctuation
    <2>2. CASE \E type \in Punctuation : t = Mark(type)
      BY <1>2, <2>2 DEF Mark
    <2>3. CASE t = Scalar
      BY <1>2, <2>1, <2>3 DEF Scalar, Mark
    <2>4. CASE \E n \in Name : t = String(n)
      BY <1>2, <2>1, <2>4 DEF String
    <2> QED
      BY <2>2, <2>3, <2>4 DEF Token
  <1>3. Lang(x) = {w \in Word : \E t \in Token : t.type = x /\ w = <<t>>}
    BY LangFacts DEF Terminal
  <1>4. <<Mark(x)>> \in Word
    BY <1>1, Joins
  <1>5. Lang(x) = {<<Mark(x)>>}
    BY <1>1, <1>2, <1>3, <1>4
  <1> QED
    BY <1>1, <1>2, <1>5

(* The tokens that are leaves.                                             *)
LEMMA LeafTokens ==
  /\ Scalar \in Token /\ Scalar.type = "scalar"
  /\ \A n \in Name : String(n) \in Token /\ String(n).type = "string"
  /\ \A t \in Token : t.type = "scalar" => t = Scalar
  /\ \A t \in Token : t.type = "string" => \E n \in Name : t = String(n)
  <1>1. Scalar.type = "scalar" /\ \A n \in Name : String(n).type = "string"
    BY DEF Scalar, Mark, String
  <1>2. \A x \in Punctuation : Mark(x).type = x /\ x # "scalar" /\ x # "string"
    BY DEF Mark, Punctuation
  <1> QED
    BY <1>1, <1>2 DEF Token

---------------------------------------------------------------------------
(* What texts begin with.                                                  *)

(* What is enclosed, listed or labelled, one token or word at a time.      *)
LEMMA Takes ==
  /\ \A open, close \in Punctuation : \A u \in Word :
       Enclose(open, u, close) = <<Mark(open)>> \o (u \o <<Mark(close)>>)
  /\ \A v, u \in Word : Listed(v, u) = v \o (<<Mark(",")>> \o u)
  /\ \A n \in Name : \A v \in Word : Labelled(n, v) = <<String(n)>> \o (<<Mark(":")>> \o v)
  <1>1. ASSUME NEW open \in Punctuation, NEW close \in Punctuation, NEW u \in Word
        PROVE  Enclose(open, u, close) = <<Mark(open)>> \o (u \o <<Mark(close)>>)
    <2> DEFINE a == <<Mark(open)>>  b == <<Mark(close)>>
    <2>1. a \in AnyWord /\ b \in AnyWord /\ u \in AnyWord
      BY Marks1, Joins, WordFacts
    <2> HIDE DEF a, b
    <2>2. (a \o u) \o b = a \o (u \o b)
      BY <2>1, WordFacts
    <2> QED
      BY <2>2 DEF a, b, Enclose
  <1>2. ASSUME NEW v \in Word, NEW u \in Word PROVE Listed(v, u) = v \o (<<Mark(",")>> \o u)
    <2> DEFINE a == <<Mark(",")>>
    <2>1. a \in AnyWord /\ v \in AnyWord /\ u \in AnyWord
      BY Marks1, Joins, WordFacts DEF Punctuation
    <2> HIDE DEF a
    <2>2. (v \o a) \o u = v \o (a \o u)
      BY <2>1, WordFacts
    <2> QED
      BY <2>2 DEF a, Listed
  <1>3. ASSUME NEW n \in Name, NEW v \in Word
        PROVE  Labelled(n, v) = <<String(n)>> \o (<<Mark(":")>> \o v)
    <2> DEFINE a == <<String(n)>>  b == <<Mark(":")>>
    <2>1. a \in AnyWord /\ b \in AnyWord /\ v \in AnyWord
      BY Marks1, Joins, WordFacts DEF Punctuation
    <2>2. <<String(n), Mark(":")>> = a \o b
      OBVIOUS
    <2> HIDE DEF a, b
    <2>3. (a \o b) \o v = a \o (b \o v)
      BY <2>1, WordFacts
    <2> QED
      BY <2>2, <2>3 DEF a, b, Labelled
  <1> QED
    BY <1>1, <1>2, <1>3

\* The word w begins with a token whose type is in ts.
Begins(w, ts) == w # <<>> /\ At(w, 1).type \in ts

(* A token before a word.                                                  *)
LEMMA BeginsWith ==
  ASSUME NEW t \in Token, NEW w \in Word
  PROVE  Begins(<<t>> \o w, {t.type}) /\ Begins(<<t>>, {t.type})
  <1>1. t \in AnyToken /\ w \in AnyWord /\ <<>> \in AnyWord
    BY WordFacts DEF AnyToken
  <1>2. Begins(<<t>> \o w, {t.type}) /\ Begins(<<t>> \o <<>>, {t.type})
    BY <1>1, AtFacts DEF Begins
  <1>3. <<t>> \o <<>> = <<t>>
    BY <1>1, WordFacts
  <1> QED
    BY <1>2, <1>3

(* A word before another.                                                  *)
LEMMA BeginsAlike ==
  ASSUME NEW v \in Word, NEW w \in Word, NEW ts, Begins(v, ts)
  PROVE  Begins(v \o w, ts)
  <1>1. v \in AnyWord /\ w \in AnyWord /\ v # <<>> /\ At(v, 1).type \in ts
    BY WordFacts DEF Begins
  <1>2. At(v \o w, 1) = At(v, 1)
    BY <1>1, HeadOf
  <1>3. v \o w # <<>>
    <2>1. PICK t \in AnyToken : \E r \in AnyWord : v = <<t>> \o r
      BY <1>1, HeadFacts
    <2>2. PICK r \in AnyWord : v = <<t>> \o r
      BY <2>1
    <2> DEFINE s == <<t>>
    <2>3. s \in AnyWord /\ r \o w \in AnyWord
      BY <1>1, WordFacts
    <2>4. v \o w = s \o (r \o w)
      BY <1>1, <2>2, <2>3, WordFacts
    <2> QED
      BY <2>3, <2>4, AtFacts
  <1> QED
    BY <1>1, <1>2, <1>3 DEF Begins

Starts == {"string", "scalar", "[", "{"}

(* What each kind of text begins with.                                     *)
LEMMA TextsBegin ==
  /\ \A w \in LeafTexts : Begins(w, {"string", "scalar"})
  /\ \A w \in ArrayTexts : Begins(w, {"["})
  /\ \A w \in ObjectTexts : Begins(w, {"{"})
  /\ \A w \in ValueTexts : Begins(w, Starts)
  /\ \A w \in ItemsTexts : Begins(w, Starts)
  /\ \A w \in PairTexts : Begins(w, {"string"})
  /\ \A w \in MembersTexts : Begins(w, {"string"})
  <1>1. ASSUME NEW w \in LeafTexts PROVE Begins(w, {"string", "scalar"})
    <2>1. ASSUME NEW t \in Token, t.type \in {"string", "scalar"}, w = <<t>> PROVE Begins(w, {"string", "scalar"})
      <3>1. Begins(<<t>>, {t.type})
        BY BeginsWith, TextsAreWords
      <3> QED
        BY <2>1, <3>1 DEF Begins
    <2> QED
      BY <2>1, LeafTokens DEF LeafTexts
  <1>2. ASSUME NEW open \in Punctuation, NEW close \in Punctuation, NEW u \in Word
        PROVE  Begins(Enclose(open, u, close), {open})
    <2>1. Mark(open) \in Token /\ Mark(open).type = open /\ u \o <<Mark(close)>> \in Word
      BY MarkOf, Joins
    <2>2. Begins(<<Mark(open)>> \o (u \o <<Mark(close)>>), {Mark(open).type})
      BY <2>1, BeginsWith
    <2>3. Enclose(open, u, close) = <<Mark(open)>> \o (u \o <<Mark(close)>>)
      BY Takes
    <2> QED
      BY <2>1, <2>2, <2>3
  <1>3. ASSUME NEW w \in ArrayTexts PROVE Begins(w, {"["})
    <2>1. PICK u \in ItemsTexts \cup {<<>>} : w = Enclose("[", u, "]")
      BY DEF ArrayTexts
    <2>2. u \in Word /\ "[" \in Punctuation /\ "]" \in Punctuation
      BY TextsAreWords DEF Punctuation
    <2>3. Begins(Enclose("[", u, "]"), {"["})
      BY <1>2, <2>2
    <2> QED
      BY <2>1, <2>3
  <1>4. ASSUME NEW w \in ObjectTexts PROVE Begins(w, {"{"})
    <2>1. PICK u \in MembersTexts \cup {<<>>} : w = Enclose("{", u, "}")
      BY DEF ObjectTexts
    <2>2. u \in Word /\ "{" \in Punctuation /\ "}" \in Punctuation
      BY TextsAreWords DEF Punctuation
    <2>3. Begins(Enclose("{", u, "}"), {"{"})
      BY <1>2, <2>2
    <2> QED
      BY <2>1, <2>3
  <1>5. ASSUME NEW w \in ValueTexts PROVE Begins(w, Starts)
    BY <1>1, <1>3, <1>4, ValueCases DEF Begins, Starts
  <1>6. ASSUME NEW v \in Word, NEW u \in Word, NEW ts, Begins(v, ts) PROVE Begins(Listed(v, u), ts)
    <2>1. Listed(v, u) = v \o (<<Mark(",")>> \o u)
      BY Takes
    <2>2. <<Mark(",")>> \o u \in Word
      BY MarkOf, Joins DEF Punctuation
    <2> QED
      BY <1>6, <2>1, <2>2, BeginsAlike
  <1>7. ASSUME NEW w \in ItemsTexts PROVE Begins(w, Starts)
    BY <1>5, <1>6, ItemsCases, TextsAreWords
  <1>8. ASSUME NEW w \in PairTexts PROVE Begins(w, {"string"})
    <2>1. PICK n \in Name, v \in ValueTexts : w = Labelled(n, v)
      BY DEF PairTexts
    <2>2. w = <<String(n)>> \o (<<Mark(":")>> \o v) /\ v \in Word
      BY <2>1, Takes, TextsAreWords
    <2>3. <<Mark(":")>> \o v \in Word
      BY <2>2, MarkOf, Joins DEF Punctuation
    <2>4. String(n) \in Token /\ String(n).type = "string"
      BY LeafTokens
    <2> QED
      BY <2>2, <2>3, <2>4, BeginsWith
  <1>9. ASSUME NEW w \in MembersTexts PROVE Begins(w, {"string"})
    BY <1>6, <1>8, MembersCases, TextsAreWords
  <1> QED
    BY <1>1, <1>3, <1>4, <1>5, <1>7, <1>8, <1>9

---------------------------------------------------------------------------
(* What the rules are replaced by.                                         *)

\* S stands for what x, followed by R, stands for where the next two tokens
\* are t and u.
Replaces(x, R, S, t, u) ==
  /\ S \in SUBSET Word
  /\ S \subseteq Joined(Lang(x), R)
  /\ \A w \in Joined(Lang(x), R) : At(w, 1) = t /\ At(w, 2) = u => w \in S

(* The words of a join, and their beginning.                               *)
LEMMA JoinBegins ==
  ASSUME NEW A \in SUBSET Word, NEW R \in SUBSET Word, NEW ts, \A a \in A : Begins(a, ts)
  PROVE  \A w \in Joined(A, R) : Begins(w, ts)
  BY BeginsAlike DEF Joined

(* RULE_VALUE, by the token ahead.                                         *)
LEMMA ReplaceValue ==
  ASSUME NEW R \in SUBSET Word, NEW t, NEW u
  PROVE  /\ t.type = "{" => Replaces("RULE_VALUE", R, Joined(Lang("RULE_OBJECT"), R), t, u)
         /\ t.type = "[" => Replaces("RULE_VALUE", R, Joined(Lang("RULE_ARRAY"), R), t, u)
         /\ t.type \in {"string", "scalar"} => Replaces("RULE_VALUE", R, Joined(Lang(t.type), R), t, u)
         /\ t.type \notin Starts => \A w \in Joined(Lang("RULE_VALUE"), R) : At(w, 1) # t
  <1>1. Lang("RULE_VALUE") = ValueTexts /\ Lang("RULE_OBJECT") = ObjectTexts /\ Lang("RULE_ARRAY") = ArrayTexts
    BY LangFacts
  <1>2. ASSUME NEW A \in SUBSET ValueTexts,
               \A v \in ValueTexts : At(v, 1) = t => v \in A
        PROVE  Replaces("RULE_VALUE", R, Joined(A, R), t, u)
    <2>1. Joined(A, R) \subseteq Joined(ValueTexts, R)
      BY DEF Joined
    <2>2. ASSUME NEW w \in Joined(ValueTexts, R), At(w, 1) = t PROVE w \in Joined(A, R)
      <3>1. PICK v \in ValueTexts, r \in R : w = v \o r
        BY DEF Joined
      <3>2. v \in AnyWord /\ r \in AnyWord /\ v # <<>>
        BY TextsBegin, TextsAreWords, WordFacts DEF Begins
      <3>3. At(v, 1) = t
        BY <2>2, <3>1, <3>2, HeadOf
      <3> QED
        BY <1>2, <2>2, <3>1, <3>3 DEF Joined
    <2>3. Joined(A, R) \in SUBSET Word
      BY DEF Joined
    <2> QED
      BY <1>1, <2>1, <2>2, <2>3 DEF Replaces
  <1>3. ASSUME t.type = "{" PROVE \A v \in ValueTexts : At(v, 1) = t => v \in ObjectTexts
    BY <1>3, ValueCases, TextsBegin DEF Begins
  <1>4. ASSUME t.type = "[" PROVE \A v \in ValueTexts : At(v, 1) = t => v \in ArrayTexts
    BY <1>4, ValueCases, TextsBegin DEF Begins
  <1>5. ASSUME t.type \in {"string", "scalar"}
        PROVE  /\ \A v \in ValueTexts : At(v, 1) = t => v \in Lang(t.type)
               /\ Lang(t.type) \in SUBSET ValueTexts
    <2>1. Lang(t.type) = {w \in Word : \E s \in Token : s.type = t.type /\ w = <<s>>}
      BY <1>5, LangFacts DEF Terminal
    <2>2. Lang(t.type) \in SUBSET LeafTexts
      BY <1>5, <2>1, LeafTokens DEF LeafTexts
    <2>3. ASSUME NEW v \in ValueTexts, At(v, 1) = t PROVE v \in Lang(t.type)
      <3>1. v \in LeafTexts
        BY <1>5, <2>3, ValueCases, TextsBegin DEF Begins
      <3>2. PICK s \in Token : v = <<s>>
        BY <3>1, LeafTokens DEF LeafTexts
      <3>3. s \in AnyToken /\ <<>> \in AnyWord /\ <<s>> \o <<>> = <<s>>
        BY WordFacts DEF AnyToken
      <3>4. At(v, 1) = s
        BY <3>2, <3>3, AtFacts
      <3> QED
        BY <2>1, <2>3, <3>2, <3>4, TextsAreWords
    <2> QED
      BY <2>2, <2>3, ValueMade
  <1>6. ASSUME t.type \notin Starts PROVE \A w \in Joined(ValueTexts, R) : At(w, 1) # t
    <2>1. \A w \in Joined(ValueTexts, R) : Begins(w, Starts)
      BY TextsBegin, TextsAreWords, JoinBegins
    <2> QED
      BY <1>6, <2>1 DEF Begins
  <1>7. /\ t.type = "{" => Replaces("RULE_VALUE", R, Joined(ObjectTexts, R), t, u)
        /\ t.type = "[" => Replaces("RULE_VALUE", R, Joined(ArrayTexts, R), t, u)
        /\ t.type \in {"string", "scalar"} => Replaces("RULE_VALUE", R, Joined(Lang(t.type), R), t, u)
    BY <1>2, <1>3, <1>4, <1>5, ValueMade
  <1> QED
    BY <1>1, <1>6, <1>7

(* An object or an array, whose brackets are open and close and whose      *)
(* contents are A, or nothing.                                             *)
LEMMA Opened ==
  ASSUME NEW open \in Punctuation, NEW close \in Punctuation, NEW A \in SUBSET Word, NEW R \in SUBSET Word,
         NEW X, X = {w \in Word : \E c \in A \cup {<<>>} : w = Enclose(open, c, close)},
         \A c \in A : c # <<>> /\ At(c, 1).type # close
  PROVE  LET end  == Joined({<<Mark(close)>>}, R)
             bare == Joined({<<Mark(open)>>}, end)
             full == Joined({<<Mark(open)>>}, Joined(A, end))
             any  == Joined({<<Mark(open)>>}, Joined(A \cup Empty, end))
         IN  /\ bare \in SUBSET Word /\ full \in SUBSET Word /\ any \in SUBSET Word
             /\ any = Joined(X, R)
             /\ bare \subseteq Joined(X, R) /\ full \subseteq Joined(X, R)
             /\ \A w \in Joined(X, R) : IF At(w, 2).type = close THEN w \in bare ELSE w \in full
  <1> DEFINE a == <<Mark(open)>>
             b == <<Mark(close)>>
             end  == Joined({b}, R)
             bare == Joined({a}, end)
             full == Joined({a}, Joined(A, end))
             any  == Joined({a}, Joined(A \cup Empty, end))
  <1>1. a \in Word /\ b \in Word
    BY Marks1, Joins
  <1>2. \A s \in AnyWord : At(a \o s, 2) = At(s, 1) /\ At(b \o s, 1) = Mark(close)
    BY Marks1, AtFacts DEF AnyToken
  <1>3. Mark(close).type = close
    BY MarkOf
  <1>4. \A c \in Word : Enclose(open, c, close) = a \o (c \o b)
    BY Takes
  <1> HIDE DEF a, b
  <1>5. /\ end \in SUBSET Word /\ bare \in SUBSET Word /\ full \in SUBSET Word /\ any \in SUBSET Word
        /\ Joined(A, end) \in SUBSET Word /\ Joined(A \cup Empty, end) \in SUBSET Word
    BY DEF Joined
  <1>6. <<>> \in Word /\ A \cup Empty \in SUBSET Word
    BY TextsAreWords DEF Empty
  \* The words of X and R together, and their second token.
  <1>7. ASSUME NEW c \in A \cup Empty, NEW r \in R
        PROVE  /\ (a \o (c \o b)) \o r = a \o (c \o (b \o r))
               /\ b \o r \in end /\ c \o (b \o r) \in Joined(A \cup Empty, end)
               /\ c = <<>> => c \o (b \o r) = b \o r
               /\ c \in A => c \o (b \o r) \in Joined(A, end)
               /\ At(a \o (c \o (b \o r)), 2) = IF c = <<>> THEN Mark(close) ELSE At(c, 1)
    <2>1. c \in Word /\ r \in Word /\ c \in AnyWord /\ r \in AnyWord /\ a \in AnyWord /\ b \in AnyWord
      BY <1>1, <1>6, WordFacts
    <2>2. c \o b \in AnyWord /\ b \o r \in AnyWord /\ b \o r \in Word /\ c \o (b \o r) \in AnyWord
      BY <1>1, <2>1, Joins, WordFacts
    <2>3. (a \o (c \o b)) \o r = a \o (c \o (b \o r))
      <3>1. (a \o (c \o b)) \o r = a \o ((c \o b) \o r)
        BY <2>1, <2>2, Regrouped, ZenonT(60)
      <3>2. (c \o b) \o r = c \o (b \o r)
        BY <2>1, Regrouped, SMTT(30)
      <3> QED
        BY <3>1, <3>2
    <2>4. b \o r \in end
      BY <2>1, <2>2 DEF Joined
    <2>5. c \o (b \o r) \in Joined(A \cup Empty, end) /\ (c \in A => c \o (b \o r) \in Joined(A, end))
      <3>1. c \o (b \o r) \in Word
        BY <2>1, <2>2, Joins
      <3> HIDE DEF end
      <3> QED
        BY <2>4, <3>1 DEF Joined
    <2>6. c = <<>> => c \o (b \o r) = b \o r
      BY <2>2, WordFacts
    <2>7. At(a \o (c \o (b \o r)), 2) = At(c \o (b \o r), 1)
      BY <1>2, <2>2
    <2>8. At(c \o (b \o r), 1) = IF c = <<>> THEN Mark(close) ELSE At(c, 1)
      BY <1>2, <2>1, <2>2, <2>6, HeadOf
    <2> QED
      BY <2>3, <2>4, <2>5, <2>6, <2>7, <2>8
  <1>8. \A w : w \in Joined(X, R) <=> w \in Word /\ \E c \in A \cup Empty : \E r \in R : w = (a \o (c \o b)) \o r
    <2>1. \A c \in A \cup Empty : a \o (c \o b) \in Word
      BY <1>1, <1>6, Joins
    <2>2. X = {a \o (c \o b) : c \in A \cup Empty}
      BY <1>4, <1>6, <2>1 DEF Empty
    <2> QED
      BY <2>2 DEF Joined
  <1>9. \A w : w \in end <=> w \in Word /\ \E r \in R : w = b \o r
    BY DEF Joined
  <1> HIDE DEF end
  <1>10. ASSUME NEW w \in any PROVE w \in Joined(X, R)
    <2>1. PICK s \in Joined(A \cup Empty, end) : w = a \o s /\ w \in Word
      BY DEF Joined
    <2>2. PICK c \in A \cup Empty, e \in end : s = c \o e
      BY DEF Joined
    <2>3. PICK r \in R : e = b \o r
      BY <1>9
    <2>4. w = (a \o (c \o b)) \o r
      BY <1>7, <2>1, <2>2, <2>3
    <2> QED
      BY <1>8, <2>1, <2>4
  <1>11. ASSUME NEW w \in Joined(X, R)
         PROVE  w \in any /\ IF At(w, 2).type = close THEN w \in bare ELSE w \in full
    <2>1. PICK c \in A \cup Empty, r \in R : w = (a \o (c \o b)) \o r /\ w \in Word
      BY <1>8
    <2>2. w = a \o (c \o (b \o r))
      BY <1>7, <2>1
    <2>3. w \in any
      BY <1>7, <2>1, <2>2 DEF Joined
    <2>4. CASE c = <<>>
      <3>1. At(w, 2).type = close
        BY <1>3, <1>7, <2>2, <2>4
      <3>2. w = a \o (b \o r)
        BY <1>7, <2>2, <2>4
      <3>3. w \in bare
        BY <1>7, <2>1, <3>2 DEF Joined
      <3> QED
        BY <2>3, <3>1, <3>3
    <2>5. CASE c # <<>>
      <3>1. c \in A
        BY <2>5 DEF Empty
      <3>2. At(w, 2).type # close
        BY <1>7, <2>2, <2>5, <3>1
      <3>3. w \in full
        BY <1>7, <2>1, <2>2, <3>1 DEF Joined
      <3> QED
        BY <2>3, <3>2, <3>3
    <2> QED
      BY <2>4, <2>5
  <1>12. bare \subseteq any /\ full \subseteq any
    <2>1. end \subseteq Joined(A \cup Empty, end)
      <3>1. \A w \in end : w \in Word /\ <<>> \o w = w
        BY <1>5, WordFacts
      <3> QED
        BY <3>1 DEF Joined, Empty
    <2>2. Joined(A, end) \subseteq Joined(A \cup Empty, end)
      BY DEF Joined
    <2> QED
      BY <2>1, <2>2 DEF Joined
  <1>13. any = Joined(X, R)
    BY <1>10, <1>11
  <1>14. /\ bare \in SUBSET Word /\ full \in SUBSET Word /\ any \in SUBSET Word
         /\ any = Joined(X, R)
         /\ bare \subseteq Joined(X, R) /\ full \subseteq Joined(X, R)
         /\ \A w \in Joined(X, R) : IF At(w, 2).type = close THEN w \in bare ELSE w \in full
    BY <1>5, <1>11, <1>12, <1>13
  <1> QED
    BY <1>14 DEF a, b, end

---------------------------------------------------------------------------
(* Joins may be grouped either way.                                        *)
LEMMA JoinJoin ==
  ASSUME NEW A \in SUBSET Word, NEW B \in SUBSET Word, NEW C \in SUBSET Word
  PROVE  \A w : w \in Joined(A, Joined(B, C)) <=>
                  w \in Word /\ \E a \in A : \E b \in B : \E c \in C : w = a \o (b \o c)
  <1>1. \A b \in B, c \in C : b \o c \in Word
    BY Joins
  <1> QED
    BY <1>1 DEF Joined

(* A list is its first element, and what comes after it.                   *)
LEMMA ReplaceList ==
  ASSUME NEW A \in SUBSET Word, NEW M \in SUBSET Word, NEW R \in SUBSET Word,
         \A w \in Word : w \in M <=> w \in A \/ \E v \in A, u \in M : w = Listed(v, u)
  PROVE  Joined(A, Joined(Next(M), R)) = Joined(M, R)
  <1> DEFINE a == <<Mark(",")>>
  <1>1. a \in Word /\ <<>> \in Word
    BY Marks1, Joins, TextsAreWords DEF Punctuation
  <1>2. \A v, u \in Word : Listed(v, u) = v \o (a \o u)
    BY Takes
  <1>3. \A n : n \in Next(M) <=> n = <<>> \/ \E u \in M : n = a \o u
    BY <1>1, Joins DEF Next
  <1> HIDE DEF a
  <1>4. Next(M) \in SUBSET Word
    BY DEF Next
  <1>10. \A w : w \in Joined(A, Joined(Next(M), R)) <=>
                   w \in Word /\ \E v \in A : \E n \in Next(M) : \E r \in R : w = v \o (n \o r)
    BY <1>4, JoinJoin
  <1>5. ASSUME NEW w, w \in Joined(M, R) PROVE w \in Joined(A, Joined(Next(M), R))
    <2>1. PICK m \in M, r \in R : w = m \o r /\ w \in Word
      BY <1>5 DEF Joined
    <2>2. CASE m \in A
      <3>1. <<>> \in Next(M) /\ <<>> \o r = r
        BY <1>3, WordFacts
      <3>2. w = m \o (<<>> \o r)
        BY <2>1, <3>1
      <3> QED
        BY <1>10, <2>1, <2>2, <3>1, <3>2
    <2>3. ASSUME NEW v \in A, NEW u \in M, m = Listed(v, u) PROVE w \in Joined(A, Joined(Next(M), R))
      <3>1. m = v \o (a \o u) /\ a \o u \in Next(M) /\ a \o u \in Word
        BY <1>1, <1>2, <1>3, <2>3, Joins
      <3>2. v \in AnyWord /\ a \o u \in AnyWord /\ r \in AnyWord
        BY <3>1, WordFacts
      <3>3. w = v \o ((a \o u) \o r)
        BY <2>1, <3>1, <3>2, Regrouped
      <3> QED
        BY <1>10, <2>1, <3>1, <3>3
    <2> QED
      BY <2>1, <2>2, <2>3
  <1>6. ASSUME NEW w, w \in Joined(A, Joined(Next(M), R)) PROVE w \in Joined(M, R)
    <2>1. w \in Word /\ \E v \in A : \E n \in Next(M) : \E r \in R : w = v \o (n \o r)
      BY <1>6, <1>10
    <2>2. PICK v \in A, n \in Next(M), r \in R : w = v \o (n \o r)
      BY <2>1
    <2>3. CASE n = <<>>
      <3>1. n \o r = r /\ v \in M
        BY <2>3, WordFacts
      <3> QED
        BY <2>1, <2>2, <3>1 DEF Joined
    <2>4. ASSUME NEW u \in M, n = a \o u PROVE w \in Joined(M, R)
      <3>1. Listed(v, u) = v \o n /\ Listed(v, u) \in M
        BY <1>2, <2>4, ListedFacts
      <3>2. v \in AnyWord /\ n \in AnyWord /\ r \in AnyWord
        BY <1>4, WordFacts
      <3>3. w = (v \o n) \o r
        BY <2>2, <3>2, Regrouped
      <3> QED
        BY <2>1, <3>1, <3>3 DEF Joined
    <2> QED
      BY <1>3, <2>3, <2>4
  <1> QED
    BY <1>5, <1>6

(* A list is its first item and what may follow it.                        *)
LEMMA ReplaceMembers ==
  ASSUME NEW R \in SUBSET Word
  PROVE  /\ Joined(PairTexts, Joined(Next(MembersTexts), R)) = Joined(MembersTexts, R)
         /\ Joined(ValueTexts, Joined(Next(ItemsTexts), R)) = Joined(ItemsTexts, R)
  <1>1. \A w \in Word : w \in MembersTexts <=> w \in PairTexts \/ \E v \in PairTexts, u \in MembersTexts : w = Listed(v, u)
    BY MembersCases, MembersMade
  <1>2. \A w \in Word : w \in ItemsTexts <=> w \in ValueTexts \/ \E v \in ValueTexts, u \in ItemsTexts : w = Listed(v, u)
    BY ItemsCases, ItemsMade
  <1> QED
    BY <1>1, <1>2, TextsAreWords, ReplaceList

(* A member is its name, a colon and its value.                            *)
LEMMA ReplacePair ==
  ASSUME NEW R \in SUBSET Word
  PROVE  Joined(Lang("string"), Joined(Lang(":"), Joined(ValueTexts, R))) = Joined(PairTexts, R)
  <1> DEFINE b == <<Mark(":")>>
             V == Joined(ValueTexts, R)
  <1>1. Lang(":") = {b} /\ b \in Word
    BY MarkOf, Joins DEF Punctuation
  <1>2. Lang("string") = {w \in Word : \E t \in Token : t.type = "string" /\ w = <<t>>}
    BY LangFacts DEF Terminal
  <1>3. \A a : a \in Lang("string") <=> \E n \in Name : a = <<String(n)>>
    BY <1>2, LeafTokens, Joins
  <1>4. \A n \in Name : <<String(n)>> \in Word
    BY LeafTokens, Joins
  <1>5. \A n \in Name : \A v \in Word : Labelled(n, v) = <<String(n)>> \o (b \o v)
    BY Takes
  <1> HIDE DEF b
  <1>6. V \in SUBSET Word /\ Lang("string") \in SUBSET Word /\ Lang(":") \in SUBSET Word
    BY LangFacts DEF Joined
  <1>10. \A w : w \in Joined(Lang("string"), Joined(Lang(":"), V)) <=>
                   w \in Word /\ \E a \in Lang("string") : \E c \in Lang(":") : \E s \in V : w = a \o (c \o s)
    <2> HIDE DEF V
    <2> QED
      BY <1>6, JoinJoin
  \* One way of grouping and the other.
  <1>7. ASSUME NEW a \in Word, NEW v \in Word, NEW r \in Word
        PROVE  (a \o (b \o v)) \o r = a \o (b \o (v \o r))
    <2>1. a \in AnyWord /\ b \in AnyWord /\ v \in AnyWord /\ r \in AnyWord /\ b \o v \in AnyWord
      BY <1>1, WordFacts
    <2>2. (a \o (b \o v)) \o r = a \o ((b \o v) \o r)
      BY <2>1, Regrouped, SMTT(30)
    <2>3. (b \o v) \o r = b \o (v \o r)
      BY <2>1, Regrouped, SMTT(30)
    <2> QED
      BY <2>2, <2>3
  <1>8. ASSUME NEW w, w \in Joined(PairTexts, R) PROVE w \in Joined(Lang("string"), Joined(Lang(":"), V))
    <2>1. PICK p \in PairTexts, r \in R : w = p \o r /\ w \in Word
      BY <1>8 DEF Joined
    <2>2. PICK n \in Name, v \in ValueTexts : p = Labelled(n, v)
      BY DEF PairTexts
    <2>3. v \in Word /\ r \in Word
      BY TextsAreWords
    <2> DEFINE a == <<String(n)>>
    <2>4. a \in Word /\ a \in Lang("string") /\ p = a \o (b \o v)
      BY <1>3, <1>4, <1>5, <2>2, <2>3
    <2> HIDE DEF a
    <2>5. w = a \o (b \o (v \o r))
      BY <1>7, <2>1, <2>3, <2>4, SMTT(30)
    <2>6. v \o r \in V
      BY <2>3, Joins DEF Joined
    <2> HIDE DEF V
    <2> QED
      BY <1>1, <1>10, <2>1, <2>4, <2>5, <2>6
  <1>9. ASSUME NEW w, w \in Joined(Lang("string"), Joined(Lang(":"), V)) PROVE w \in Joined(PairTexts, R)
    <2>1. w \in Word /\ \E a \in Lang("string") : \E c \in Lang(":") : \E s \in V : w = a \o (c \o s)
      BY <1>9, <1>10
    <2>2. PICK a \in Lang("string"), s \in V : w = a \o (b \o s)
      BY <1>1, <2>1
    <2>3. PICK v \in ValueTexts, r \in R : s = v \o r
      BY DEF Joined
    <2>4. v \in Word /\ r \in Word /\ a \in Word
      BY <1>6, TextsAreWords
    <2>5. PICK n \in Name : a = <<String(n)>>
      BY <1>3
    <2>6. a \o (b \o v) = Labelled(n, v) /\ Labelled(n, v) \in Word
      BY <1>5, <2>4, <2>5, LabelledFacts
    <2>7. Labelled(n, v) \in PairTexts
      BY <2>6 DEF PairTexts
    <2>8. w = Labelled(n, v) \o r
      <3>1. (a \o (b \o v)) \o r = a \o (b \o (v \o r))
        BY <1>7, <2>4
      <3> QED
        BY <2>2, <2>3, <2>6, <3>1
    <2> QED
      BY <2>1, <2>7, <2>8 DEF Joined
  <1> QED
    BY <1>8, <1>9

(* What follows an element: a comma and others, or nothing, when what      *)
(* comes after the list is no comma.                                       *)
LEMMA ReplaceNext ==
  ASSUME NEW M \in SUBSET Word, NEW R \in SUBSET Word, NEW t, \A r \in R : At(r, 1).type # ","
  PROVE  LET more == Joined(Lang(","), Joined(M, R)) IN
         /\ more \in SUBSET Word /\ more \subseteq Joined(Next(M), R) /\ R \subseteq Joined(Next(M), R)
         /\ \A w \in Joined(Next(M), R) : At(w, 1) = t => IF t.type = "," THEN w \in more ELSE w \in R
  <1> DEFINE a == <<Mark(",")>>
             more == Joined({a}, Joined(M, R))
  <1>1. a \in Word /\ <<>> \in Word /\ Lang(",") = {a}
    BY MarkOf, Joins, TextsAreWords DEF Punctuation
  <1>2. \A n : n \in Next(M) <=> n = <<>> \/ \E u \in M : n = a \o u
    BY <1>1, Joins DEF Next
  <1>3. \A w \in AnyWord : At(a \o w, 1).type = ","
    <2>1. Mark(",") \in AnyToken /\ Mark(",").type = ","
      BY MarkOf DEF Punctuation, AnyToken
    <2> QED
      BY <2>1, AtFacts
  <1> HIDE DEF a
  <1>4. more \in SUBSET Word
    BY DEF Joined
  <1>5. R \subseteq Joined(Next(M), R)
    <2>1. \A r \in R : r \in Word /\ <<>> \o r = r
      BY WordFacts
    <2>2. <<>> \in Next(M)
      BY <1>2
    <2> QED
      BY <2>1, <2>2 DEF Joined
  <1>6. ASSUME NEW u \in M, NEW r \in R
        PROVE  (a \o u) \o r = a \o (u \o r) /\ At(a \o (u \o r), 1).type = "," /\ u \o r \in Joined(M, R)
    <2>1. a \in AnyWord /\ u \in AnyWord /\ r \in AnyWord /\ u \o r \in AnyWord
      BY <1>1, WordFacts
    <2>2. u \o r \in Joined(M, R)
      BY Joins DEF Joined
    <2> QED
      BY <1>3, <2>1, <2>2, Regrouped
  <1>7. ASSUME NEW w \in more PROVE w \in Joined(Next(M), R)
    <2>1. PICK s \in Joined(M, R) : w = a \o s /\ w \in Word
      BY DEF Joined
    <2>2. PICK u \in M, r \in R : s = u \o r
      BY DEF Joined
    <2>3. w = (a \o u) \o r /\ a \o u \in Next(M)
      BY <1>2, <1>6, <2>1, <2>2
    <2> QED
      BY <2>1, <2>3 DEF Joined
  <1>8. ASSUME NEW w \in Joined(Next(M), R), At(w, 1) = t
        PROVE  IF t.type = "," THEN w \in more ELSE w \in R
    <2>1. PICK n \in Next(M), r \in R : w = n \o r /\ w \in Word
      BY DEF Joined
    <2>2. CASE n = <<>>
      <3>1. w = r
        BY <2>1, <2>2, WordFacts
      <3> QED
        BY <1>8, <3>1
    <2>3. ASSUME NEW u \in M, n = a \o u PROVE IF t.type = "," THEN w \in more ELSE w \in R
      <3>1. w = a \o (u \o r) /\ At(w, 1).type = "," /\ u \o r \in Joined(M, R)
        <4>1. w = (a \o u) \o r
          BY <2>1, <2>3
        <4>2. (a \o u) \o r = a \o (u \o r)
          BY <1>6
        <4>3. w = a \o (u \o r)
          BY <4>1, <4>2
        <4> QED
          BY <1>6, <4>3
      <3>2. w \in more
        BY <2>1, <3>1 DEF Joined
      <3> QED
        BY <1>8, <3>1, <3>2
    <2> QED
      BY <1>2, <2>2, <2>3
  <1> QED
    BY <1>1, <1>4, <1>5, <1>7, <1>8

(* The contents of brackets of which nothing is read yet: none, when the   *)
(* closing bracket comes next.                                             *)
LEMMA ReplaceAny ==
  ASSUME NEW M \in SUBSET Word, NEW R \in SUBSET Word, NEW t, NEW close,
         \A r \in R : At(r, 1).type = close, \A m \in M : m # <<>> /\ At(m, 1).type # close
  PROVE  /\ R \subseteq Joined(M \cup Empty, R) /\ Joined(M, R) \subseteq Joined(M \cup Empty, R)
         /\ Joined(M, R) \in SUBSET Word
         /\ \A w \in Joined(M, R) : At(w, 1).type # close
         /\ \A w \in Joined(M \cup Empty, R) : At(w, 1) = t => IF t.type = close THEN w \in R ELSE w \in Joined(M, R)
  <1>1. \A r \in R : <<>> \o r = r /\ r \in Word
    BY WordFacts
  <1>2. R \subseteq Joined(M \cup Empty, R) /\ Joined(M, R) \subseteq Joined(M \cup Empty, R) /\ Joined(M, R) \in SUBSET Word
    BY <1>1 DEF Joined, Empty
  <1>3. ASSUME NEW m \in M, NEW r \in R PROVE At(m \o r, 1).type # close
    <2>1. m \in AnyWord /\ r \in AnyWord /\ m # <<>>
      BY WordFacts
    <2> QED
      BY <2>1, HeadOf
  <1>4. \A w \in Joined(M, R) : At(w, 1).type # close
    BY <1>3 DEF Joined
  <1>5. \A w \in Joined(M \cup Empty, R) : w \in R \/ w \in Joined(M, R)
    BY <1>1 DEF Joined, Empty
  <1> QED
    BY <1>2, <1>4, <1>5

---------------------------------------------------------------------------
(* The language of a stack of symbols.                                     *)

Contents == {"ANY_MEMBERS", "ANY_ELEMENTS"}

Stackable == Expectable \cup Contents

\* What may lie below a symbol: below a list its closing bracket.
Placed(below, x) ==
  /\ x \in {"RULE_MEMBERS", "RULE_NEXT_MEMBER", "ANY_MEMBERS"} => below = "}"
  /\ x \in {"RULE_ELEMENTS", "RULE_NEXT_ELEMENT", "ANY_ELEMENTS"} => below = "]"
  /\ x \in {"RULE_JSON", "eof"} => below = "none"

\* L[i] is the language of the lowest i symbols.
Levels(L, c) ==
  /\ L[0] = Empty
  /\ \A i \in 1 .. Len(c) : L[i] = Joined(Lang(c[i]), L[i - 1]) /\ Placed(Below(c, i), c[i])

Stacked(c, S) == \E L : Levels(L, c) /\ S = L[Len(c)]

(* The language of nothing.                                                *)
LEMMA StackedNone == Stacked(<<>>, Empty) /\ \A S : Stacked(<<>>, S) => S = Empty
  <1>1. Levels([i \in 0 .. 0 |-> Empty], <<>>)
    BY DEF Levels
  <1>2. Stacked(<<>>, Empty)
    <2> DEFINE L == [i \in 0 .. 0 |-> Empty]
    <2>1. Empty = L[Len(<<>>)]
      OBVIOUS
    <2> QED
      BY <1>1, <2>1 DEF Stacked
  <1>3. \A S : Stacked(<<>>, S) => S = Empty
    BY DEF Stacked, Levels
  <1> QED
    BY <1>2, <1>3

(* One symbol more.                                                        *)
LEMMA StackedMore ==
  ASSUME NEW c \in Seq(Stackable), NEW S, Stacked(c, S), NEW x \in Stackable, Placed(Top(c), x)
  PROVE  Stacked(Append(c, x), Joined(Lang(x), S))
  <1> DEFINE d == Append(c, x)
             n == Len(c)
  <1>1. /\ d \in Seq(Stackable) /\ n \in Nat /\ Len(d) = n + 1
        /\ \A i \in 1 .. n : d[i] = c[i]
        /\ d[n + 1] = x
    BY AppendFacts
  <1>2. PICK L : Levels(L, c) /\ S = L[n]
    BY DEF Stacked
  <1>3. Top(c) = IF n = 0 THEN "none" ELSE c[n]
    <2>1. c = <<>> <=> n = 0
      BY EmptySeq
    <2> QED
      BY <2>1 DEF Top
  <1> HIDE DEF d, n
  <1> DEFINE M == [i \in 0 .. n + 1 |-> IF i = n + 1 THEN Joined(Lang(x), S) ELSE L[i]]
  <1>4. M[n + 1] = Joined(Lang(x), S) /\ \A i \in 0 .. n : M[i] = L[i]
    BY <1>1
  <1>5. M[0] = Empty
    BY <1>1, <1>2, <1>4 DEF Levels
  <1> HIDE DEF M
  <1>6. ASSUME NEW i \in 1 .. Len(d) PROVE M[i] = Joined(Lang(d[i]), M[i - 1]) /\ Placed(Below(d, i), d[i])
    <2>1. CASE i = n + 1
      <3>1. M[i - 1] = S
        BY <1>1, <1>2, <1>4, <2>1
      <3>2. Below(d, i) = Top(c)
        <4>1. CASE n = 0
          BY <1>3, <2>1, <4>1 DEF Below
        <4>2. CASE n # 0
          <5>1. n \in 1 .. n /\ i # 1 /\ i - 1 = n
            BY <1>1, <2>1, <4>2
          <5> QED
            BY <1>1, <1>3, <4>2, <5>1 DEF Below
        <4> QED
          BY <4>1, <4>2
      <3> QED
        BY <1>1, <1>4, <2>1, <3>1, <3>2
    <2>2. CASE i # n + 1
      <3>1. i \in 1 .. n /\ i \in 0 .. n /\ i - 1 \in 0 .. n /\ (i # 1 => i - 1 \in 1 .. n)
        BY <1>1, <2>2
      <3>2. d[i] = c[i] /\ Below(d, i) = Below(c, i) /\ M[i] = L[i] /\ M[i - 1] = L[i - 1]
        BY <1>1, <1>4, <3>1 DEF Below
      <3>3. L[i] = Joined(Lang(c[i]), L[i - 1]) /\ Placed(Below(c, i), c[i])
        BY <1>2, <3>1 DEF Levels, n
      <3> QED
        BY <3>2, <3>3
    <2> QED
      BY <2>1, <2>2
  <1>7. Levels(M, d)
    BY <1>5, <1>6 DEF Levels
  <1>8. Joined(Lang(x), S) = M[Len(d)]
    BY <1>1, <1>4
  <1> QED
    BY <1>7, <1>8 DEF Stacked, d

(* One symbol less.                                                        *)
LEMMA StackedLess ==
  ASSUME NEW c \in Seq(Stackable), c # <<>>, NEW S, Stacked(c, S)
  PROVE  \E R \in SUBSET Word : /\ Stacked(Front(c), R) /\ S = Joined(Lang(Top(c)), R)
                                /\ Placed(Top(Front(c)), Top(c))
  <1> DEFINE f == Front(c)
             n == Len(c)
  <1>1. /\ f \in Seq(Stackable) /\ n \in Nat \ {0} /\ Len(f) = n - 1
        /\ \A i \in 1 .. n - 1 : f[i] = c[i]
        /\ Top(c) = c[n]
    BY FrontFacts
  <1>2. PICK L : Levels(L, c) /\ S = L[n]
    BY DEF Stacked
  <1>3. /\ L[0] = Empty
        /\ \A i \in 1 .. n : L[i] = Joined(Lang(c[i]), L[i - 1]) /\ Placed(Below(c, i), c[i])
    BY <1>2 DEF Levels
  <1>4. Top(f) = Below(c, n)
    <2>1. CASE n = 1
      <3>1. f = <<>>
        BY <1>1, <2>1, EmptySeq
      <3> QED
        BY <2>1, <3>1 DEF Top, Below
    <2>2. CASE n # 1
      <3>1. n - 1 \in 1 .. n - 1 /\ Len(f) = n - 1 /\ Len(f) # 0
        BY <1>1, <2>2
      <3>2. f # <<>>
        BY <3>1
      <3> HIDE DEF f, n
      <3> QED
        BY <1>1, <2>2, <3>1, <3>2 DEF Top, Below
    <2> QED
      BY <2>1, <2>2
  <1> HIDE DEF f, n
  <1>5. Levels(L, f)
    <2>1. ASSUME NEW i \in 1 .. Len(f) PROVE L[i] = Joined(Lang(f[i]), L[i - 1]) /\ Placed(Below(f, i), f[i])
      <3>1. i \in 1 .. n - 1 /\ i \in 1 .. n /\ (i # 1 => i - 1 \in 1 .. n - 1)
        BY <1>1
      <3>2. f[i] = c[i] /\ Below(f, i) = Below(c, i)
        BY <1>1, <3>1 DEF Below
      <3> QED
        BY <1>3, <3>1, <3>2
    <2> QED
      BY <1>3, <2>1 DEF Levels
  <1>6. Stacked(f, L[n - 1])
    BY <1>1, <1>5 DEF Stacked
  <1>7. L[n - 1] \in SUBSET Word
    <2>1. CASE n = 1
      BY <1>3, <2>1, TextsAreWords DEF Empty
    <2>2. CASE n # 1
      <3>1. n - 1 \in 1 .. n
        BY <1>1, <2>2
      <3> QED
        BY <1>3, <3>1 DEF Joined
    <2> QED
      BY <2>1, <2>2
  <1>8. S = Joined(Lang(Top(c)), L[n - 1]) /\ Placed(Top(f), Top(c))
    <2>1. n \in 1 .. n
      BY <1>1
    <2> QED
      BY <1>1, <1>2, <1>3, <1>4, <2>1
  <1> QED
    BY <1>6, <1>7, <1>8 DEF f

(* Right after the contents of brackets comes what closes them.            *)
LEMMA StackedClose ==
  ASSUME NEW c \in Seq(Stackable), NEW S, Stacked(c, S), NEW x \in {"}", "]"}, Top(c) = x
  PROVE  \A w \in S : At(w, 1).type = x
  <1>1. c # <<>> /\ x \in Punctuation
    BY DEF Top, Punctuation
  <1>2. PICK R \in SUBSET Word : S = Joined(Lang(x), R)
    BY <1>1, StackedLess
  <1>3. Lang(x) = {<<Mark(x)>>} /\ Mark(x) \in Token /\ Mark(x).type = x
    BY <1>1, MarkOf
  <1>4. Lang(x) \in SUBSET Word /\ \A a \in Lang(x) : Begins(a, {x})
    BY <1>3, LangFacts, BeginsWith, TextsAreWords
  <1>5. \A w \in S : Begins(w, {x})
    BY <1>2, <1>4, JoinBegins
  <1> QED
    BY <1>5 DEF Begins

---------------------------------------------------------------------------
(* A text partly read.                                                     *)

\* The tokens of the text before p are read and c is what is expected: with
\* what c stands for they make a value, and if the text is one then the
\* rest is among that.
Reading(text, p, c) ==
  \E done \in Word, rest \in AnyWord, S \in SUBSET Word :
    /\ text = done \o rest /\ p = Len(done) + 1
    /\ Stacked(c, S)
    /\ \A w \in S : done \o w \in ValueTexts
    /\ text \in ValueTexts => rest \in S

(* The rest of a text that is one is a word.                               *)
LEMMA ReadingAt ==
  ASSUME NEW done \in Word, NEW rest \in AnyWord
  PROVE  /\ At(done \o rest, Len(done) + 1) = At(rest, 1)
         /\ At(done \o rest, Len(done) + 1 + 1) = At(rest, 2)
         /\ Len(done) \in Nat /\ Len(done \o rest) = Len(done) + Len(rest) /\ Len(rest) \in Nat
  <1>1. done \in AnyWord /\ Len(done) \in Nat /\ Len(rest) \in Nat
    BY WordFacts
  <1>2. Len(done) + 1 + 1 = Len(done) + 2
    BY <1>1
  <1>3. At(done \o rest, Len(done) + 1) = At(rest, 1) /\ At(done \o rest, Len(done) + 2) = At(rest, 2)
    BY <1>1, AtRest
  <1>4. Len(done \o rest) = Len(done) + Len(rest)
    BY <1>1, ConcatProperties DEF AnyWord
  <1> QED
    BY <1>1, <1>2, <1>3, <1>4

(* The symbol on top is replaced.                                          *)
LEMMA ReadingReplaced ==
  ASSUME NEW text, NEW p, NEW c \in Seq(Stackable), c # <<>>, Reading(text, p, c), NEW d,
         \A R \in SUBSET Word : Stacked(Front(c), R) /\ Placed(Top(Front(c)), Top(c)) =>
           \E S : Stacked(d, S) /\ Replaces(Top(c), R, S, At(text, p), At(text, p + 1))
  PROVE  Reading(text, p, d)
  <1>1. PICK done \in Word, rest \in AnyWord, S \in SUBSET Word :
               /\ text = done \o rest /\ p = Len(done) + 1
               /\ Stacked(c, S)
               /\ \A w \in S : done \o w \in ValueTexts
               /\ text \in ValueTexts => rest \in S
    BY DEF Reading
  <1>2. PICK R \in SUBSET Word : /\ Stacked(Front(c), R) /\ S = Joined(Lang(Top(c)), R)
                                 /\ Placed(Top(Front(c)), Top(c))
    BY <1>1, StackedLess
  <1>3. PICK S2 : Stacked(d, S2) /\ Replaces(Top(c), R, S2, At(text, p), At(text, p + 1))
    BY <1>2
  <1>4. S2 \in SUBSET Word /\ S2 \subseteq S
    BY <1>2, <1>3 DEF Replaces
  <1>5. At(rest, 1) = At(text, p) /\ At(rest, 2) = At(text, p + 1)
    BY <1>1, ReadingAt
  <1>6. text \in ValueTexts => rest \in S2
    BY <1>1, <1>2, <1>3, <1>5 DEF Replaces
  <1>7. \A w \in S2 : done \o w \in ValueTexts
    BY <1>1, <1>4
  <1> QED
    BY <1>1, <1>3, <1>4, <1>6, <1>7 DEF Reading

(* What the symbol on top stands for cannot begin as the text goes on.     *)
LEMMA ReadingFails ==
  ASSUME NEW text, NEW p, NEW c \in Seq(Stackable), c # <<>>, Reading(text, p, c),
         \A R \in SUBSET Word : Stacked(Front(c), R) /\ Placed(Top(Front(c)), Top(c)) =>
           \A w \in Joined(Lang(Top(c)), R) : At(w, 1) # At(text, p)
  PROVE  text \notin ValueTexts
  <1>1. PICK done \in Word, rest \in AnyWord, S \in SUBSET Word :
               /\ text = done \o rest /\ p = Len(done) + 1
               /\ Stacked(c, S)
               /\ \A w \in S : done \o w \in ValueTexts
               /\ text \in ValueTexts => rest \in S
    BY DEF Reading
  <1>2. PICK R \in SUBSET Word : /\ Stacked(Front(c), R) /\ S = Joined(Lang(Top(c)), R)
                                 /\ Placed(Top(Front(c)), Top(c))
    BY <1>1, StackedLess
  <1>3. At(rest, 1) = At(text, p)
    BY <1>1, ReadingAt
  <1> QED
    BY <1>1, <1>2, <1>3

(* The symbol on top is a kind of token, and the next token is one.        *)
LEMMA ReadingOn ==
  ASSUME NEW text, NEW p, NEW c \in Seq(Stackable), c # <<>>, Reading(text, p, c),
         Top(c) \in Terminal, At(text, p).type = Top(c)
  PROVE  Reading(text, p + 1, Front(c))
  <1>1. PICK done \in Word, rest \in AnyWord, S \in SUBSET Word :
               /\ text = done \o rest /\ p = Len(done) + 1
               /\ Stacked(c, S)
               /\ \A w \in S : done \o w \in ValueTexts
               /\ text \in ValueTexts => rest \in S
    BY DEF Reading
  <1>2. PICK R \in SUBSET Word : Stacked(Front(c), R) /\ S = Joined(Lang(Top(c)), R)
    BY <1>1, StackedLess
  <1>3. At(rest, 1) = At(text, p)
    BY <1>1, ReadingAt
  <1>4. rest # <<>>
    <2>1. EndOfFile.type = "eof" /\ "eof" \notin Terminal
      BY TokenFacts DEF Terminal, Punctuation
    <2> QED
      BY <1>3, <2>1, AtFacts
  <1>5. PICK t \in AnyToken : \E r \in AnyWord : rest = <<t>> \o r
    BY <1>4, HeadFacts
  <1>6. PICK r \in AnyWord : rest = <<t>> \o r
    BY <1>5
  <1>7. t.type = Top(c) /\ t \in Token
    <2>1. At(rest, 1) = t
      BY <1>6, AtFacts
    <2>2. t.type = Top(c)
      BY <1>3, <2>1
    <2>3. "error" \notin Terminal
      BY DEF Terminal, Punctuation
    <2> QED
      BY <2>2, <2>3, TokenFacts
  <1> DEFINE s == <<t>>
  <1>8. s \in Word /\ Len(s) = 1 /\ s \in AnyWord
    BY <1>7, Joins, WordFacts
  <1>9. Lang(Top(c)) = {w \in Word : \E u \in Token : u.type = Top(c) /\ w = <<u>>}
    BY LangFacts
  <1>10. s \in Lang(Top(c))
    BY <1>7, <1>8, <1>9
  <1> DEFINE more == done \o s
  <1>11. more \in Word /\ Len(more) = Len(done) + 1
    BY <1>8, Joins
  <1>12. text = more \o r
    <2>1. done \in AnyWord
      BY WordFacts
    <2> HIDE DEF s
    <2>2. (done \o s) \o r = done \o (s \o r)
      BY <1>8, <2>1, Regrouped
    <2> QED
      BY <1>1, <1>6, <2>2 DEF s
  <1>13. ASSUME NEW w \in R PROVE more \o w \in ValueTexts
    <2>1. done \in AnyWord /\ w \in AnyWord
      BY WordFacts
    <2>2. s \o w \in S
      <3>1. s \o w \in Word
        BY <1>8, Joins
      <3> QED
        BY <1>2, <1>10, <3>1 DEF Joined
    <2> HIDE DEF s
    <2>3. (done \o s) \o w = done \o (s \o w)
      BY <1>8, <2>1, Regrouped, ZenonT(60)
    <2> QED
      BY <1>1, <2>2, <2>3
  <1>14. text \in ValueTexts => r \in R
    <2> SUFFICES ASSUME text \in ValueTexts PROVE r \in R
      OBVIOUS
    <2>1. PICK a \in Lang(Top(c)), v \in R : rest = a \o v
      BY <1>1, <1>2 DEF Joined
    <2>2. PICK u \in Token : a = <<u>>
      BY <1>9
    <2>3. u \in AnyToken /\ v \in AnyWord /\ <<t>> \o r = <<u>> \o v
      BY <1>6, <2>1, <2>2, WordFacts DEF AnyToken
    <2>4. r = v
      BY <2>3, HeadFacts
    <2> QED
      BY <2>4
  <1> HIDE DEF more
  <1>15. p + 1 = Len(more) + 1
    BY <1>1, <1>11
  <1> QED
    BY <1>2, <1>11, <1>12, <1>13, <1>14, <1>15 DEF Reading

(* Nothing is expected any more.                                           *)
LEMMA ReadingDone ==
  ASSUME NEW text, NEW p, Reading(text, p, <<>>)
  PROVE  /\ p = Len(text) + 1 => text \in ValueTexts
         /\ text \in ValueTexts => p = Len(text) + 1
  <1>1. PICK done \in Word, rest \in AnyWord, S \in SUBSET Word :
               /\ text = done \o rest /\ p = Len(done) + 1
               /\ Stacked(<<>>, S)
               /\ \A w \in S : done \o w \in ValueTexts
               /\ text \in ValueTexts => rest \in S
    BY DEF Reading
  <1>2. S = Empty
    BY <1>1, StackedNone
  <1>3. Len(text) = Len(done) + Len(rest) /\ Len(done) \in Nat /\ Len(rest) \in Nat
    BY <1>1, ReadingAt
  <1>4. ASSUME p = Len(text) + 1 PROVE text \in ValueTexts
    <2>1. Len(rest) = 0
      BY <1>1, <1>3, <1>4
    <2>2. rest = <<>>
      BY <2>1, EmptySeq DEF AnyWord
    <2> QED
      BY <1>1, <1>2, <2>2 DEF Empty
  <1>5. ASSUME text \in ValueTexts PROVE p = Len(text) + 1
    <2>1. Len(rest) = 0
      BY <1>1, <1>2, <1>5 DEF Empty
    <2> QED
      BY <1>1, <1>3, <2>1
  <1> QED
    BY <1>4, <1>5

(* Nothing is read yet.                                                    *)
LEMMA ReadingStarts ==
  ASSUME NEW text \in AnyWord, NEW c, Stacked(c, ValueTexts)
  PROVE  Reading(text, 1, c)
  <1>1. PICK e \in Word : e = <<>>
    BY TextsAreWords
  <1>2. text = e \o text /\ 1 = Len(e) + 1
    BY <1>1, WordFacts
  <1>3. \A w \in ValueTexts : e \o w \in ValueTexts
    <2>1. \A w \in ValueTexts : e \o w = w
      BY <1>1, WordFacts, TextsAreWords
    <2> QED
      BY <2>1
  <1>4. ValueTexts \in SUBSET Word
    BY TextsAreWords
  <1> QED
    BY <1>2, <1>3, <1>4 DEF Reading

---------------------------------------------------------------------------
(* Several symbols more.                                                   *)
LEMMA StackedPush ==
  ASSUME NEW f \in Seq(Stackable), NEW R \in SUBSET Word, Stacked(f, R),
         NEW a \in Stackable, Placed(Top(f), a)
  PROVE  /\ Stacked(f \o <<a>>, Joined(Lang(a), R))
         /\ \A b \in Stackable : Placed(a, b) =>
              /\ Stacked(f \o <<a, b>>, Joined(Lang(b), Joined(Lang(a), R)))
              /\ \A c \in Stackable : Placed(b, c) =>
                   /\ Stacked(f \o <<a, b, c>>, Joined(Lang(c), Joined(Lang(b), Joined(Lang(a), R))))
                   /\ \A d \in Stackable : Placed(c, d) =>
                        Stacked(f \o <<a, b, c, d>>, Joined(Lang(d), Joined(Lang(c), Joined(Lang(b), Joined(Lang(a), R)))))
  <1> DEFINE R1 == Joined(Lang(a), R)  f1 == Append(f, a)
  <1>1. f1 \in Seq(Stackable) /\ Stacked(f1, R1) /\ Top(f1) = a /\ f \o <<a>> = f1
    BY StackedMore, AppendFacts, Pushes
  <1> HIDE DEF f1, R1
  <1>2. ASSUME NEW b \in Stackable, Placed(a, b)
        PROVE  /\ Stacked(f \o <<a, b>>, Joined(Lang(b), R1))
               /\ \A c \in Stackable : Placed(b, c) =>
                    /\ Stacked(f \o <<a, b, c>>, Joined(Lang(c), Joined(Lang(b), R1)))
                    /\ \A d \in Stackable : Placed(c, d) =>
                         Stacked(f \o <<a, b, c, d>>, Joined(Lang(d), Joined(Lang(c), Joined(Lang(b), R1))))
    <2> DEFINE R2 == Joined(Lang(b), R1)  f2 == Append(f1, b)
    <2>1. f2 \in Seq(Stackable) /\ Stacked(f2, R2) /\ Top(f2) = b
      BY <1>1, <1>2, StackedMore, AppendFacts
    <2>2. f \o <<a, b>> = f2
      BY Pushes DEF f1
    <2> HIDE DEF f2, R2
    <2>3. ASSUME NEW c \in Stackable, Placed(b, c)
          PROVE  /\ Stacked(f \o <<a, b, c>>, Joined(Lang(c), R2))
                 /\ \A d \in Stackable : Placed(c, d) =>
                      Stacked(f \o <<a, b, c, d>>, Joined(Lang(d), Joined(Lang(c), R2)))
      <3> DEFINE R3 == Joined(Lang(c), R2)  f3 == Append(f2, c)
      <3>1. f3 \in Seq(Stackable) /\ Stacked(f3, R3) /\ Top(f3) = c
        BY <2>1, <2>3, StackedMore, AppendFacts
      <3>2. f \o <<a, b, c>> = f3
        BY Pushes DEF f1, f2
      <3> HIDE DEF f3, R3
      <3>3. ASSUME NEW d \in Stackable, Placed(c, d)
            PROVE  Stacked(f \o <<a, b, c, d>>, Joined(Lang(d), R3))
        <4>1. Stacked(Append(f3, d), Joined(Lang(d), R3))
          BY <3>1, <3>3, StackedMore
        <4>2. f \o <<a, b, c, d>> = Append(f3, d)
          BY Pushes DEF f1, f2, f3
        <4> QED
          BY <4>1, <4>2
      <3> QED
        BY <3>1, <3>2, <3>3 DEF R3
    <2> QED
      BY <2>1, <2>2, <2>3 DEF R2
  <1> QED
    BY <1>1, <1>2 DEF R1

(* Which of the symbols may lie on which.                                  *)
LEMMA PlacedFacts ==
  /\ \A b : \A x \in {"RULE_VALUE", "RULE_OBJECT", "RULE_ARRAY", "RULE_PAIR", "{", "}", "[", "]", ":", ",", "string", "scalar"}
                \cup EndMarks : Placed(b, x) /\ x \in Stackable
  /\ \A x \in {"RULE_MEMBERS", "RULE_NEXT_MEMBER", "ANY_MEMBERS"} :
       x \in Stackable /\ Placed("}", x) /\ \A b : Placed(b, x) => b = "}"
  /\ \A x \in {"RULE_ELEMENTS", "RULE_NEXT_ELEMENT", "ANY_ELEMENTS"} :
       x \in Stackable /\ Placed("]", x) /\ \A b : Placed(b, x) => b = "]"
  /\ \A x \in {"RULE_JSON", "eof"} :
       x \in Stackable /\ Placed("none", x) /\ \A b : Placed(b, x) => b = "none"
  BY DEF Placed, Stackable, Expectable, Symbols, Rules, EndMarks, Contents, Punctuation

(* What is replaced by just the same.                                      *)
LEMMA ReplacesSame ==
  ASSUME NEW x, NEW R \in SUBSET Word, NEW S, S = Joined(Lang(x), R), NEW t, NEW u
  PROVE  Replaces(x, R, S, t, u)
  BY DEF Replaces, Joined

(* A text is a value and then nothing.                                     *)
LEMMA ReadJson ==
  ASSUME NEW text, NEW p, NEW c \in Seq(Stackable), c # <<>>, Reading(text, p, c), Top(c) = "RULE_JSON"
  PROVE  Reading(text, p, Front(c) \o <<"eof", "RULE_VALUE">>)
  <1> DEFINE f == Front(c)  d == f \o <<"eof", "RULE_VALUE">>
  <1>1. ASSUME NEW R \in SUBSET Word, Stacked(f, R), Placed(Top(f), "RULE_JSON")
        PROVE  \E S : Stacked(d, S) /\ Replaces("RULE_JSON", R, S, At(text, p), At(text, p + 1))
    <2> DEFINE S == Joined(Lang("RULE_VALUE"), Joined(Lang("eof"), R))
    <2>1. f \in Seq(Stackable) /\ Placed(Top(f), "eof") /\ Placed("eof", "RULE_VALUE")
      BY <1>1, FrontFacts, PlacedFacts
    <2>2. Stacked(d, S)
      BY <1>1, <2>1, PlacedFacts, StackedPush
    <2>3. S = Joined(Lang("RULE_JSON"), R)
      BY LangFacts, JoinedFacts
    <2>4. Replaces("RULE_JSON", R, S, At(text, p), At(text, p + 1))
      BY <2>3, ReplacesSame
    <2> QED
      BY <2>2, <2>4
  <1> HIDE DEF d, f
  <1>2. Reading(text, p, d)
    BY <1>1, ReadingReplaced DEF f
  <1> QED
    BY <1>2 DEF d, f

(* A value is what its first token says.                                   *)
LEMMA ReadValue ==
  ASSUME NEW text, NEW p, NEW c \in Seq(Stackable), c # <<>>, Reading(text, p, c), Top(c) = "RULE_VALUE",
         NEW t, t = At(text, p)
  PROVE  /\ t.type = "{" => Reading(text, p, Front(c) \o <<"RULE_OBJECT">>)
         /\ t.type = "[" => Reading(text, p, Front(c) \o <<"RULE_ARRAY">>)
         /\ t.type \in {"string", "scalar"} => Reading(text, p, Front(c) \o <<t.type>>)
         /\ t.type \notin Starts => text \notin ValueTexts
  <1> DEFINE f == Front(c)
  <1>1. f \in Seq(Stackable)
    BY FrontFacts
  <1>2. ASSUME NEW x \in {"RULE_OBJECT", "RULE_ARRAY", "string", "scalar"},
               \A R \in SUBSET Word : Replaces("RULE_VALUE", R, Joined(Lang(x), R), t, At(text, p + 1))
        PROVE  Reading(text, p, f \o <<x>>)
    <2> DEFINE d == f \o <<x>>
    <2>1. ASSUME NEW R \in SUBSET Word, Stacked(f, R)
          PROVE  Stacked(d, Joined(Lang(x), R))
      BY <1>1, <2>1, PlacedFacts, StackedPush
    <2>2. ASSUME NEW R \in SUBSET Word, Stacked(f, R)
          PROVE  \E S : Stacked(d, S) /\ Replaces("RULE_VALUE", R, S, At(text, p), At(text, p + 1))
      BY <1>2, <2>1, <2>2
    <2> HIDE DEF d, f
    <2>3. Reading(text, p, d)
      BY <2>2, ReadingReplaced DEF f
    <2> QED
      BY <2>3 DEF d
  <1>3. CASE t.type = "{"
    BY <1>2, <1>3, ReplaceValue DEF Starts
  <1>4. CASE t.type = "["
    BY <1>2, <1>4, ReplaceValue DEF Starts
  <1>5. CASE t.type \in {"string", "scalar"}
    BY <1>2, <1>5, ReplaceValue DEF Starts
  <1>6. ASSUME t.type \notin Starts PROVE text \notin ValueTexts
    <2>1. \A R \in SUBSET Word : \A w \in Joined(Lang("RULE_VALUE"), R) : At(w, 1) # t
      BY <1>6, ReplaceValue
    <2> QED
      BY <2>1, ReadingFails
  <1> QED
    BY <1>3, <1>4, <1>5, <1>6 DEF Starts

(* Objects and arrays, with and without contents.                          *)
LEMMA ReadOpen ==
  ASSUME NEW text, NEW p, NEW c \in Seq(Stackable), c # <<>>, Reading(text, p, c),
         NEW rule, NEW open, NEW close, NEW content, NEW any, NEW end \in EndMarks,
         \/ <<rule, open, close, content, any>> = <<"RULE_OBJECT", "{", "}", "RULE_MEMBERS", "ANY_MEMBERS">>
         \/ <<rule, open, close, content, any>> = <<"RULE_ARRAY", "[", "]", "RULE_ELEMENTS", "ANY_ELEMENTS">>,
         Top(c) = rule
  PROVE  /\ At(text, p + 1).type = close => Reading(text, p, Front(c) \o <<end, close, open>>)
         /\ At(text, p + 1).type # close => Reading(text, p, Front(c) \o <<end, close, content, open>>)
         /\ Reading(text, p, Front(c) \o <<close, any, open>>)
  <1> DEFINE f == Front(c)  u == At(text, p + 1)
             A == Lang(content)
  <1>1. f \in Seq(Stackable)
    BY FrontFacts
  <1>2. /\ open \in Punctuation /\ close \in Punctuation
        /\ A \in SUBSET Word
        /\ Lang(rule) = {w \in Word : \E x \in A \cup {<<>>} : w = Enclose(open, x, close)}
        /\ \A x \in A : x # <<>> /\ At(x, 1).type # close
        /\ Lang(any) = A \cup Empty
        /\ end \in Stackable /\ close \in Stackable /\ content \in Stackable /\ any \in Stackable /\ open \in Stackable
        /\ \A b : Placed(b, end) /\ Placed(b, close) /\ Placed(b, open)
        /\ Placed(close, content) /\ Placed(close, any)
    <2>1. CASE <<rule, open, close, content, any>> = <<"RULE_OBJECT", "{", "}", "RULE_MEMBERS", "ANY_MEMBERS">>
      <3>1. rule = "RULE_OBJECT" /\ open = "{" /\ close = "}" /\ content = "RULE_MEMBERS" /\ any = "ANY_MEMBERS"
        BY <2>1
      <3>2. A = MembersTexts /\ Lang(rule) = ObjectTexts /\ Lang(any) = A \cup Empty
        BY <3>1, LangFacts
      <3>3. \A x \in A : x # <<>> /\ At(x, 1).type # close
        BY <3>1, <3>2, TextsBegin DEF Begins
      <3>4. Lang(rule) = {w \in Word : \E x \in A \cup {<<>>} : w = Enclose(open, x, close)}
        BY <3>1, <3>2, Zenon DEF ObjectTexts
      <3> HIDE DEF A
      <3>5. open \in Punctuation /\ close \in Punctuation
        BY <3>1 DEF Punctuation
      <3> QED
        BY <3>1, <3>2, <3>3, <3>4, <3>5, TextsAreWords, PlacedFacts
    <2>2. CASE <<rule, open, close, content, any>> = <<"RULE_ARRAY", "[", "]", "RULE_ELEMENTS", "ANY_ELEMENTS">>
      <3>1. rule = "RULE_ARRAY" /\ open = "[" /\ close = "]" /\ content = "RULE_ELEMENTS" /\ any = "ANY_ELEMENTS"
        BY <2>2
      <3>2. A = ItemsTexts /\ Lang(rule) = ArrayTexts /\ Lang(any) = A \cup Empty
        BY <3>1, LangFacts
      <3>3. \A x \in A : x # <<>> /\ At(x, 1).type # close
        BY <3>1, <3>2, TextsBegin DEF Begins, Starts
      <3>4. Lang(rule) = {w \in Word : \E x \in A \cup {<<>>} : w = Enclose(open, x, close)}
        BY <3>1, <3>2, Zenon DEF ArrayTexts
      <3> HIDE DEF A
      <3>5. open \in Punctuation /\ close \in Punctuation
        BY <3>1 DEF Punctuation
      <3> QED
        BY <3>1, <3>2, <3>3, <3>4, <3>5, TextsAreWords, PlacedFacts
    <2> QED
      BY <2>1, <2>2
  <1>3. Lang(open) = {<<Mark(open)>>} /\ Lang(close) = {<<Mark(close)>>} /\ Lang(end) = Empty
    BY <1>2, MarkOf, LangFacts
  <1> HIDE DEF A, u
  <1>4. ASSUME NEW R \in SUBSET Word, Stacked(f, R)
        PROVE  /\ Joined(Lang(end), R) = R
               /\ u.type = close => Replaces(rule, R, Joined(Lang(open), Joined(Lang(close), R)), At(text, p), u)
               /\ u.type # close => Replaces(rule, R, Joined(Lang(open), Joined(Lang(content), Joined(Lang(close), R))), At(text, p), u)
               /\ Replaces(rule, R, Joined(Lang(open), Joined(Lang(any), Joined(Lang(close), R))), At(text, p), u)
    <2> DEFINE X == Lang(rule)
               e    == Joined({<<Mark(close)>>}, R)
               bare == Joined({<<Mark(open)>>}, e)
               full == Joined({<<Mark(open)>>}, Joined(A, e))
               both == Joined({<<Mark(open)>>}, Joined(A \cup Empty, e))
    <2>1. /\ bare \in SUBSET Word /\ full \in SUBSET Word /\ both \in SUBSET Word
          /\ both = Joined(X, R)
          /\ bare \subseteq Joined(X, R) /\ full \subseteq Joined(X, R)
          /\ \A w \in Joined(X, R) : IF At(w, 2).type = close THEN w \in bare ELSE w \in full
      BY <1>2, Opened
    <2>2. /\ bare = Joined(Lang(open), Joined(Lang(close), R))
          /\ full = Joined(Lang(open), Joined(Lang(content), Joined(Lang(close), R)))
          /\ both = Joined(Lang(open), Joined(Lang(any), Joined(Lang(close), R)))
      BY <1>2, <1>3 DEF A
    <2>3. Joined(Lang(end), R) = R
      BY <1>3, JoinedFacts
    <2> HIDE DEF bare, full, both, X
    <2> QED
      BY <2>1, <2>2, <2>3 DEF Replaces, X
  <1>5. ASSUME NEW R \in SUBSET Word, Stacked(f, R)
        PROVE  /\ Stacked(f \o <<end, close, open>>, Joined(Lang(open), Joined(Lang(close), R)))
               /\ Stacked(f \o <<end, close, content, open>>,
                          Joined(Lang(open), Joined(Lang(content), Joined(Lang(close), R))))
               /\ Stacked(f \o <<close, any, open>>, Joined(Lang(open), Joined(Lang(any), Joined(Lang(close), R))))
    <2>1. Joined(Lang(end), R) = R
      BY <1>4, <1>5
    <2>2. /\ Stacked(f \o <<end, close, open>>, Joined(Lang(open), Joined(Lang(close), Joined(Lang(end), R))))
          /\ Stacked(f \o <<end, close, content, open>>,
                     Joined(Lang(open), Joined(Lang(content), Joined(Lang(close), Joined(Lang(end), R)))))
      BY <1>1, <1>2, <1>5, StackedPush
    <2>3. Stacked(f \o <<close, any, open>>, Joined(Lang(open), Joined(Lang(any), Joined(Lang(close), R))))
      BY <1>1, <1>2, <1>5, StackedPush
    <2> QED
      BY <2>1, <2>2, <2>3
  <1> HIDE DEF f
  <1>6. ASSUME u.type = close PROVE Reading(text, p, f \o <<end, close, open>>)
    <2> DEFINE d == f \o <<end, close, open>>
    <2>1. ASSUME NEW R \in SUBSET Word, Stacked(f, R)
          PROVE  \E S : Stacked(d, S) /\ Replaces(rule, R, S, At(text, p), u)
      BY <1>4, <1>5, <1>6, <2>1
    <2> HIDE DEF d
    <2>2. Reading(text, p, d)
      BY <2>1, ReadingReplaced DEF f, u
    <2> QED
      BY <2>2 DEF d
  <1>7. ASSUME u.type # close PROVE Reading(text, p, f \o <<end, close, content, open>>)
    <2> DEFINE d == f \o <<end, close, content, open>>
    <2>1. ASSUME NEW R \in SUBSET Word, Stacked(f, R)
          PROVE  \E S : Stacked(d, S) /\ Replaces(rule, R, S, At(text, p), u)
      BY <1>4, <1>5, <1>7, <2>1
    <2> HIDE DEF d
    <2>2. Reading(text, p, d)
      BY <2>1, ReadingReplaced DEF f, u
    <2> QED
      BY <2>2 DEF d
  <1>8. Reading(text, p, f \o <<close, any, open>>)
    <2> DEFINE d == f \o <<close, any, open>>
    <2>1. ASSUME NEW R \in SUBSET Word, Stacked(f, R)
          PROVE  \E S : Stacked(d, S) /\ Replaces(rule, R, S, At(text, p), u)
      BY <1>4, <1>5, <2>1
    <2> HIDE DEF d
    <2>2. Reading(text, p, d)
      BY <2>1, ReadingReplaced DEF f, u
    <2> QED
      BY <2>2 DEF d
  <1> QED
    BY <1>6, <1>7, <1>8 DEF f, u

---------------------------------------------------------------------------
(* Rules that stand for just what they are replaced by.                    *)
LEMMA ReadLists ==
  ASSUME NEW text, NEW p, NEW c \in Seq(Stackable), c # <<>>, Reading(text, p, c)
  PROVE  /\ Top(c) = "RULE_MEMBERS" => Reading(text, p, Front(c) \o <<"RULE_NEXT_MEMBER", "RULE_PAIR">>)
         /\ Top(c) = "RULE_ELEMENTS" => Reading(text, p, Front(c) \o <<"RULE_NEXT_ELEMENT", "RULE_VALUE">>)
         /\ Top(c) = "RULE_PAIR" => Reading(text, p, Front(c) \o <<"RULE_VALUE", ":", "string">>)
  <1> DEFINE f == Front(c)
  <1>1. f \in Seq(Stackable)
    BY FrontFacts
  <1>2. ASSUME NEW d,
               \A R \in SUBSET Word : Stacked(f, R) /\ Placed(Top(f), Top(c)) => Stacked(d, Joined(Lang(Top(c)), R))
        PROVE  Reading(text, p, d)
    <2>1. ASSUME NEW R \in SUBSET Word, Stacked(f, R), Placed(Top(f), Top(c))
          PROVE  \E S : Stacked(d, S) /\ Replaces(Top(c), R, S, At(text, p), At(text, p + 1))
      <3> DEFINE S == Joined(Lang(Top(c)), R)
      <3>1. Stacked(d, S)
        BY <1>2, <2>1
      <3>2. Replaces(Top(c), R, S, At(text, p), At(text, p + 1))
        BY ReplacesSame
      <3> QED
        BY <3>1, <3>2
    <2> HIDE DEF f
    <2> QED
      BY <2>1, ReadingReplaced DEF f
  <1>3. ASSUME Top(c) = "RULE_MEMBERS" PROVE Reading(text, p, f \o <<"RULE_NEXT_MEMBER", "RULE_PAIR">>)
    <2> DEFINE d == f \o <<"RULE_NEXT_MEMBER", "RULE_PAIR">>
    <2>1. ASSUME NEW R \in SUBSET Word, Stacked(f, R), Placed(Top(f), Top(c))
          PROVE  Stacked(d, Joined(Lang(Top(c)), R))
      <3>1. Placed(Top(f), "RULE_NEXT_MEMBER")
        BY <1>3, <2>1, PlacedFacts
      <3>2. Stacked(d, Joined(Lang("RULE_PAIR"), Joined(Lang("RULE_NEXT_MEMBER"), R)))
        BY <1>1, <2>1, <3>1, PlacedFacts, StackedPush
      <3>3. Joined(Lang("RULE_PAIR"), Joined(Lang("RULE_NEXT_MEMBER"), R)) = Joined(Lang("RULE_MEMBERS"), R)
        BY LangFacts, ReplaceMembers
      <3> QED
        BY <1>3, <3>2, <3>3
    <2> HIDE DEF d
    <2> QED
      BY <1>2, <2>1 DEF d
  <1>4. ASSUME Top(c) = "RULE_ELEMENTS" PROVE Reading(text, p, f \o <<"RULE_NEXT_ELEMENT", "RULE_VALUE">>)
    <2> DEFINE d == f \o <<"RULE_NEXT_ELEMENT", "RULE_VALUE">>
    <2>1. ASSUME NEW R \in SUBSET Word, Stacked(f, R), Placed(Top(f), Top(c))
          PROVE  Stacked(d, Joined(Lang(Top(c)), R))
      <3>1. Placed(Top(f), "RULE_NEXT_ELEMENT")
        BY <1>4, <2>1, PlacedFacts
      <3>2. Stacked(d, Joined(Lang("RULE_VALUE"), Joined(Lang("RULE_NEXT_ELEMENT"), R)))
        BY <1>1, <2>1, <3>1, PlacedFacts, StackedPush
      <3>3. Joined(Lang("RULE_VALUE"), Joined(Lang("RULE_NEXT_ELEMENT"), R)) = Joined(Lang("RULE_ELEMENTS"), R)
        BY LangFacts, ReplaceMembers
      <3> QED
        BY <1>4, <3>2, <3>3
    <2> HIDE DEF d
    <2> QED
      BY <1>2, <2>1 DEF d
  <1>5. ASSUME Top(c) = "RULE_PAIR" PROVE Reading(text, p, f \o <<"RULE_VALUE", ":", "string">>)
    <2> DEFINE d == f \o <<"RULE_VALUE", ":", "string">>
    <2>1. ASSUME NEW R \in SUBSET Word, Stacked(f, R)
          PROVE  Stacked(d, Joined(Lang(Top(c)), R))
      <3>1. /\ Placed(Top(f), "RULE_VALUE") /\ Placed("RULE_VALUE", ":") /\ Placed(":", "string")
            /\ "RULE_VALUE" \in Stackable /\ ":" \in Stackable /\ "string" \in Stackable
        BY PlacedFacts
      <3>2. Stacked(d, Joined(Lang("string"), Joined(Lang(":"), Joined(Lang("RULE_VALUE"), R))))
        BY <1>1, <2>1, <3>1, StackedPush
      <3>3. Joined(Lang("string"), Joined(Lang(":"), Joined(Lang("RULE_VALUE"), R))) = Joined(Lang("RULE_PAIR"), R)
        BY LangFacts, ReplacePair
      <3> QED
        BY <1>5, <3>2, <3>3
    <2> HIDE DEF d
    <2> QED
      BY <1>2, <2>1 DEF d
  <1> QED
    BY <1>3, <1>4, <1>5

(* After an element comes a comma and another one, or what closes them.    *)
LEMMA ReadNext ==
  ASSUME NEW text, NEW p, NEW c \in Seq(Stackable), c # <<>>, Reading(text, p, c),
         NEW rule, NEW content,
         \/ rule = "RULE_NEXT_MEMBER" /\ content = "RULE_MEMBERS"
         \/ rule = "RULE_NEXT_ELEMENT" /\ content = "RULE_ELEMENTS",
         Top(c) = rule
  PROVE  /\ At(text, p).type = "," => Reading(text, p, Front(c) \o <<content, ",">>)
         /\ At(text, p).type # "," => Reading(text, p, Front(c) \o <<>>)
  <1> DEFINE f == Front(c)  M == Lang(content)  t == At(text, p)
  <1>1. f \in Seq(Stackable)
    BY FrontFacts
  <1>2. /\ Lang(rule) = Next(M) /\ M \in SUBSET Word
        /\ content \in Stackable /\ "," \in Stackable /\ Placed(content, ",")
        /\ \A b : Placed(b, rule) => b \in {"}", "]"} /\ Placed(b, content)
    <2>1. M \in SUBSET Word /\ Lang(rule) = Next(M)
      BY LangFacts
    <2>2. /\ content \in Stackable /\ "," \in Stackable /\ Placed(content, ",")
          /\ \A b : Placed(b, rule) => b \in {"}", "]"} /\ Placed(b, content)
      BY PlacedFacts
    <2> QED
      BY <2>1, <2>2
  <1> HIDE DEF M, t
  <1>3. ASSUME NEW R \in SUBSET Word, Stacked(f, R), Placed(Top(f), rule)
        PROVE  /\ t.type = "," => Replaces(rule, R, Joined(Lang(","), Joined(M, R)), t, At(text, p + 1))
               /\ t.type # "," => Replaces(rule, R, R, t, At(text, p + 1))
               /\ Stacked(f \o <<content, ",">>, Joined(Lang(","), Joined(M, R)))
               /\ f \o <<>> = f
    <2>1. Top(f) \in {"}", "]"} /\ Placed(Top(f), content)
      BY <1>2, <1>3
    <2>2. \A r \in R : At(r, 1).type # ","
      BY <1>1, <1>3, <2>1, StackedClose
    <2> DEFINE more == Joined(Lang(","), Joined(M, R))
    <2>3. /\ more \in SUBSET Word /\ more \subseteq Joined(Next(M), R) /\ R \subseteq Joined(Next(M), R)
          /\ \A w \in Joined(Next(M), R) : At(w, 1) = t => IF t.type = "," THEN w \in more ELSE w \in R
      BY <1>2, <2>2, ReplaceNext
    <2>4. Stacked(f \o <<content, ",">>, more)
      BY <1>1, <1>2, <1>3, <2>1, StackedPush DEF M
    <2>5. f \o <<>> = f
      BY <1>1, ConcatEmptySeq
    <2> HIDE DEF more
    <2>6. /\ t.type = "," => Replaces(rule, R, more, t, At(text, p + 1))
          /\ t.type # "," => Replaces(rule, R, R, t, At(text, p + 1))
      BY <1>2, <2>3 DEF Replaces
    <2> QED
      BY <2>4, <2>5, <2>6 DEF more
  <1> HIDE DEF f
  <1>4. ASSUME t.type = "," PROVE Reading(text, p, f \o <<content, ",">>)
    <2> DEFINE d == f \o <<content, ",">>
    <2>1. ASSUME NEW R \in SUBSET Word, Stacked(f, R), Placed(Top(f), rule)
          PROVE  \E S : Stacked(d, S) /\ Replaces(rule, R, S, t, At(text, p + 1))
      BY <1>3, <1>4, <2>1
    <2> HIDE DEF d
    <2>2. Reading(text, p, d)
      BY <2>1, ReadingReplaced DEF f, t
    <2> QED
      BY <2>2 DEF d
  <1>5. ASSUME t.type # "," PROVE Reading(text, p, f \o <<>>)
    <2> DEFINE d == f \o <<>>
    <2>1. ASSUME NEW R \in SUBSET Word, Stacked(f, R), Placed(Top(f), rule)
          PROVE  \E S : Stacked(d, S) /\ Replaces(rule, R, S, t, At(text, p + 1))
      <3>1. Stacked(d, R) /\ Replaces(rule, R, R, t, At(text, p + 1))
        BY <1>3, <1>5, <2>1
      <3> QED
        BY <3>1
    <2> HIDE DEF d
    <2>2. Reading(text, p, d)
      BY <2>1, ReadingReplaced DEF f, t
    <2> QED
      BY <2>2 DEF d
  <1> QED
    BY <1>4, <1>5 DEF f, t

(* The contents of brackets: none, or some.                                *)
LEMMA ReadAny ==
  ASSUME NEW text, NEW p, NEW c \in Seq(Stackable), c # <<>>, Reading(text, p, c),
         NEW close, NEW content, NEW any,
         \/ <<close, content, any>> = <<"}", "RULE_MEMBERS", "ANY_MEMBERS">>
         \/ <<close, content, any>> = <<"]", "RULE_ELEMENTS", "ANY_ELEMENTS">>
  PROVE  /\ Top(c) = any /\ At(text, p).type = close => Reading(text, p, Front(c) \o <<>>)
         /\ Top(c) = any /\ At(text, p).type # close => Reading(text, p, Front(c) \o <<content>>)
         /\ Top(c) = content /\ At(text, p).type = close => text \notin ValueTexts
  <1> DEFINE f == Front(c)  M == Lang(content)  t == At(text, p)
  <1>1. f \in Seq(Stackable)
    BY FrontFacts
  <1>2. /\ Lang(any) = M \cup Empty /\ M \in SUBSET Word
        /\ \A m \in M : m # <<>> /\ At(m, 1).type # close
        /\ content \in Stackable
        /\ \A b : Placed(b, any) <=> b = close
        /\ \A b : Placed(b, content) <=> b = close
        /\ close \in {"}", "]"}
    <2>1. CASE <<close, content, any>> = <<"}", "RULE_MEMBERS", "ANY_MEMBERS">>
      <3>1. close = "}" /\ content = "RULE_MEMBERS" /\ any = "ANY_MEMBERS"
        BY <2>1
      <3>2. M = MembersTexts /\ Lang(any) = M \cup Empty
        BY <3>1, LangFacts
      <3>3. \A m \in M : m # <<>> /\ At(m, 1).type # close
        BY <3>1, <3>2, TextsBegin DEF Begins
      <3> HIDE DEF M
      <3> QED
        BY <3>1, <3>2, <3>3, TextsAreWords, PlacedFacts
    <2>2. CASE <<close, content, any>> = <<"]", "RULE_ELEMENTS", "ANY_ELEMENTS">>
      <3>1. close = "]" /\ content = "RULE_ELEMENTS" /\ any = "ANY_ELEMENTS"
        BY <2>2
      <3>2. M = ItemsTexts /\ Lang(any) = M \cup Empty
        BY <3>1, LangFacts
      <3>3. \A m \in M : m # <<>> /\ At(m, 1).type # close
        BY <3>1, <3>2, TextsBegin DEF Begins, Starts
      <3> HIDE DEF M
      <3> QED
        BY <3>1, <3>2, <3>3, TextsAreWords, PlacedFacts
    <2> QED
      BY <2>1, <2>2
  <1> HIDE DEF M, t
  <1>3. ASSUME NEW R \in SUBSET Word, Stacked(f, R), Top(f) = close
        PROVE  /\ t.type = close => Replaces(any, R, R, t, At(text, p + 1))
               /\ t.type # close => Replaces(any, R, Joined(M, R), t, At(text, p + 1))
               /\ \A w \in Joined(M, R) : At(w, 1).type # close
               /\ Stacked(f \o <<content>>, Joined(M, R))
               /\ f \o <<>> = f
    <2>1. \A r \in R : At(r, 1).type = close
      BY <1>1, <1>2, <1>3, StackedClose
    <2>2. /\ R \subseteq Joined(M \cup Empty, R) /\ Joined(M, R) \subseteq Joined(M \cup Empty, R)
          /\ Joined(M, R) \in SUBSET Word
          /\ \A w \in Joined(M, R) : At(w, 1).type # close
          /\ \A w \in Joined(M \cup Empty, R) : At(w, 1) = t => IF t.type = close THEN w \in R ELSE w \in Joined(M, R)
      BY <1>2, <2>1, ReplaceAny
    <2>3. Stacked(f \o <<content>>, Joined(M, R))
      BY <1>1, <1>2, <1>3, StackedPush DEF M
    <2>4. f \o <<>> = f
      BY <1>1, ConcatEmptySeq
    <2> QED
      BY <1>2, <2>2, <2>3, <2>4 DEF Replaces
  <1> HIDE DEF f
  <1>4. ASSUME Top(c) = any, t.type = close PROVE Reading(text, p, f \o <<>>)
    <2> DEFINE d == f \o <<>>
    <2>1. ASSUME NEW R \in SUBSET Word, Stacked(f, R), Placed(Top(f), any)
          PROVE  \E S : Stacked(d, S) /\ Replaces(any, R, S, t, At(text, p + 1))
      <3>1. Stacked(d, R) /\ Replaces(any, R, R, t, At(text, p + 1))
        BY <1>2, <1>3, <1>4, <2>1
      <3> QED
        BY <3>1
    <2> HIDE DEF d
    <2>2. Reading(text, p, d)
      BY <1>4, <2>1, ReadingReplaced DEF f, t
    <2> QED
      BY <2>2 DEF d
  <1>5. ASSUME Top(c) = any, t.type # close PROVE Reading(text, p, f \o <<content>>)
    <2> DEFINE d == f \o <<content>>
    <2>1. ASSUME NEW R \in SUBSET Word, Stacked(f, R), Placed(Top(f), any)
          PROVE  \E S : Stacked(d, S) /\ Replaces(any, R, S, t, At(text, p + 1))
      BY <1>2, <1>3, <1>5, <2>1
    <2> HIDE DEF d
    <2>2. Reading(text, p, d)
      BY <1>5, <2>1, ReadingReplaced DEF f, t
    <2> QED
      BY <2>2 DEF d
  <1>6. ASSUME Top(c) = content, t.type = close PROVE text \notin ValueTexts
    <2>1. ASSUME NEW R \in SUBSET Word, Stacked(f, R), Placed(Top(f), content)
          PROVE  \A w \in Joined(Lang(content), R) : At(w, 1) # t
      BY <1>2, <1>3, <1>6, <2>1 DEF M
    <2> QED
      BY <1>6, <2>1, ReadingFails DEF f, t
  <1> QED
    BY <1>4, <1>5, <1>6 DEF f, t

(* Marks stand for nothing.                                                *)
LEMMA ReadMark ==
  ASSUME NEW text, NEW p, NEW c \in Seq(Stackable), c # <<>>, Reading(text, p, c),
         Top(c) \in EndMarks \cup {"eof"}
  PROVE  Reading(text, p, Front(c) \o <<>>)
  <1> DEFINE f == Front(c)  d == f \o <<>>
  <1>1. d = f
    BY FrontFacts, ConcatEmptySeq
  <1>2. ASSUME NEW R \in SUBSET Word, Stacked(f, R)
        PROVE  \E S : Stacked(d, S) /\ Replaces(Top(c), R, S, At(text, p), At(text, p + 1))
    <2>1. R = Joined(Lang(Top(c)), R)
      BY LangFacts, JoinedFacts
    <2>2. Replaces(Top(c), R, R, At(text, p), At(text, p + 1))
      BY <2>1, ReplacesSame
    <2> QED
      BY <1>1, <1>2, <2>2
  <1> HIDE DEF d, f
  <1>3. Reading(text, p, d)
    BY <1>2, ReadingReplaced DEF f
  <1> QED
    BY <1>3 DEF d, f

(* The next token is not of the kind expected.                             *)
LEMMA ReadOther ==
  ASSUME NEW text, NEW p, NEW c \in Seq(Stackable), c # <<>>, Reading(text, p, c),
         Top(c) \in Symbols, At(text, p).type # Top(c)
  PROVE  text \notin ValueTexts
  <1> DEFINE f == Front(c)
  <1>1. CASE Top(c) \in Terminal
    <2>1. \A a \in Lang(Top(c)) : Begins(a, {Top(c)})
      <3>1. \A a \in Lang(Top(c)) : \E t \in Token : t.type = Top(c) /\ a = <<t>>
        BY <1>1, LangFacts
      <3> QED
        BY <3>1, BeginsWith, TextsAreWords
    <2>2. Lang(Top(c)) \in SUBSET Word
      BY LangFacts
    <2>3. ASSUME NEW R \in SUBSET Word PROVE \A w \in Joined(Lang(Top(c)), R) : At(w, 1) # At(text, p)
      <3>1. \A w \in Joined(Lang(Top(c)), R) : Begins(w, {Top(c)})
        BY <2>1, <2>2, JoinBegins
      <3> QED
        BY <3>1 DEF Begins
    <2> QED
      BY <2>3, ReadingFails
  <1>2. CASE Top(c) = "eof"
    <2>1. ASSUME NEW R \in SUBSET Word, Stacked(f, R), Placed(Top(f), Top(c))
          PROVE  \A w \in Joined(Lang(Top(c)), R) : At(w, 1) # At(text, p)
      <3>1. f \in Seq(Stackable) /\ Top(f) = "none"
        BY <1>2, <2>1, FrontFacts, PlacedFacts
      <3>2. f = <<>>
        <4>1. ASSUME f # <<>> PROVE FALSE
          <5>1. Top(f) \in Stackable
            BY <3>1, <4>1, FrontFacts
          <5>2. "none" \notin Stackable
            BY DEF Stackable, Expectable, Symbols, Rules, EndMarks, Contents, Punctuation
          <5> QED
            BY <3>1, <5>1, <5>2
        <4> QED
          BY <4>1
      <3>3. R = Empty
        BY <2>1, <3>2, StackedNone
      <3>4. Joined(Lang(Top(c)), R) = Empty
        BY <1>2, <3>3, LangFacts, JoinedFacts
      <3>5. At(<<>>, 1).type = "eof"
        BY AtFacts, TokenFacts
      <3> QED
        BY <1>2, <3>4, <3>5 DEF Empty
    <2> HIDE DEF f
    <2> QED
      BY <2>1, ReadingFails DEF f
  <1> QED
    BY <1>1, <1>2 DEF Symbols, Terminal

---------------------------------------------------------------------------
(* The parser.                                                             *)

\* What the parser expects makes, with what it has read, the values there
\* are that go on like the text.
VerdictInv ==
  /\ doc \in Document
  /\ Reading(doc, pos, controls)
  /\ status = "MALFORMED_JSON" => doc \notin ValueTexts

(* A document is a word, though perhaps not one of the grammar's tokens.   *)
LEMMA DocumentIsWord ==
  ASSUME doc \in Document
  PROVE  doc \in AnyWord
  BY TokensAssumption DEF AnyWord, AnyToken

(* Before the first step ...                                               *)
LEMMA VerdictAtFirst ==
  ASSUME ParserInit
  PROVE  VerdictInv
  <1>1. doc \in Document /\ pos = 1 /\ controls = <<"RULE_JSON">> /\ status = "parsing"
    BY DEF ParserInit
  <1>2. Stacked(<<"RULE_JSON">>, ValueTexts)
    <2>1. Append(<<>>, "RULE_JSON") = <<"RULE_JSON">> /\ <<>> \in Seq(Stackable) /\ Top(<<>>) = "none"
      BY DEF Top
    <2>2. Stacked(Append(<<>>, "RULE_JSON"), Joined(Lang("RULE_JSON"), Empty))
      BY <2>1, StackedNone, StackedMore, PlacedFacts
    <2>3. Joined(Lang("RULE_JSON"), Empty) = ValueTexts
      BY LangFacts, JoinedFacts
    <2> QED
      BY <2>1, <2>2, <2>3
  <1>3. Reading(doc, 1, <<"RULE_JSON">>)
    BY <1>1, <1>2, DocumentIsWord, ReadingStarts
  <1> QED
    BY <1>1, <1>3 DEF VerdictInv

(* The parser's tokens are those of the text.                              *)
LEMMA CurrentAt ==
  /\ Current = At(doc, pos) /\ Ahead = At(doc, pos + 1)
  BY DEF Current, Ahead, TokenAt, At

(* ... after a step of the table ...                                       *)
LEMMA VerdictKeptByStep ==
  ASSUME ParserInv, VerdictInv, ParserStep
  PROVE  VerdictInv'
  <1> DEFINE c == controls  f == Front(controls)
  <1>1. /\ status = "parsing" /\ c # <<>> /\ Expected = Top(c)
        /\ Reading(doc, pos, c) /\ doc \in Document
        /\ pos \in 1 .. Len(doc) + 1
    BY TopFacts DEF ParserStep, VerdictInv, ParserInv, TextOK
  <1>2. c \in Seq(Stackable)
    <2>1. c \in Seq(Expectable)
      BY DEF ParserInv, StackOK
    <2> QED
      BY <2>1, SeqMonotonic DEF Stackable
  <1>3. Current = At(doc, pos) /\ Ahead = At(doc, pos + 1)
    BY CurrentAt
  <1> HIDE DEF c
  <1>4. ASSUME doc' = doc, pos' = pos, status' \in {"parsing", "MAXIMUM_NESTED_DEPTH_REACHED"},
               NEW d, controls' = d, Reading(doc, pos, d)
        PROVE  VerdictInv'
    BY <1>1, <1>4 DEF VerdictInv
  <1>5. ASSUME Raise("MALFORMED_JSON"), doc \notin ValueTexts
        PROVE  VerdictInv'
    BY <1>1, <1>5 DEF VerdictInv, Raise, c
  <1>6. ASSUME NEW s, Expand(s), Reading(doc, pos, f \o s)
        PROVE  VerdictInv'
    <2>1. doc' = doc /\ pos' = pos /\ status' = "parsing" /\ controls' = f \o s
      BY <1>1, <1>6 DEF Expand, Push
    <2> HIDE DEF f
    <2> QED
      BY <1>4, <1>6, <2>1
  <1>7. CASE Match
    <2>1. Top(c) \in Symbols
      BY <1>1, <1>7 DEF Match
    <2>2. CASE Expected # Current.type
      <3>1. Raise("MALFORMED_JSON")
        BY <1>7, <2>2 DEF Match
      <3>2. doc \notin ValueTexts
        BY <1>1, <1>2, <1>3, <2>1, <2>2, ReadOther
      <3> QED
        BY <1>5, <3>1, <3>2
    <2>3. CASE Expected = Current.type
      <3>1. /\ pos' = IF pos <= Len(doc) THEN pos + 1 ELSE pos
            /\ controls' = f \o <<>> /\ doc' = doc /\ status' = status
        <4>1. ~ Raise("MALFORMED_JSON") \/ Expected = Current.type
          BY <2>3
        <4>2. /\ pos' = IF pos <= Len(doc) THEN pos + 1 ELSE pos
              /\ Push(<<>>) /\ UNCHANGED <<doc, depth, status>>
          BY <1>7, <2>3 DEF Match
        <4> QED
          BY <4>2 DEF Push
      <3>2. f \o <<>> = f
        BY <1>1, <1>2, FrontFacts, ConcatEmptySeq DEF c
      <3>3. CASE Top(c) = "eof"
        <4>1. ~ (pos <= Len(doc))
          <5>1. pos = Len(doc) + 1 /\ doc \in Seq(AnyToken)
            BY <1>1, <2>3, <3>3, CurrentFacts DEF ParserInv, TextOK
          <5>2. Len(doc) \in Nat
            BY <5>1
          <5> QED
            BY <5>1, <5>2
        <4>2. pos' = pos
          BY <3>1, <4>1
        <4>3. Reading(doc, pos, f \o <<>>)
          BY <1>1, <1>2, <3>3, ReadMark DEF c
        <4> HIDE DEF f
        <4> QED
          BY <1>1, <1>4, <3>1, <4>2, <4>3
      <3>4. CASE Top(c) # "eof"
        <4>1. Top(c) \in Terminal
          BY <2>1, <3>4 DEF Symbols, Terminal
        <4>2. pos <= Len(doc)
          <5>1. Current.type \in Symbols \ {"eof"}
            BY <1>1, <2>1, <2>3, <3>4
          <5>2. pos \in 1 .. Len(doc)
            BY <5>1, CurrentFacts DEF ParserInv
          <5> QED
            BY <5>2
        <4>3. Reading(doc, pos + 1, f)
          BY <1>1, <1>2, <1>3, <2>3, <4>1, ReadingOn DEF c
        <4>4. pos' = pos + 1 /\ controls' = f
          BY <3>1, <3>2, <4>2
        <4> HIDE DEF f
        <4> QED
          BY <1>1, <3>1, <4>3, <4>4 DEF VerdictInv
      <3> QED
        BY <3>3, <3>4
    <2> QED
      BY <2>2, <2>3
  <1>8. CASE ExpandJson
    <2>1. Top(c) = "RULE_JSON" /\ Expand(<<"eof", "RULE_VALUE">>)
      BY <1>1, <1>8 DEF ExpandJson
    <2> QED
      BY <1>1, <1>2, <1>6, <2>1, ReadJson DEF c
  <1>9. CASE ExpandValue
    <2> DEFINE t == Current
    <2>1. Top(c) = "RULE_VALUE" /\ t = At(doc, pos)
      BY <1>1, <1>3, <1>9 DEF ExpandValue
    <2> HIDE DEF t
    <2>2. /\ t.type = "{" => Reading(doc, pos, f \o <<"RULE_OBJECT">>)
          /\ t.type = "[" => Reading(doc, pos, f \o <<"RULE_ARRAY">>)
          /\ t.type \in {"string", "scalar"} => Reading(doc, pos, f \o <<t.type>>)
          /\ t.type \notin Starts => doc \notin ValueTexts
      BY <1>1, <1>2, <2>1, ReadValue DEF c
    <2>3. \/ t.type = "{" /\ Expand(<<"RULE_OBJECT">>)
          \/ t.type = "[" /\ Expand(<<"RULE_ARRAY">>)
          \/ t.type \in {"string", "scalar"} /\ Expand(<<t.type>>)
          \/ t.type \notin Starts /\ Raise("MALFORMED_JSON")
      BY <1>9 DEF ExpandValue, IsLeaf, Starts, t
    <2> HIDE DEF f
    <2> QED
      BY <1>5, <1>6, <2>2, <2>3
  <1>10. ASSUME NEW rule, NEW type, NEW open, NEW close, NEW end \in EndMarks, NEW content, NEW any,
                \/ <<rule, open, close, content, any>> = <<"RULE_OBJECT", "{", "}", "RULE_MEMBERS", "ANY_MEMBERS">>
                \/ <<rule, open, close, content, any>> = <<"RULE_ARRAY", "[", "]", "RULE_ELEMENTS", "ANY_ELEMENTS">>,
                Open(rule, type, open, close, end, content)
         PROVE  VerdictInv'
    <2>1. Top(c) = rule
      BY <1>1, <1>10 DEF Open
    <2>2. CASE depth + 1 > MaxDepth
      <3>1. doc' = doc /\ pos' = pos /\ controls' = c /\ status' = "MAXIMUM_NESTED_DEPTH_REACHED"
        <4>1. ~ (depth + 1 <= MaxDepth)
          <5>1. depth \in Int /\ MaxDepth \in Int
            BY ParserAssumption DEF ParserInv, StatusOK
          <5> QED
            BY <2>2, <5>1
        <4> QED
          BY <1>10, <4>1 DEF Open, c
      <3> QED
        BY <1>1, <1>4, <3>1
    <2>3. CASE ~ (depth + 1 > MaxDepth)
      <3>1. /\ doc' = doc /\ pos' = pos /\ status' = "parsing"
            /\ Push(IF Ahead.type = close THEN <<end, close, open>> ELSE <<end, close, content, open>>)
        BY <1>1, <1>10, <2>3 DEF Open
      <3>2. /\ Ahead.type = close => Reading(doc, pos, f \o <<end, close, open>>)
            /\ Ahead.type # close => Reading(doc, pos, f \o <<end, close, content, open>>)
        BY <1>1, <1>2, <1>3, <1>10, <2>1, ReadOpen DEF c
      <3>3. CASE Ahead.type = close
        <4>1. controls' = f \o <<end, close, open>>
          BY <3>1, <3>3 DEF Push
        <4> HIDE DEF f
        <4> QED
          BY <1>4, <3>1, <3>2, <3>3, <4>1
      <3>4. CASE Ahead.type # close
        <4>1. controls' = f \o <<end, close, content, open>>
          BY <3>1, <3>4 DEF Push
        <4> HIDE DEF f
        <4> QED
          BY <1>4, <3>1, <3>2, <3>4, <4>1
      <3> QED
        BY <3>3, <3>4
    <2> QED
      BY <2>2, <2>3
  <1>11. CASE ExpandObject
    <2>1. Open("RULE_OBJECT", "OBJECT", "{", "}", "MARK_OBJECT_END", "RULE_MEMBERS") /\ "MARK_OBJECT_END" \in EndMarks
      BY <1>11 DEF ExpandObject, EndMarks
    <2> QED
      BY <1>10, <2>1
  <1>12. CASE ExpandArray
    <2>1. Open("RULE_ARRAY", "ARRAY", "[", "]", "MARK_ARRAY_END", "RULE_ELEMENTS") /\ "MARK_ARRAY_END" \in EndMarks
      BY <1>12 DEF ExpandArray, EndMarks
    <2> QED
      BY <1>10, <2>1
  <1>13. CASE ExpandMembers
    <2>1. Top(c) = "RULE_MEMBERS" /\ Expand(<<"RULE_NEXT_MEMBER", "RULE_PAIR">>)
      BY <1>1, <1>13 DEF ExpandMembers
    <2> QED
      BY <1>1, <1>2, <1>6, <2>1, ReadLists DEF c
  <1>14. CASE ExpandPair
    <2>1. Top(c) = "RULE_PAIR" /\ Expand(<<"RULE_VALUE", ":", "string">>)
      BY <1>1, <1>14 DEF ExpandPair
    <2> QED
      BY <1>1, <1>2, <1>6, <2>1, ReadLists DEF c
  <1>15. CASE ExpandElements
    <2>1. Top(c) = "RULE_ELEMENTS" /\ Expand(<<"RULE_NEXT_ELEMENT", "RULE_VALUE">>)
      BY <1>1, <1>15 DEF ExpandElements
    <2> QED
      BY <1>1, <1>2, <1>6, <2>1, ReadLists DEF c
  <1>16. ASSUME NEW rule, NEW content,
                \/ rule = "RULE_NEXT_MEMBER" /\ content = "RULE_MEMBERS"
                \/ rule = "RULE_NEXT_ELEMENT" /\ content = "RULE_ELEMENTS",
                ExpandNext(rule, content)
         PROVE  VerdictInv'
    <2>1. /\ Top(c) = rule
          /\ Expand(IF Current.type = "," THEN <<content, ",">> ELSE <<>>)
      BY <1>1, <1>16 DEF ExpandNext
    <2>2. /\ Current.type = "," => Reading(doc, pos, f \o <<content, ",">>)
          /\ Current.type # "," => Reading(doc, pos, f \o <<>>)
      BY <1>1, <1>2, <1>3, <1>16, <2>1, ReadNext DEF c
    <2>3. CASE Current.type = ","
      BY <1>6, <2>1, <2>2, <2>3
    <2>4. CASE Current.type # ","
      BY <1>6, <2>1, <2>2, <2>4
    <2> QED
      BY <2>3, <2>4
  <1>17. CASE ExpandNextMember
    BY <1>16, <1>17 DEF ExpandNextMember
  <1>18. CASE ExpandNextElement
    BY <1>16, <1>18 DEF ExpandNextElement
  <1>19. CASE Close
    <2>1. /\ Top(c) \in EndMarks \cup {"eof"}
          /\ doc' = doc /\ pos' = pos /\ status' = "parsing" /\ controls' = f \o <<>>
      BY <1>1, <1>19 DEF Close, Push, EndMarks
    <2>2. Reading(doc, pos, f \o <<>>)
      BY <1>1, <1>2, <2>1, ReadMark DEF c
    <2> HIDE DEF f
    <2> QED
      BY <1>4, <2>1, <2>2
  <1> QED
    BY <1>7, <1>8, <1>9, <1>11, <1>12, <1>13, <1>14, <1>15, <1>17, <1>18, <1>19 DEF ParserStep

(* ... and after any step the invariant holds ...                          *)
LEMMA VerdictKept ==
  ASSUME ParserInv, VerdictInv, [ReadersNext]_readersVars
  PROVE  VerdictInv'
  <1>1. CASE ParserStep
    BY <1>1, VerdictKeptByStep
  <1>2. CASE Finish
    <2>1. /\ status = "parsing" /\ controls = <<>>
          /\ status' = IF Ahead.type = "eof" THEN "accepted" ELSE "MALFORMED_JSON"
          /\ UNCHANGED <<doc, pos, controls>>
      BY <1>2 DEF Finish
    <2>2. pos = Len(doc) + 1 /\ doc \in Seq(AnyToken)
      BY <2>1 DEF ParserInv, TextOK
    <2>3. Len(doc) \in Nat
      BY <2>2
    <2>4. ~ (pos + 1 <= Len(doc))
      BY <2>2, <2>3
    <2>5. Ahead.type = "eof"
      BY <2>4, TokenFacts DEF Ahead, TokenAt
    <2>6. status' # "MALFORMED_JSON"
      BY <2>1, <2>5
    <2> QED
      BY <2>1, <2>6 DEF VerdictInv
  <1>3. CASE UNCHANGED <<doc, pos, controls, status>>
    BY <1>3 DEF VerdictInv
  <1>4. CASE status # "parsing" /\ SaxNext /\ UNCHANGED <<pos, controls, depth, status, astVars>>
    BY <1>3, <1>4, SaxKeepsText
  <1>5. CASE UNCHANGED readersVars
    BY <1>3, <1>5 DEF readersVars, parserVars
  <1> QED
    BY <1>1, <1>2, <1>4, <1>5 DEF ReadersNext, ParserNext

(* ... so that it always does.                                             *)
LEMMA VerdictAlways ==
  ReadersSpec => []VerdictInv
  <1>1. ReadersInit => VerdictInv
    BY VerdictAtFirst DEF ReadersInit
  <1>2. ParserInv /\ VerdictInv /\ [ReadersNext]_readersVars => VerdictInv'
    BY VerdictKept
  <1> QED
    BY <1>1, <1>2, InvAlways, PTL DEF ReadersSpec

\* The parser accepts no text but values, and calls none of them malformed.
ParsesValues ==
  /\ Accepted => doc \in ValueTexts
  /\ status = "MALFORMED_JSON" => doc \notin ValueTexts

(* Whatever the text, its size and the limits: what the parser accepts is  *)
(* a value of the grammar, and what it calls malformed is none.            *)
THEOREM ParserReadsTheGrammar ==
  ReadersSpec => []ParsesValues
  <1>1. ParserInv /\ VerdictInv => ParsesValues
    <2> SUFFICES ASSUME ParserInv, VerdictInv PROVE ParsesValues
      OBVIOUS
    <2>1. ASSUME Accepted PROVE doc \in ValueTexts
      <3>1. controls = <<>>
        BY <2>1 DEF Accepted, ParserInv, StatusOK
      <3>2. pos = Len(doc) + 1 /\ Reading(doc, pos, <<>>)
        BY <3>1 DEF ParserInv, TextOK, VerdictInv
      <3> QED
        BY <3>2, ReadingDone
    <2> QED
      BY <2>1 DEF ParsesValues, VerdictInv
  <1> QED
    BY <1>1, InvAlways, VerdictAlways, PTL

\* The meanings of the documents are those the grammar gives: the larger
\* ones are values, and no document that is one is left out.
MeaningsComplete ==
  /\ \A d \in Wider : d.text \in ValueTexts
  /\ \A text \in Document : text \in ValueTexts => Len(text) <= MaxSize \/ \E d \in Wider : d.text = text

(* The documents that are texts of Texts are those of the grammar.         *)
LEMMA TextsMeant ==
  ASSUME MeaningsComplete, NEW text \in Document
  PROVE  text \in Texts <=> text \in ValueTexts
  <1>1. MaxSize \in Nat
    BY TokensAssumption
  <1>2. text \in Texts <=> \E d \in Upto[MaxSize].values \cup Wider : d.text = text
    BY DEF Texts, Meanings, Json
  <1>3. \A d \in Upto[MaxSize].values : d.text \in ValueTexts
    BY <1>1, TextsIn
  <1>4. ASSUME text \in ValueTexts, Len(text) <= MaxSize PROVE \E d \in Upto[MaxSize].values : d.text = text
    BY <1>1, <1>4, TextsAt
  <1> QED
    BY <1>2, <1>3, <1>4 DEF MeaningsComplete

(* The verdict a run checks, for any limits and documents: the texts       *)
(* accepted are those of the grammar, nested no deeper than the limit.     *)
THEOREM VerdictIsRight ==
  ASSUME MeaningsComplete
  PROVE  ReadersSpec => []Verdict
  <1>1. VerdictInv /\ ParsesValues /\ DepthJudged => Verdict
    BY TextsMeant DEF VerdictInv, ParsesValues, Verdict
  <1> QED
    BY <1>1, VerdictAlways, ParserReadsTheGrammar, NestingJudged, PTL

---------------------------------------------------------------------------
(* The event parser: what its frames stand for.                            *)

Frame == [open : Openers, first : BOOLEAN]

\* What may follow an element, what may come first, and what must come.
Follow(open)  == IF open = "{" THEN "RULE_NEXT_MEMBER" ELSE "RULE_NEXT_ELEMENT"
AnyOf(open)   == IF open = "{" THEN "ANY_MEMBERS" ELSE "ANY_ELEMENTS"
Content(open) == IF open = "{" THEN "RULE_MEMBERS" ELSE "RULE_ELEMENTS"

\* In each frame, its closing bracket below what follows its elements.
Frames(b, fr) ==
  /\ Len(b) = 2 * Len(fr)
  /\ \A k \in 1 .. Len(fr) : b[2 * k - 1] = Closing(fr[k].open) /\ b[2 * k] = Follow(fr[k].open)

(* What brackets there are.                                                *)
LEMMA BracketFacts ==
  ASSUME NEW o \in {"{", "["}
  PROVE  /\ Closing(o) \in {"}", "]"} /\ Closing(o) \in Terminal /\ Closing(o) \in Stackable /\ Closing(o) # ","
         /\ Follow(o) \in Stackable /\ AnyOf(o) \in Stackable /\ Content(o) \in Stackable
         /\ \/ <<Closing(o), Content(o), AnyOf(o)>> = <<"}", "RULE_MEMBERS", "ANY_MEMBERS">>
            \/ <<Closing(o), Content(o), AnyOf(o)>> = <<"]", "RULE_ELEMENTS", "ANY_ELEMENTS">>
         /\ \/ Follow(o) = "RULE_NEXT_MEMBER" /\ Content(o) = "RULE_MEMBERS"
            \/ Follow(o) = "RULE_NEXT_ELEMENT" /\ Content(o) = "RULE_ELEMENTS"
         /\ o = "{" => Closing(o) = "}" /\ Content(o) = "RULE_MEMBERS" /\ Follow(o) = "RULE_NEXT_MEMBER" /\ AnyOf(o) = "ANY_MEMBERS"
         /\ o = "[" => Closing(o) = "]" /\ Content(o) = "RULE_ELEMENTS" /\ Follow(o) = "RULE_NEXT_ELEMENT" /\ AnyOf(o) = "ANY_ELEMENTS"
  <1>1. CASE o = "{"
    <2>1. Closing(o) = "}" /\ Content(o) = "RULE_MEMBERS" /\ Follow(o) = "RULE_NEXT_MEMBER" /\ AnyOf(o) = "ANY_MEMBERS"
      BY <1>1 DEF Closing, Follow, AnyOf, Content
    <2>2. "}" \in Terminal
      BY DEF Terminal, Punctuation
    <2> QED
      BY <1>1, <2>1, <2>2, PlacedFacts
  <1>2. CASE o = "["
    <2>1. Closing(o) = "]" /\ Content(o) = "RULE_ELEMENTS" /\ Follow(o) = "RULE_NEXT_ELEMENT" /\ AnyOf(o) = "ANY_ELEMENTS"
      BY <1>2 DEF Closing, Follow, AnyOf, Content
    <2>2. "]" \in Terminal
      BY DEF Terminal, Punctuation
    <2> QED
      BY <1>2, <2>1, <2>2, PlacedFacts
  <1> QED
    BY <1>1, <1>2

(* No frames, one more, and one less.                                      *)
LEMMA FramesNone ==
  /\ Frames(<<>>, <<>>)
  /\ \A b \in Seq(Stackable) : Frames(b, <<>>) => b = <<>>
  <1>1. Frames(<<>>, <<>>)
    BY DEF Frames
  <1>2. \A b \in Seq(Stackable) : Frames(b, <<>>) => b = <<>>
    BY EmptySeq DEF Frames
  <1> QED
    BY <1>1, <1>2

(* One more frame: its bracket and what follows its elements.              *)
LEMMA FramesMore ==
  ASSUME NEW b \in Seq(Stackable), NEW fr \in Seq(Frame), Frames(b, fr), NEW g \in Frame
  PROVE  Frames(Append(Append(b, Closing(g.open)), Follow(g.open)), Append(fr, g))
  <1> DEFINE x == Closing(g.open)  y == Follow(g.open)
             c == Append(b, x)  d == Append(c, y)  e == Append(fr, g)
             n == Len(fr)
  <1>1. g.open \in {"{", "["}
    BY DEF Frame, Openers
  <1>2. x \in Stackable /\ y \in Stackable
    BY <1>1, BracketFacts
  <1>3. c \in Seq(Stackable) /\ Len(c) = Len(b) + 1 /\ c[Len(b) + 1] = x /\ \A i \in 1 .. Len(b) : c[i] = b[i]
    BY <1>2, AppendFacts
  <1>4. Len(d) = Len(c) + 1 /\ d[Len(c) + 1] = y /\ \A i \in 1 .. Len(c) : d[i] = c[i]
    BY <1>2, <1>3, AppendFacts
  <1>5. n \in Nat /\ Len(e) = n + 1 /\ e[n + 1] = g /\ \A k \in 1 .. n : e[k] = fr[k]
    BY AppendFacts
  <1>6. Len(b) = 2 * n /\ \A k \in 1 .. n : b[2 * k - 1] = Closing(fr[k].open) /\ b[2 * k] = Follow(fr[k].open)
    BY DEF Frames
  <1> HIDE DEF c, d, e, n
  <1>7. Len(d) = 2 * Len(e)
    BY <1>3, <1>4, <1>5, <1>6
  <1>8. ASSUME NEW k \in 1 .. Len(e) PROVE d[2 * k - 1] = Closing(e[k].open) /\ d[2 * k] = Follow(e[k].open)
    <2>1. CASE k = n + 1
      <3>1. 2 * k - 1 = Len(b) + 1 /\ 2 * k = Len(c) + 1 /\ Len(b) + 1 \in 1 .. Len(c)
        BY <1>3, <1>5, <1>6, <2>1
      <3> QED
        BY <1>3, <1>4, <1>5, <2>1, <3>1
    <2>2. CASE k # n + 1
      <3>1. k \in 1 .. n
        BY <1>5, <2>2
      <3>2. 2 * k - 1 \in 1 .. Len(b) /\ 2 * k \in 1 .. Len(b) /\ 2 * k - 1 \in 1 .. Len(c) /\ 2 * k \in 1 .. Len(c)
        BY <1>3, <1>5, <1>6, <3>1
      <3>3. d[2 * k - 1] = b[2 * k - 1] /\ d[2 * k] = b[2 * k]
        BY <1>3, <1>4, <3>2
      <3> QED
        BY <1>5, <1>6, <3>1, <3>3
    <2> QED
      BY <2>1, <2>2
  <1>9. Frames(d, e)
    BY <1>7, <1>8 DEF Frames
  <1> QED
    BY <1>9 DEF c, d, e

(* One frame less: what its two symbols are.                               *)
LEMMA FramesLess ==
  ASSUME NEW b \in Seq(Stackable), NEW fr \in Seq(Frame), Frames(b, fr), fr # <<>>
  PROVE  /\ b # <<>> /\ Front(b) \in Seq(Stackable) /\ Front(b) # <<>>
         /\ Last(fr) \in Frame /\ Last(fr).open \in {"{", "["}
         /\ Top(b) = Follow(Last(fr).open) /\ b = Append(Front(b), Top(b))
         /\ Top(Front(b)) = Closing(Last(fr).open)
         /\ Front(Front(b)) \in Seq(Stackable) /\ Front(fr) \in Seq(Frame)
         /\ Frames(Front(Front(b)), Front(fr))
         /\ Len(fr) \in Nat \ {0} /\ Len(Front(fr)) = Len(fr) - 1
  <1> DEFINE n == Len(fr)  f == Front(fr)  c == Front(b)  d == Front(c)
  <1>1. /\ f \in Seq(Frame) /\ n \in Nat \ {0} /\ Len(f) = n - 1
        /\ \A k \in 1 .. n - 1 : f[k] = fr[k]
        /\ Last(fr) = fr[n] /\ fr[n] \in Frame
    BY FrontFacts
  <1>2. Len(b) = 2 * n /\ \A k \in 1 .. n : b[2 * k - 1] = Closing(fr[k].open) /\ b[2 * k] = Follow(fr[k].open)
    BY DEF Frames
  <1>3. b # <<>>
    <2>1. Len(b) # 0
      BY <1>1, <1>2
    <2> QED
      BY <2>1
  <1>4. c \in Seq(Stackable) /\ Len(c) = Len(b) - 1 /\ (\A i \in 1 .. Len(b) - 1 : c[i] = b[i]) /\ Top(b) = b[Len(b)] /\ Top(b) \in Stackable
    BY <1>3, FrontFacts
  <1>5. c # <<>>
    <2>1. Len(c) # 0
      BY <1>1, <1>2, <1>4
    <2> QED
      BY <2>1
  <1>6. d \in Seq(Stackable) /\ Len(d) = Len(c) - 1 /\ (\A i \in 1 .. Len(c) - 1 : d[i] = c[i]) /\ Top(c) = c[Len(c)]
    BY <1>4, <1>5, FrontFacts
  <1>7. b = Append(c, Top(b))
    <2> DEFINE e == Append(c, Top(b))
    <2>1. /\ e \in Seq(Stackable) /\ Len(c) \in Nat /\ Len(e) = Len(c) + 1
          /\ \A i \in 1 .. Len(c) : e[i] = c[i]
          /\ e[Len(c) + 1] = Top(b)
      BY <1>4, AppendFacts
    <2> HIDE DEF e, c
    <2>2. Len(e) = Len(b) /\ \A i \in 1 .. Len(b) : e[i] = b[i]
      <3>1. Len(b) \in Nat
        OBVIOUS
      <3>2. Len(e) = Len(b) /\ Len(c) + 1 = Len(b)
        BY <1>4, <2>1, <3>1
      <3>3. ASSUME NEW i \in 1 .. Len(b) PROVE e[i] = b[i]
        <4>1. CASE i = Len(b)
          BY <1>4, <2>1, <3>2, <4>1
        <4>2. CASE i # Len(b)
          <5>1. i \in 1 .. Len(c) /\ i \in 1 .. Len(b) - 1
            BY <2>1, <3>2, <4>2
          <5> QED
            BY <1>4, <2>1, <5>1
        <4> QED
          BY <4>1, <4>2
      <3> QED
        BY <3>2, <3>3
    <2>3. e = b
      BY <2>1, <2>2, SeqEqual
    <2> QED
      BY <2>3 DEF e
  <1> HIDE DEF n, f, c, d
  <1>8. Top(b) = Follow(fr[n].open) /\ Top(c) = Closing(fr[n].open)
    <2>1. n \in 1 .. n /\ 2 * n = Len(b) /\ 2 * n - 1 = Len(c) /\ Len(c) \in 1 .. Len(b) - 1
      BY <1>1, <1>2, <1>4
    <2> QED
      BY <1>2, <1>4, <1>6, <2>1
  <1>9. Frames(d, f)
    <2>1. Len(d) = 2 * Len(f)
      BY <1>1, <1>2, <1>4, <1>6
    <2>2. ASSUME NEW k \in 1 .. Len(f) PROVE d[2 * k - 1] = Closing(f[k].open) /\ d[2 * k] = Follow(f[k].open)
      <3>1. k \in 1 .. n - 1 /\ k \in 1 .. n
        BY <1>1
      <3>2. /\ 2 * k - 1 \in 1 .. Len(c) - 1 /\ 2 * k \in 1 .. Len(c) - 1
            /\ 2 * k - 1 \in 1 .. Len(b) - 1 /\ 2 * k \in 1 .. Len(b) - 1
        BY <1>1, <1>2, <1>4, <3>1
      <3>3. d[2 * k - 1] = b[2 * k - 1] /\ d[2 * k] = b[2 * k]
        BY <1>4, <1>6, <3>2
      <3> QED
        BY <1>1, <1>2, <3>1, <3>3
    <2> QED
      BY <2>1, <2>2 DEF Frames
  <1>10. fr[n].open \in {"{", "["}
    BY <1>1 DEF Frame, Openers
  <1> QED
    BY <1>1, <1>3, <1>4, <1>5, <1>6, <1>7, <1>8, <1>9, <1>10 DEF n, f, c, d

(* The brackets of a text up to a token.                                   *)
Tally(text, n, ts) == Cardinality({j \in 1 .. n : text[j].type \in ts})

OpensTo(text, n)  == Tally(text, n, Openers)
ClosesTo(text, n) == Tally(text, n, Closers)

(* Tokens of some types, counted one at a time.                            *)
LEMMA Tallied ==
  ASSUME NEW text, NEW n \in Nat, NEW ts
  PROVE  /\ Tally(text, n, ts) \in Nat /\ Tally(text, 0, ts) = 0
         /\ text[n + 1].type \in ts => Tally(text, n + 1, ts) = Tally(text, n, ts) + 1
         /\ text[n + 1].type \notin ts => Tally(text, n + 1, ts) = Tally(text, n, ts)
  <1> DEFINE in(m) == {j \in 1 .. m : text[j].type \in ts}
  <1>0. \A m : Tally(text, m, ts) = Cardinality(in(m))
    BY DEF Tally
  <1>1. IsFiniteSet(in(n)) /\ Cardinality(in(n)) \in Nat
    <2>1. IsFiniteSet(1 .. n) /\ in(n) \subseteq 1 .. n
      BY FS_Interval
    <2>2. IsFiniteSet(in(n))
      BY <2>1, FS_Subset
    <2> QED
      BY <2>2, FS_CardinalityType
  <1>2. Cardinality(in(0)) = 0
    <2>1. in(0) = {}
      OBVIOUS
    <2> QED
      BY <2>1, FS_EmptySet
  <1>3. ASSUME text[n + 1].type \in ts PROVE Cardinality(in(n + 1)) = Cardinality(in(n)) + 1
    <2>1. in(n + 1) = in(n) \cup {n + 1} /\ n + 1 \notin in(n)
      BY <1>3
    <2> HIDE DEF in
    <2> QED
      BY <1>1, <2>1, FS_AddElement
  <1>4. ASSUME text[n + 1].type \notin ts PROVE Cardinality(in(n + 1)) = Cardinality(in(n))
    <2>1. in(n + 1) = in(n)
      BY <1>4
    <2> QED
      BY <2>1
  <1> HIDE DEF in
  <1> QED
    BY <1>0, <1>1, <1>2, <1>3, <1>4

(* The brackets up to a token and the next.                                *)
LEMMA BracketsCounted ==
  ASSUME NEW text, NEW p \in Nat \ {0}
  PROVE  /\ OpensTo(text, p - 1) \in Nat /\ ClosesTo(text, p - 1) \in Nat
         /\ OpensTo(text, 0) = 0 /\ ClosesTo(text, 0) = 0
         /\ text[p].type \in Openers =>
              OpensTo(text, p) = OpensTo(text, p - 1) + 1 /\ ClosesTo(text, p) = ClosesTo(text, p - 1)
         /\ text[p].type \in Closers =>
              OpensTo(text, p) = OpensTo(text, p - 1) /\ ClosesTo(text, p) = ClosesTo(text, p - 1) + 1
         /\ text[p].type \notin Openers \cup Closers =>
              OpensTo(text, p) = OpensTo(text, p - 1) /\ ClosesTo(text, p) = ClosesTo(text, p - 1)
  <1>1. p - 1 \in Nat /\ p - 1 + 1 = p
    OBVIOUS
  <1>2. ASSUME NEW ts
        PROVE  /\ Tally(text, p - 1, ts) \in Nat /\ Tally(text, 0, ts) = 0
               /\ text[p].type \in ts => Tally(text, p, ts) = Tally(text, p - 1, ts) + 1
               /\ text[p].type \notin ts => Tally(text, p, ts) = Tally(text, p - 1, ts)
    <2> DEFINE n == p - 1
    <2>1. n \in Nat /\ n + 1 = p
      BY <1>1
    <2> HIDE DEF n
    <2>2. /\ Tally(text, n, ts) \in Nat /\ Tally(text, 0, ts) = 0
          /\ text[n + 1].type \in ts => Tally(text, n + 1, ts) = Tally(text, n, ts) + 1
          /\ text[n + 1].type \notin ts => Tally(text, n + 1, ts) = Tally(text, n, ts)
      BY <2>1, Tallied
    <2>3. /\ Tally(text, n, ts) \in Nat /\ Tally(text, 0, ts) = 0
          /\ text[p].type \in ts => Tally(text, p, ts) = Tally(text, n, ts) + 1
          /\ text[p].type \notin ts => Tally(text, p, ts) = Tally(text, n, ts)
      BY <2>1, <2>2
    <2> QED
      BY <2>3 DEF n
  <1>3. \A x \in Openers : x \notin Closers
    BY DEF Openers, Closers
  <1>4. \A x : x \notin Openers \cup Closers => x \notin Openers /\ x \notin Closers
    OBVIOUS
  <1> QED
    BY <1>2, <1>3, <1>4 DEF OpensTo, ClosesTo

---------------------------------------------------------------------------
(* The invariant of the event parser.                                      *)

\* Of all frames, or of all but the innermost, an element was parsed.
Past(fr)    == \A k \in 1 .. Len(fr) : ~fr[k].first
PastBut(fr) == \A k \in 1 .. Len(fr) - 1 : ~fr[k].first

\* Its frames suit its stage; only the innermost can be at its first item.
SaxShape(fr, st) ==
  /\ fr \in Seq(Frame)
  /\ st \in {"start", "value", "loop", "item", "colon", "top"}
  /\ st \in {"loop", "item", "colon"} => fr # <<>>
  /\ st \in {"start", "top"} => fr = <<>>
  /\ st = "colon" => Last(fr).open = "{"
  /\ st = "loop" => PastBut(fr)
  /\ st # "loop" => Past(fr)

\* It stands where the other parser would with a stack of such symbols.
SaxReads(text, p, b, fr, st) ==
  /\ st \in {"start", "value"} => Reading(text, p, Append(b, "RULE_VALUE"))
  /\ st = "loop" /\ Last(fr).first => Reading(text, p, Append(Front(b), AnyOf(Last(fr).open)))
  /\ st = "loop" /\ ~Last(fr).first => Reading(text, p, b)
  /\ st = "item" => Reading(text, p, Append(Front(b), Content(Last(fr).open)))
  /\ st = "colon" => Reading(text, p, Append(Append(b, "RULE_VALUE"), ":"))
  /\ st = "top" => Reading(text, p, b)

\* The token at i is a bracket that closes or separates, or not too deep.
Shallow(text, i) ==
  \/ text[i].type \in Punctuation \ Openers
  \/ OpensTo(text, i - 1) - ClosesTo(text, i) <= MaxSaxDepth

\* The stages between a key and its value.
BeforeValue == {"colon", "value"}

\* There are n objects and arrays open, and what came before is not too
\* deep, but for a key whose value will be refused.
SaxDepths(text, p, n, st) ==
  /\ p \in Nat \ {0} /\ n \in Nat
  /\ OpensTo(text, p - 1) - ClosesTo(text, p - 1) = n
  /\ \A i \in 1 .. p - 1 : Shallow(text, i) \/ (n > MaxSaxDepth /\ st \in BeforeValue)

SaxAt(text, p, fr, st) ==
  /\ SaxShape(fr, st)
  /\ \E b \in Seq(Stackable) : Frames(b, fr) /\ SaxReads(text, p, b, fr, st)
  /\ SaxDepths(text, p, Len(fr), st)

---------------------------------------------------------------------------
(* The depths after a token ...                                            *)
LEMMA DepthsOn ==
  ASSUME NEW text, NEW p, NEW n, NEW st, SaxDepths(text, p, n, st), NEW m \in Nat, NEW su,
         \/ text[p].type \in Openers /\ m = n + 1
         \/ text[p].type \in Closers /\ m = n - 1
         \/ text[p].type \notin Openers \cup Closers /\ m = n,
         \/ text[p].type \in Punctuation \ Openers
         \/ n <= MaxSaxDepth /\ text[p].type \notin Closers
         \/ m > MaxSaxDepth /\ su \in BeforeValue,
         n > MaxSaxDepth /\ st \in BeforeValue => m > MaxSaxDepth /\ su \in BeforeValue
  PROVE  SaxDepths(text, p + 1, m, su)
  <1>1. /\ p \in Nat \ {0} /\ n \in Nat /\ OpensTo(text, p - 1) - ClosesTo(text, p - 1) = n
        /\ \A i \in 1 .. p - 1 : Shallow(text, i) \/ (n > MaxSaxDepth /\ st \in BeforeValue)
    BY DEF SaxDepths
  <1> DEFINE o == OpensTo(text, p - 1)  c == ClosesTo(text, p - 1)  type == text[p].type
             late == m > MaxSaxDepth /\ su \in BeforeValue
  <1>2. /\ o \in Nat /\ c \in Nat
        /\ type \in Openers => OpensTo(text, p) = o + 1 /\ ClosesTo(text, p) = c
        /\ type \in Closers => OpensTo(text, p) = o /\ ClosesTo(text, p) = c + 1
        /\ type \notin Openers \cup Closers => OpensTo(text, p) = o /\ ClosesTo(text, p) = c
    BY <1>1, BracketsCounted
  <1>3. \/ type \in Openers /\ m = n + 1
        \/ type \in Closers /\ m = n - 1
        \/ type \notin Openers \cup Closers /\ m = n
    OBVIOUS
  <1>4. type \in Openers => type \notin Closers
    BY DEF Openers, Closers
  <1>5. p + 1 - 1 = p /\ p + 1 \in Nat \ {0}
    BY <1>1
  <1>6. o - c = n /\ (type \notin Closers => ClosesTo(text, p) = c)
    BY <1>1, <1>2
  <1>7. Shallow(text, p) \/ late
    <2>1. CASE type \in Punctuation \ Openers
      BY <2>1 DEF Shallow
    <2>2. CASE n <= MaxSaxDepth /\ type \notin Closers
      BY <1>6, <2>2 DEF Shallow
    <2>3. CASE late
      BY <2>3
    <2> QED
      BY <2>1, <2>2, <2>3
  <1>8. \A i \in 1 .. p - 1 : Shallow(text, i) \/ late
    BY <1>1
  <1> HIDE DEF o, c, type, late
  <1>9. OpensTo(text, p) - ClosesTo(text, p) = m
    BY <1>1, <1>2, <1>3, <1>6
  <1>10. \A i \in 1 .. p : Shallow(text, i) \/ late
    <2> SUFFICES ASSUME NEW i \in 1 .. p PROVE Shallow(text, i) \/ late
      OBVIOUS
    <2>1. i = p \/ i \in 1 .. p - 1
      BY <1>1
    <2> QED
      BY <1>7, <1>8, <2>1
  <1> QED
    BY <1>5, <1>9, <1>10 DEF SaxDepths, late

(* ... and where the parser stays at it.                                   *)
LEMMA DepthsStay ==
  ASSUME NEW text, NEW p, NEW n, NEW st, SaxDepths(text, p, n, st), NEW su,
         st \notin BeforeValue
  PROVE  SaxDepths(text, p, n, su)
  BY DEF SaxDepths

(* A token the stack has next, above its other symbols.                    *)
LEMMA PassToken ==
  ASSUME NEW text, NEW p, NEW c \in Seq(Stackable), NEW x \in Stackable, x \in Terminal,
         Reading(text, p, Append(c, x)), At(text, p).type = x
  PROVE  Reading(text, p + 1, c)
  <1> DEFINE d == Append(c, x)
  <1>1. d \in Seq(Stackable) /\ d # <<>> /\ Front(d) = c /\ Top(d) = x
    BY AppendFront
  <1> HIDE DEF d
  <1>2. Reading(text, p + 1, Front(d))
    BY <1>1, ReadingOn DEF d
  <1> QED
    BY <1>1, <1>2

---------------------------------------------------------------------------
(* What each stage makes of the token it is at.                            *)

(* Up to three symbols put on the stack.                                   *)
LEMMA Pushed ==
  ASSUME NEW f \in Seq(Stackable)
  PROVE  /\ f \o <<>> = f
         /\ \A a \in Stackable : f \o <<a>> = Append(f, a)
         /\ \A a, b \in Stackable : f \o <<a, b>> = Append(Append(f, a), b)
         /\ \A a, b, c \in Stackable : f \o <<a, b, c>> = Append(Append(Append(f, a), b), c)
  <1>1. "RULE_VALUE" \in Stackable
    BY PlacedFacts
  <1>2. ASSUME NEW a \in Stackable, NEW b \in Stackable, NEW c \in Stackable
        PROVE  /\ f \o <<>> = f /\ f \o <<a>> = Append(f, a)
               /\ f \o <<a, b>> = Append(Append(f, a), b)
               /\ f \o <<a, b, c>> = Append(Append(Append(f, a), b), c)
    BY Pushes
  <1> QED
    BY <1>1, <1>2

(* Where a value is due: a leaf, an opening bracket or none.               *)
LEMMA DueValue ==
  ASSUME NEW text, NEW p, NEW b \in Seq(Stackable), Reading(text, p, Append(b, "RULE_VALUE")),
         NEW t, t = At(text, p)
  PROVE  /\ t.type \in {"string", "scalar"} => Reading(text, p + 1, b)
         /\ t.type \in {"{", "["} => Reading(text, p + 1, Append(Append(b, Closing(t.type)), AnyOf(t.type)))
         /\ t.type \notin Starts => text \notin ValueTexts
  <1> DEFINE c == Append(b, "RULE_VALUE")
  <1>1. "RULE_VALUE" \in Stackable
    BY PlacedFacts
  <1>2. c \in Seq(Stackable) /\ c # <<>> /\ Front(c) = b /\ Top(c) = "RULE_VALUE"
    BY <1>1, AppendFront
  <1> HIDE DEF c
  <1>3. /\ t.type = "{" => Reading(text, p, b \o <<"RULE_OBJECT">>)
        /\ t.type = "[" => Reading(text, p, b \o <<"RULE_ARRAY">>)
        /\ t.type \in {"string", "scalar"} => Reading(text, p, b \o <<t.type>>)
        /\ t.type \notin Starts => text \notin ValueTexts
    BY <1>2, ReadValue DEF c
  <1>4. ASSUME t.type \in {"string", "scalar"} PROVE Reading(text, p + 1, b)
    <2>1. t.type \in Stackable /\ t.type \in Terminal
      BY <1>4, PlacedFacts DEF Terminal
    <2>2. Reading(text, p, Append(b, t.type))
      BY <1>3, <1>4, <2>1, Pushed
    <2> QED
      BY <2>1, <2>2, PassToken
  <1>5. ASSUME NEW rule, NEW open, NEW close, NEW content, NEW any, NEW end \in EndMarks,
               \/ <<rule, open, close, content, any>> = <<"RULE_OBJECT", "{", "}", "RULE_MEMBERS", "ANY_MEMBERS">>
               \/ <<rule, open, close, content, any>> = <<"RULE_ARRAY", "[", "]", "RULE_ELEMENTS", "ANY_ELEMENTS">>,
               t.type = open, Reading(text, p, b \o <<rule>>)
        PROVE  Reading(text, p + 1, Append(Append(b, close), any))
    <2> DEFINE d == Append(b, rule)  e == Append(Append(b, close), any)
    <2>1. rule \in Stackable /\ open \in Stackable /\ close \in Stackable /\ any \in Stackable /\ open \in Terminal
      BY <1>5, PlacedFacts DEF Terminal, Punctuation
    <2>2. Reading(text, p, d)
      BY <1>5, <2>1, Pushed
    <2>3. d \in Seq(Stackable) /\ d # <<>> /\ Front(d) = b /\ Top(d) = rule
      BY <2>1, AppendFront
    <2> HIDE DEF d
    <2>4. Reading(text, p, b \o <<close, any, open>>)
      BY <1>5, <2>2, <2>3, ReadOpen
    <2>5. Reading(text, p, Append(e, open)) /\ e \in Seq(Stackable)
      <3>1. b \o <<close, any, open>> = Append(e, open)
        BY <2>1, Pushed
      <3>2. Append(b, close) \in Seq(Stackable)
        BY <2>1, AppendFront
      <3>3. e \in Seq(Stackable)
        BY <2>1, <3>2, AppendFront
      <3> QED
        BY <2>4, <3>1, <3>3
    <2> HIDE DEF e
    <2>6. Reading(text, p + 1, e)
      BY <1>5, <2>1, <2>5, PassToken
    <2> QED
      BY <2>6 DEF e
  <1>6. CASE t.type = "{"
    <2>1. Closing(t.type) = "}" /\ AnyOf(t.type) = "ANY_MEMBERS"
      BY <1>6 DEF Closing, AnyOf
    <2>2. "MARK_OBJECT_END" \in EndMarks
      BY DEF EndMarks
    <2>3. Reading(text, p + 1, Append(Append(b, "}"), "ANY_MEMBERS"))
      BY <1>3, <1>5, <1>6, <2>2
    <2> QED
      BY <1>6, <2>1, <2>3 DEF Starts
  <1>7. CASE t.type = "["
    <2>1. Closing(t.type) = "]" /\ AnyOf(t.type) = "ANY_ELEMENTS"
      BY <1>7 DEF Closing, AnyOf
    <2>2. "MARK_ARRAY_END" \in EndMarks
      BY DEF EndMarks
    <2>3. Reading(text, p + 1, Append(Append(b, "]"), "ANY_ELEMENTS"))
      BY <1>3, <1>5, <1>7, <2>2
    <2> QED
      BY <1>7, <2>1, <2>3 DEF Starts
  <1> QED
    BY <1>3, <1>4, <1>6, <1>7

(* In an object or array, before its first element ...                     *)
LEMMA DueFirst ==
  ASSUME NEW text, NEW p, NEW f \in Seq(Stackable), NEW o \in {"{", "["}, f # <<>>, Top(f) = Closing(o),
         Reading(text, p, Append(f, AnyOf(o))), NEW t, t = At(text, p)
  PROVE  /\ t.type = Closing(o) => Reading(text, p + 1, Front(f))
         /\ t.type # Closing(o) => Reading(text, p, Append(f, Content(o)))
  <1> DEFINE c == Append(f, AnyOf(o))
  <1>1. /\ Closing(o) \in Terminal /\ AnyOf(o) \in Stackable /\ Content(o) \in Stackable
        /\ \/ <<Closing(o), Content(o), AnyOf(o)>> = <<"}", "RULE_MEMBERS", "ANY_MEMBERS">>
           \/ <<Closing(o), Content(o), AnyOf(o)>> = <<"]", "RULE_ELEMENTS", "ANY_ELEMENTS">>
    BY BracketFacts
  <1>2. c \in Seq(Stackable) /\ c # <<>> /\ Front(c) = f /\ Top(c) = AnyOf(o)
    BY <1>1, AppendFront
  <1> HIDE DEF c
  <1>3. /\ t.type = Closing(o) => Reading(text, p, f \o <<>>)
        /\ t.type # Closing(o) => Reading(text, p, f \o <<Content(o)>>)
    BY <1>1, <1>2, ReadAny DEF c
  <1>4. f \o <<>> = f /\ f \o <<Content(o)>> = Append(f, Content(o))
    BY <1>1, Pushed
  <1> QED
    BY <1>1, <1>3, <1>4, ReadingOn

(* ... and after one.                                                      *)
LEMMA DueNext ==
  ASSUME NEW text, NEW p, NEW f \in Seq(Stackable), NEW o \in {"{", "["}, f # <<>>, Top(f) = Closing(o),
         Reading(text, p, Append(f, Follow(o))), NEW t, t = At(text, p)
  PROVE  /\ t.type = Closing(o) => Reading(text, p + 1, Front(f))
         /\ t.type = "," => Reading(text, p + 1, Append(f, Content(o)))
         /\ t.type \notin {",", Closing(o)} => text \notin ValueTexts
  <1> DEFINE c == Append(f, Follow(o))  d == Append(f, Content(o))
  <1>1. /\ Closing(o) \in Terminal /\ Closing(o) # "," /\ Follow(o) \in Stackable /\ Content(o) \in Stackable
        /\ \/ Follow(o) = "RULE_NEXT_MEMBER" /\ Content(o) = "RULE_MEMBERS"
           \/ Follow(o) = "RULE_NEXT_ELEMENT" /\ Content(o) = "RULE_ELEMENTS"
    BY BracketFacts
  <1>2. c \in Seq(Stackable) /\ c # <<>> /\ Front(c) = f /\ Top(c) = Follow(o)
    BY <1>1, AppendFront
  <1>3. d \in Seq(Stackable)
    BY <1>1, AppendFront
  <1>4. "," \in Stackable /\ "," \in Terminal
    BY PlacedFacts DEF Terminal, Punctuation
  <1>5. Closing(o) \in Symbols
    BY <1>1 DEF Symbols, Terminal
  <1>6. f \o <<>> = f /\ f \o <<Content(o), ",">> = Append(d, ",")
    BY <1>1, <1>4, Pushed, ZenonT(60)
  <1> HIDE DEF c, d
  <1>7. /\ t.type = "," => Reading(text, p, f \o <<Content(o), ",">>)
        /\ t.type # "," => Reading(text, p, f \o <<>>)
    BY <1>1, <1>2, ReadNext DEF c
  <1>8. t.type = "," => Reading(text, p + 1, d)
    BY <1>3, <1>4, <1>6, <1>7, PassToken
  <1>9. t.type = Closing(o) => Reading(text, p + 1, Front(f))
    BY <1>1, <1>6, <1>7, ReadingOn
  <1>10. t.type \notin {",", Closing(o)} => text \notin ValueTexts
    BY <1>5, <1>6, <1>7, ReadOther
  <1> QED
    BY <1>8, <1>9, <1>10 DEF d

(* An item: of an array a value, of an object a name and a colon.          *)
LEMMA DueItem ==
  ASSUME NEW text, NEW p, NEW f \in Seq(Stackable), NEW o \in {"{", "["}, NEW b \in Seq(Stackable),
         b = Append(f, Follow(o)),
         Reading(text, p, Append(f, Content(o))), NEW t, t = At(text, p)
  PROVE  /\ t.type = Closing(o) => text \notin ValueTexts
         /\ o = "[" => Reading(text, p, Append(b, "RULE_VALUE"))
         /\ o = "{" /\ t.type = "string" => Reading(text, p + 1, Append(Append(b, "RULE_VALUE"), ":"))
         /\ o = "{" /\ t.type # "string" => text \notin ValueTexts
  <1> DEFINE c == Append(f, Content(o))
  <1>1. /\ Follow(o) \in Stackable /\ Content(o) \in Stackable
        /\ \/ <<Closing(o), Content(o), AnyOf(o)>> = <<"}", "RULE_MEMBERS", "ANY_MEMBERS">>
           \/ <<Closing(o), Content(o), AnyOf(o)>> = <<"]", "RULE_ELEMENTS", "ANY_ELEMENTS">>
    BY BracketFacts
  <1>2. c \in Seq(Stackable) /\ c # <<>> /\ Front(c) = f /\ Top(c) = Content(o)
    BY <1>1, AppendFront, ZenonT(60)
  <1>3. /\ "RULE_VALUE" \in Stackable /\ "RULE_PAIR" \in Stackable /\ ":" \in Stackable
        /\ "string" \in Stackable /\ "string" \in Terminal /\ "string" \in Symbols
    BY PlacedFacts DEF Terminal, Symbols
  <1> HIDE DEF c
  <1>4. t.type = Closing(o) => text \notin ValueTexts
    BY <1>1, <1>2, ReadAny DEF c
  <1>5. ASSUME o = "[" PROVE Reading(text, p, Append(b, "RULE_VALUE"))
    <2>1. Content(o) = "RULE_ELEMENTS" /\ Follow(o) = "RULE_NEXT_ELEMENT"
      BY <1>5, BracketFacts
    <2>2. Reading(text, p, f \o <<"RULE_NEXT_ELEMENT", "RULE_VALUE">>)
      BY <1>2, <2>1, ReadLists DEF c
    <2>3. f \o <<Follow(o), "RULE_VALUE">> = Append(b, "RULE_VALUE")
      <3>0. \A x, y \in Stackable : f \o <<x, y>> = Append(Append(f, x), y)
        BY Pushed
      <3>1. f \o <<Follow(o), "RULE_VALUE">> = Append(Append(f, Follow(o)), "RULE_VALUE")
        BY <1>1, <1>3, <3>0
      <3> QED
        BY <3>1
    <2> QED
      BY <2>1, <2>2, <2>3
  <1>6. ASSUME o = "{" PROVE Reading(text, p, Append(Append(Append(b, "RULE_VALUE"), ":"), "string"))
    <2> DEFINE d == Append(b, "RULE_PAIR")
    <2>1. Content(o) = "RULE_MEMBERS" /\ Follow(o) = "RULE_NEXT_MEMBER"
      BY <1>6, BracketFacts
    <2>2. Reading(text, p, f \o <<"RULE_NEXT_MEMBER", "RULE_PAIR">>)
      BY <1>2, <2>1, ReadLists DEF c
    <2>3. f \o <<"RULE_NEXT_MEMBER", "RULE_PAIR">> = d
      <3>0. \A x, y \in Stackable : f \o <<x, y>> = Append(Append(f, x), y)
        BY Pushed
      <3>1. f \o <<Follow(o), "RULE_PAIR">> = Append(Append(f, Follow(o)), "RULE_PAIR")
        BY <1>1, <1>3, <3>0
      <3> QED
        BY <2>1, <3>1
    <2>4. d \in Seq(Stackable) /\ d # <<>> /\ Front(d) = b /\ Top(d) = "RULE_PAIR"
      <3>1. "RULE_PAIR" \in Stackable
        BY <1>3
      <3> QED
        BY <3>1, AppendFront
    <2> HIDE DEF d
    <2>5. Reading(text, p, b \o <<"RULE_VALUE", ":", "string">>)
      BY <2>2, <2>3, <2>4, ReadLists
    <2>6. b \o <<"RULE_VALUE", ":", "string">> = Append(Append(Append(b, "RULE_VALUE"), ":"), "string")
      <3>1. \A x, y, z \in Stackable : b \o <<x, y, z>> = Append(Append(Append(b, x), y), z)
        BY Pushed
      <3> QED
        BY <1>3, <3>1
    <2> QED
      BY <2>5, <2>6
  <1> DEFINE e == Append(Append(b, "RULE_VALUE"), ":")  g == Append(e, "string")
  <1>7. e \in Seq(Stackable)
    BY <1>3, AppendFront
  <1>8. g \in Seq(Stackable) /\ g # <<>> /\ Top(g) = "string"
    <2> HIDE DEF e
    <2> QED
      BY <1>3, <1>7, AppendFront, ZenonT(60)
  <1>9. ASSUME o = "{", t.type = "string" PROVE Reading(text, p + 1, e)
    <2>1. Reading(text, p, Append(e, "string"))
      BY <1>6, <1>9
    <2> HIDE DEF e
    <2> QED
      BY <1>3, <1>7, <1>9, <2>1, PassToken
  <1>10. ASSUME o = "{", t.type # "string" PROVE text \notin ValueTexts
    <2>1. Reading(text, p, g)
      BY <1>6, <1>10
    <2> HIDE DEF g
    <2> QED
      BY <1>3, <1>8, <1>10, <2>1, ReadOther
  <1> QED
    BY <1>4, <1>5, <1>9, <1>10

(* A colon, and the value after it.                                        *)
LEMMA DueColon ==
  ASSUME NEW text, NEW p, NEW b \in Seq(Stackable), Reading(text, p, Append(Append(b, "RULE_VALUE"), ":")),
         NEW t, t = At(text, p)
  PROVE  /\ t.type = ":" => Reading(text, p + 1, Append(b, "RULE_VALUE"))
         /\ t.type # ":" => text \notin ValueTexts
  <1> DEFINE c == Append(b, "RULE_VALUE")  d == Append(c, ":")
  <1>1. /\ "RULE_VALUE" \in Stackable /\ ":" \in Stackable /\ ":" \in Terminal /\ ":" \in Symbols
    BY PlacedFacts DEF Terminal, Symbols, Punctuation
  <1>2. c \in Seq(Stackable)
    BY <1>1, AppendFront
  <1>3. d \in Seq(Stackable) /\ d # <<>> /\ Top(d) = ":"
    <2>1. ":" \in Stackable
      BY <1>1
    <2> HIDE DEF c
    <2> QED
      BY <2>1, <1>2, AppendFront
  <1>4. Reading(text, p, d)
    OBVIOUS
  <1>5. t.type # ":" => text \notin ValueTexts
    <2> HIDE DEF d
    <2> QED
      BY <1>1, <1>3, <1>4, ReadOther
  <1>6. t.type = ":" => Reading(text, p + 1, c)
    <2> HIDE DEF c
    <2> QED
      BY <1>1, <1>2, <1>4, PassToken
  <1> QED
    BY <1>5, <1>6

---------------------------------------------------------------------------
(* The frames, as they come and go.                                        *)

(* The innermost frame of those past their first elements, and the rest.   *)
LEMMA PastFacts ==
  ASSUME NEW fr \in Seq(Frame)
  PROVE  /\ Past(fr) => PastBut(fr)
         /\ fr # <<>> /\ Past(fr) => ~Last(fr).first
         /\ fr # <<>> /\ PastBut(fr) /\ ~Last(fr).first => Past(fr)
         /\ fr # <<>> /\ PastBut(fr) => Front(fr) \in Seq(Frame) /\ Past(Front(fr))
         /\ \A g \in Frame : Past(fr) => Append(fr, g) \in Seq(Frame) /\ PastBut(Append(fr, g))
         /\ Past(<<>>)
  <1> DEFINE n == Len(fr)
  <1>0. n \in Nat
    OBVIOUS
  <1>1. Past(fr) => PastBut(fr)
    BY <1>0 DEF Past, PastBut
  <1>2. ASSUME fr # <<>>
        PROVE  /\ n \in 1 .. n /\ Last(fr) = fr[n] /\ Front(fr) \in Seq(Frame) /\ Len(Front(fr)) = n - 1
               /\ \A k \in 1 .. n - 1 : Front(fr)[k] = fr[k]
    <2>1. n \in Nat \ {0}
      BY <1>2, FrontFacts
    <2> QED
      BY <1>2, <2>1, FrontFacts
  <1>3. ASSUME fr # <<>>, Past(fr) PROVE ~Last(fr).first
    BY <1>2, <1>3 DEF Past
  <1>4. ASSUME fr # <<>>, PastBut(fr), ~Last(fr).first PROVE Past(fr)
    <2> SUFFICES ASSUME NEW k \in 1 .. n PROVE ~fr[k].first
      BY DEF Past
    <2>1. k = n \/ k \in 1 .. n - 1
      BY <1>0
    <2> QED
      BY <1>2, <1>4, <2>1 DEF PastBut
  <1>5. ASSUME fr # <<>>, PastBut(fr) PROVE Front(fr) \in Seq(Frame) /\ Past(Front(fr))
    BY <1>2, <1>5 DEF Past, PastBut
  <1>6. ASSUME NEW g \in Frame, Past(fr) PROVE Append(fr, g) \in Seq(Frame) /\ PastBut(Append(fr, g))
    <2> DEFINE e == Append(fr, g)
    <2>1. e \in Seq(Frame) /\ Len(e) = n + 1 /\ \A k \in 1 .. n : e[k] = fr[k]
      BY AppendFacts
    <2> HIDE DEF e
    <2>2. PastBut(e)
      BY <1>0, <1>6, <2>1 DEF Past, PastBut
    <2> QED
      BY <2>1, <2>2 DEF e
  <1>7. Past(<<>>)
    BY DEF Past
  <1> QED
    BY <1>1, <1>3, <1>4, <1>5, <1>6, <1>7

(* The first element of the innermost frame is begun.                      *)
LEMMA FirstBegun ==
  ASSUME NEW fr \in Seq(Frame), fr # <<>>, PastBut(fr),
         NEW g, g = [fr EXCEPT ![Len(fr)].first = FALSE]
  PROVE  /\ g \in Seq(Frame) /\ g # <<>> /\ Past(g)
         /\ Len(g) = Len(fr) /\ Last(g).open = Last(fr).open
         /\ \A b : Frames(b, fr) => Frames(b, g)
  <1> DEFINE n == Len(fr)
  <1>1. n \in Nat \ {0} /\ Last(fr) = fr[n] /\ fr[n] \in Frame
    BY FrontFacts
  <1>2. fr \in [1 .. n -> Frame]
    BY SeqDef
  <1>3. n \in 1 .. n
    BY <1>1
  <1>4. g = [k \in 1 .. n |-> IF k = n THEN [fr[n] EXCEPT !.first = FALSE] ELSE fr[k]]
    BY <1>2, <1>3
  <1>5. [fr[n] EXCEPT !.first = FALSE] \in Frame /\ [fr[n] EXCEPT !.first = FALSE].open = fr[n].open
        /\ ~[fr[n] EXCEPT !.first = FALSE].first
    BY <1>1 DEF Frame
  <1> HIDE DEF n
  <1>6. g \in [1 .. n -> Frame]
    BY <1>2, <1>4, <1>5
  <1>7. g \in Seq(Frame) /\ Len(g) = n
    BY <1>1, <1>6
  <1>8. g # <<>>
    BY <1>1, <1>7
  <1>9. \A k \in 1 .. n : g[k].open = fr[k].open
    BY <1>4, <1>5
  <1>10. Last(g) = g[n]
    BY <1>7, <1>8, FrontFacts
  <1>11. Past(g)
    <2> SUFFICES ASSUME NEW k \in 1 .. n PROVE ~g[k].first
      BY <1>7 DEF Past
    <2>1. k = n \/ k \in 1 .. n - 1
      BY <1>1
    <2> QED
      BY <1>4, <1>5, <2>1 DEF PastBut, n
  <1>12. ASSUME NEW b, Frames(b, fr) PROVE Frames(b, g)
    BY <1>7, <1>9, <1>12 DEF Frames, n
  <1> QED
    BY <1>1, <1>3, <1>7, <1>8, <1>9, <1>10, <1>11, <1>12 DEF n

---------------------------------------------------------------------------
(* The stages, one after the other.                                        *)

\* Some token is too deep.
Deep(text) == \E i \in 1 .. Len(text) : ~Shallow(text, i)

(* Any token but the end of file is one of the text.                       *)
LEMMA AtToken ==
  ASSUME NEW text, NEW p, At(text, p).type # "eof"
  PROVE  p <= Len(text) /\ text[p] = At(text, p)
  BY TokenFacts DEF At

(* What the types of tokens count for.                                     *)
LEMMA TypeFacts ==
  /\ \A x \in {"string", "scalar", ":", ","} : x \notin Openers \cup Closers /\ x \notin Closers
  /\ \A x \in Openers : x \notin Closers /\ x \in {"{", "["} /\ x \notin Punctuation \ Openers
  /\ \A x \in Closers \cup {",", ":"} : x \in Punctuation \ Openers
  /\ \A x \in Starts : x # "eof" /\ x \notin Punctuation \ Openers /\ x \notin Closers
  /\ \A x \in {"{", "["} : x \in Openers /\ Closing(x) \in Closers /\ x # "eof" /\ Closing(x) # "eof"
  BY DEF Openers, Closers, Punctuation, Starts, Closing

(* What a value is, if it is not too deep.                                 *)
LEMMA FromValue ==
  ASSUME NEW text, NEW p, NEW fr, SaxAt(text, p, fr, "value"), NEW t, t = At(text, p)
  PROVE  /\ Len(fr) <= MaxSaxDepth /\ t.type \in {"string", "scalar"} => SaxAt(text, p + 1, fr, After(fr))
         /\ Len(fr) <= MaxSaxDepth /\ t.type \in {"{", "["} =>
              SaxAt(text, p + 1, Append(fr, [open |-> t.type, first |-> TRUE]), "loop")
         /\ t.type \notin Starts => text \notin ValueTexts
         /\ Len(fr) > MaxSaxDepth /\ t.type \in Starts => Deep(text)
  <1>1. PICK b \in Seq(Stackable) : Frames(b, fr) /\ SaxReads(text, p, b, fr, "value")
    BY DEF SaxAt
  <1>2. SaxShape(fr, "value") /\ SaxDepths(text, p, Len(fr), "value")
    BY DEF SaxAt
  <1>3. fr \in Seq(Frame) /\ Past(fr)
    BY <1>2 DEF SaxShape
  <1>4. Len(fr) \in Nat /\ p \in Nat \ {0} /\ MaxSaxDepth \in Nat
    BY <1>2, SaxAssumption DEF SaxDepths
  <1>5. Reading(text, p, Append(b, "RULE_VALUE"))
    BY <1>1 DEF SaxReads
  <1>6. /\ t.type \in {"string", "scalar"} => Reading(text, p + 1, b)
        /\ t.type \in {"{", "["} => Reading(text, p + 1, Append(Append(b, Closing(t.type)), AnyOf(t.type)))
        /\ t.type \notin Starts => text \notin ValueTexts
    BY <1>5, DueValue
  <1>7. ASSUME Len(fr) <= MaxSaxDepth, t.type \in {"string", "scalar"} PROVE SaxAt(text, p + 1, fr, After(fr))
    <2>1. SaxShape(fr, After(fr)) /\ After(fr) \in {"top", "loop"}
      <3>1. CASE fr = <<>>
        <4>1. After(fr) = "top"
          BY <3>1 DEF After
        <4> QED
          BY <1>3, <3>1, <4>1, Zenon DEF SaxShape
      <3>2. CASE fr # <<>>
        <4>1. After(fr) = "loop"
          BY <3>2 DEF After
        <4>2. PastBut(fr)
          BY <1>3, PastFacts
        <4> QED
          BY <1>3, <3>2, <4>1, <4>2, Zenon DEF SaxShape
      <3> QED
        BY <3>1, <3>2
    <2>2. SaxReads(text, p + 1, b, fr, After(fr))
      <3>1. fr # <<>> => ~Last(fr).first
        BY <1>3, PastFacts
      <3>2. After(fr) = "loop" => fr # <<>>
        BY DEF After
      <3>3. Reading(text, p + 1, b)
        BY <1>6, <1>7
      <3> QED
        BY <2>1, <3>1, <3>2, <3>3, Zenon DEF SaxReads
    <2>3. SaxDepths(text, p + 1, Len(fr), After(fr))
      <3>1. text[p] = t
        BY <1>7, AtToken
      <3>2. text[p].type \notin Openers \cup Closers /\ text[p].type \notin Closers
        BY <1>7, <3>1, TypeFacts
      <3>3. ~ (Len(fr) > MaxSaxDepth)
        BY <1>4, <1>7
      <3> QED
        BY <1>2, <1>4, <1>7, <3>2, <3>3, DepthsOn
    <2> QED
      BY <1>1, <2>1, <2>2, <2>3 DEF SaxAt
  <1>8. ASSUME Len(fr) <= MaxSaxDepth, t.type \in {"{", "["}
        PROVE SaxAt(text, p + 1, Append(fr, [open |-> t.type, first |-> TRUE]), "loop")
    <2> DEFINE o == t.type  g == [open |-> o, first |-> TRUE]  e == Append(fr, g)
               c == Append(b, Closing(o))  d == Append(c, Follow(o))
    <2>1. o \in Openers /\ o # "eof" /\ o \notin Closers
      BY <1>8, TypeFacts
    <2>2. g \in Frame /\ g.open = o /\ g.first = TRUE
      BY <2>1 DEF Frame
    <2>3. Reading(text, p + 1, Append(c, AnyOf(o)))
      BY <1>6, <1>8
    <2>4. Closing(o) \in Stackable /\ Follow(o) \in Stackable
      BY <1>8, BracketFacts
    <2>5. c \in Seq(Stackable)
      BY <2>4, AppendFront
    <2>6. d \in Seq(Stackable) /\ Front(d) = c
      <3> HIDE DEF c
      <3> QED
        BY <2>4, <2>5, AppendFront
    <2>7. Frames(d, e)
      BY <1>1, <1>3, <2>2, FramesMore
    <2> HIDE DEF g
    <2>8. e \in Seq(Frame) /\ e # <<>> /\ Last(e) = g /\ PastBut(e) /\ Len(e) = Len(fr) + 1
      <3>1. e \in Seq(Frame) /\ e # <<>> /\ Top(e) = g /\ Len(e) = Len(fr) + 1
        BY <1>3, <2>2, AppendFront, AppendFacts
      <3>2. Last(e) = g
        <4> HIDE DEF e
        <4> QED
          BY <3>1, FrontFacts
      <3> QED
        BY <1>3, <2>2, <3>1, <3>2, PastFacts
    <2> HIDE DEF e, d, c, o
    <2>9. SaxShape(e, "loop")
      BY <2>8, Zenon DEF SaxShape
    <2>10. SaxReads(text, p + 1, d, e, "loop")
      BY <2>2, <2>3, <2>6, <2>8, Zenon DEF SaxReads
    <2>11. SaxDepths(text, p + 1, Len(e), "loop")
      <3>1. text[p].type = o
        BY <2>1, AtToken DEF o
      <3>2. Len(fr) <= MaxSaxDepth
        BY <1>8
      <3>3. Len(e) \in Nat /\ ~ (Len(fr) > MaxSaxDepth)
        BY <1>4, <2>8, <3>2
      <3> QED
        BY <1>2, <2>1, <2>8, <3>1, <3>2, <3>3, DepthsOn
    <2>12. SaxAt(text, p + 1, e, "loop")
      BY <2>6, <2>7, <2>9, <2>10, <2>11 DEF SaxAt
    <2> QED
      BY <2>12 DEF e, g, o
  <1>9. ASSUME Len(fr) > MaxSaxDepth, t.type \in Starts PROVE Deep(text)
    <2>1. t.type # "eof" /\ t.type \notin Punctuation \ Openers /\ t.type \notin Closers
      BY <1>9, TypeFacts
    <2>2. text[p] = t /\ p <= Len(text)
      BY <2>1, AtToken
    <2>3. OpensTo(text, p - 1) - ClosesTo(text, p - 1) = Len(fr)
      BY <1>2 DEF SaxDepths
    <2>4. ClosesTo(text, p) = ClosesTo(text, p - 1)
      BY <1>4, <2>1, <2>2, BracketsCounted
    <2>5. OpensTo(text, p - 1) - ClosesTo(text, p) = Len(fr)
      BY <2>3, <2>4
    <2>6. ~Shallow(text, p)
      <3>1. text[p].type \notin Punctuation \ Openers
        BY <2>1, <2>2
      <3>2. ~ (Len(fr) <= MaxSaxDepth)
        BY <1>4, <1>9
      <3> QED
        BY <2>5, <3>1, <3>2 DEF Shallow
    <2>7. p \in 1 .. Len(text)
      <3>1. Len(text) \in Nat
        <4>1. PICK done \in Word, rest \in AnyWord : text = done \o rest
          BY <1>5 DEF Reading
        <4> QED
          BY <4>1, WordFacts
      <3> QED
        BY <1>4, <2>2, <3>1
    <2> QED
      BY <2>6, <2>7 DEF Deep
  <1> QED
    BY <1>6, <1>7, <1>8, <1>9

(* The innermost object or array, and the symbols that stand for it.       *)
LEMMA Within ==
  ASSUME NEW text, NEW p, NEW fr, NEW st \in {"loop", "item", "colon"}, SaxAt(text, p, fr, st),
         NEW o, o = Last(fr).open
  PROVE  \E b \in Seq(Stackable), f \in Seq(Stackable) :
           /\ o \in {"{", "["} /\ f = Front(b) /\ f # <<>> /\ Top(f) = Closing(o) /\ b = Append(f, Follow(o))
           /\ Frames(b, fr) /\ SaxReads(text, p, b, fr, st)
  <1>1. PICK b \in Seq(Stackable) : Frames(b, fr) /\ SaxReads(text, p, b, fr, st)
    BY DEF SaxAt
  <1>2. fr \in Seq(Frame) /\ fr # <<>>
    BY DEF SaxAt, SaxShape
  <1>3. /\ Front(b) \in Seq(Stackable) /\ Front(b) # <<>>
        /\ Last(fr).open \in {"{", "["}
        /\ Top(b) = Follow(Last(fr).open) /\ b = Append(Front(b), Top(b))
        /\ Top(Front(b)) = Closing(Last(fr).open)
    BY <1>1, <1>2, FramesLess
  <1> QED
    BY <1>1, <1>3

(* At the head of the loops: a bracket, an item, or a comma and an item.   *)
LEMMA FromLoop ==
  ASSUME NEW text, NEW p, NEW fr, SaxAt(text, p, fr, "loop"), NEW t, t = At(text, p), NEW o, o = Last(fr).open
  PROVE  /\ t.type = Closing(o) => SaxAt(text, p + 1, Front(fr), After(Front(fr)))
         /\ t.type # Closing(o) /\ Last(fr).first => SaxAt(text, p, [fr EXCEPT ![Len(fr)].first = FALSE], "item")
         /\ t.type = "," /\ ~Last(fr).first => SaxAt(text, p + 1, fr, "item")
         /\ t.type \notin {",", Closing(o)} /\ ~Last(fr).first => text \notin ValueTexts
  <1>1. PICK b \in Seq(Stackable), f \in Seq(Stackable) :
           /\ o \in {"{", "["} /\ f = Front(b) /\ f # <<>> /\ Top(f) = Closing(o) /\ b = Append(f, Follow(o))
           /\ Frames(b, fr) /\ SaxReads(text, p, b, fr, "loop")
    BY Within
  <1>2. SaxShape(fr, "loop") /\ SaxDepths(text, p, Len(fr), "loop")
    BY DEF SaxAt
  <1>3. fr \in Seq(Frame) /\ fr # <<>> /\ PastBut(fr)
    BY <1>2, Zenon DEF SaxShape
  <1>4. Len(fr) \in Nat /\ "loop" \notin BeforeValue
    BY <1>3, FrontFacts DEF BeforeValue
  <1>5. Len(Front(fr)) \in Nat /\ Len(Front(fr)) = Len(fr) - 1
    <2>1. Len(fr) \in Nat \ {0} /\ Len(Front(fr)) = Len(fr) - 1
      BY <1>3, FrontFacts
    <2> QED
      BY <2>1
  <1>6. /\ Last(fr).first => Reading(text, p, Append(f, AnyOf(o)))
        /\ ~Last(fr).first => Reading(text, p, Append(f, Follow(o)))
    BY <1>1, Zenon DEF SaxReads
  <1>7. ASSUME t.type = Closing(o) PROVE SaxAt(text, p + 1, Front(fr), After(Front(fr)))
    <2> DEFINE h == Front(fr)  c == Front(f)
    <2>1. Reading(text, p + 1, c)
      BY <1>1, <1>6, <1>7, DueFirst, DueNext
    <2>2. h \in Seq(Frame) /\ Past(h)
      BY <1>3, PastFacts
    <2>3. c \in Seq(Stackable) /\ Frames(c, h)
      BY <1>1, <1>3, FramesLess
    <2> HIDE DEF h, c
    <2>4. After(h) \in {"top", "loop"} /\ (After(h) = "loop" => h # <<>>) /\ (After(h) = "top" => h = <<>>)
      BY DEF After
    <2>5. h # <<>> => ~Last(h).first /\ PastBut(h)
      BY <2>2, PastFacts
    <2>6. SaxShape(h, After(h))
      <3>1. CASE h = <<>>
        <4>1. After(h) = "top"
          BY <3>1 DEF After
        <4> QED
          BY <2>2, <3>1, <4>1, Zenon DEF SaxShape
      <3>2. CASE h # <<>>
        <4>1. After(h) = "loop"
          BY <3>2 DEF After
        <4> QED
          BY <2>2, <2>5, <3>2, <4>1, Zenon DEF SaxShape
      <3> QED
        BY <3>1, <3>2
    <2>7. SaxReads(text, p + 1, c, h, After(h))
      BY <2>1, <2>4, <2>5, Zenon DEF SaxReads
    <2>8. SaxDepths(text, p + 1, Len(h), After(h))
      <3>1. Closing(o) \in Closers /\ Closing(o) # "eof" /\ Closing(o) \in Punctuation \ Openers
        BY <1>1, TypeFacts
      <3>2. text[p].type \in Closers /\ text[p].type \in Punctuation \ Openers
        BY <1>7, <3>1, AtToken
      <3> QED
        BY <1>5, <1>2, <1>4, <3>2, DepthsOn DEF h
    <2>9. SaxAt(text, p + 1, h, After(h))
      BY <2>6, <2>7, <2>8, <2>3 DEF SaxAt
    <2> QED
      BY <2>9 DEF h
  <1>8. ASSUME t.type # Closing(o), Last(fr).first
        PROVE  SaxAt(text, p, [fr EXCEPT ![Len(fr)].first = FALSE], "item")
    <2> DEFINE g == [fr EXCEPT ![Len(fr)].first = FALSE]
    <2>1. /\ g \in Seq(Frame) /\ g # <<>> /\ Past(g)
          /\ Len(g) = Len(fr) /\ Last(g).open = o
          /\ Frames(b, g)
      BY <1>1, <1>3, FirstBegun
    <2> HIDE DEF g
    <2>2. Reading(text, p, Append(f, Content(o)))
      BY <1>1, <1>6, <1>8, DueFirst
    <2>3. SaxShape(g, "item")
      BY <2>1, Zenon DEF SaxShape
    <2>4. SaxReads(text, p, b, g, "item")
      BY <1>1, <2>1, <2>2, Zenon DEF SaxReads
    <2>5. SaxDepths(text, p, Len(g), "item")
      BY <1>2, <1>4, <2>1, DepthsStay
    <2>6. SaxAt(text, p, g, "item")
      BY <2>1, <2>3, <2>4, <2>5 DEF SaxAt
    <2> QED
      BY <2>6 DEF g
  <1>9. ASSUME t.type = ",", ~Last(fr).first PROVE SaxAt(text, p + 1, fr, "item")
    <2>1. Past(fr)
      BY <1>3, <1>9, PastFacts
    <2>2. Reading(text, p + 1, Append(f, Content(o)))
      BY <1>1, <1>6, <1>9, DueNext
    <2>3. SaxShape(fr, "item")
      BY <1>3, <2>1, Zenon DEF SaxShape
    <2>4. SaxReads(text, p + 1, b, fr, "item")
      BY <1>1, <2>2, Zenon DEF SaxReads
    <2>5. SaxDepths(text, p + 1, Len(fr), "item")
      <3>1. text[p] = t
        BY <1>9, AtToken
      <3>2. text[p].type \notin Openers \cup Closers /\ text[p].type \in Punctuation \ Openers
        BY <1>9, <3>1, TypeFacts
      <3> QED
        BY <1>2, <1>4, <3>2, DepthsOn
    <2> QED
      BY <1>1, <2>3, <2>4, <2>5 DEF SaxAt
  <1>10. ASSUME t.type \notin {",", Closing(o)}, ~Last(fr).first PROVE text \notin ValueTexts
    BY <1>1, <1>6, <1>10, DueNext
  <1> QED
    BY <1>7, <1>8, <1>9, <1>10

(* An item of an array is a value, one of an object begins with its name.  *)
LEMMA FromItem ==
  ASSUME NEW text, NEW p, NEW fr, SaxAt(text, p, fr, "item"), NEW t, t = At(text, p), NEW o, o = Last(fr).open
  PROVE  /\ t.type = Closing(o) => text \notin ValueTexts
         /\ o = "[" => SaxAt(text, p, fr, "value")
         /\ o = "{" /\ t.type = "string" => SaxAt(text, p + 1, fr, "colon")
         /\ o = "{" /\ t.type # "string" => text \notin ValueTexts
  <1>1. PICK b \in Seq(Stackable), f \in Seq(Stackable) :
           /\ o \in {"{", "["} /\ f = Front(b) /\ f # <<>> /\ Top(f) = Closing(o) /\ b = Append(f, Follow(o))
           /\ Frames(b, fr) /\ SaxReads(text, p, b, fr, "item")
    BY Within
  <1>2. SaxShape(fr, "item") /\ SaxDepths(text, p, Len(fr), "item")
    BY DEF SaxAt
  <1>3. fr \in Seq(Frame) /\ fr # <<>> /\ Past(fr)
    BY <1>2, Zenon DEF SaxShape
  <1>4. Len(fr) \in Nat /\ MaxSaxDepth \in Nat /\ "item" \notin BeforeValue /\ "colon" \in BeforeValue
    BY <1>3, SaxAssumption DEF BeforeValue
  <1>5. Reading(text, p, Append(f, Content(o)))
    BY <1>1, Zenon DEF SaxReads
  <1>6. /\ t.type = Closing(o) => text \notin ValueTexts
        /\ o = "[" => Reading(text, p, Append(b, "RULE_VALUE"))
        /\ o = "{" /\ t.type = "string" => Reading(text, p + 1, Append(Append(b, "RULE_VALUE"), ":"))
        /\ o = "{" /\ t.type # "string" => text \notin ValueTexts
    BY <1>1, <1>5, DueItem
  <1>7. ASSUME o = "[" PROVE SaxAt(text, p, fr, "value")
    <2>1. SaxShape(fr, "value")
      BY <1>3, Zenon DEF SaxShape
    <2>2. SaxReads(text, p, b, fr, "value")
      BY <1>6, <1>7, Zenon DEF SaxReads
    <2>3. SaxDepths(text, p, Len(fr), "value")
      BY <1>2, <1>4, DepthsStay
    <2> QED
      BY <1>1, <2>1, <2>2, <2>3 DEF SaxAt
  <1>8. ASSUME o = "{", t.type = "string" PROVE SaxAt(text, p + 1, fr, "colon")
    <2>1. SaxShape(fr, "colon")
      BY <1>3, <1>8, Zenon DEF SaxShape
    <2>2. SaxReads(text, p + 1, b, fr, "colon")
      BY <1>6, <1>8, Zenon DEF SaxReads
    <2>3. SaxDepths(text, p + 1, Len(fr), "colon")
      <3>1. text[p] = t
        BY <1>8, AtToken
      <3>2. text[p].type \notin Openers \cup Closers /\ text[p].type \notin Closers
        BY <1>8, <3>1, TypeFacts
      <3>3. Len(fr) <= MaxSaxDepth \/ Len(fr) > MaxSaxDepth
        BY <1>4
      <3> QED
        BY <1>2, <1>4, <3>2, <3>3, DepthsOn
    <2> QED
      BY <1>1, <2>1, <2>2, <2>3 DEF SaxAt
  <1> QED
    BY <1>6, <1>7, <1>8

(* After a name its colon.                                                 *)
LEMMA FromColon ==
  ASSUME NEW text, NEW p, NEW fr, SaxAt(text, p, fr, "colon"), NEW t, t = At(text, p)
  PROVE  /\ t.type = ":" => SaxAt(text, p + 1, fr, "value")
         /\ t.type # ":" => text \notin ValueTexts
  <1>1. PICK b \in Seq(Stackable) : Frames(b, fr) /\ SaxReads(text, p, b, fr, "colon")
    BY DEF SaxAt
  <1>2. SaxShape(fr, "colon") /\ SaxDepths(text, p, Len(fr), "colon")
    BY DEF SaxAt
  <1>3. fr \in Seq(Frame) /\ Past(fr)
    BY <1>2, Zenon DEF SaxShape
  <1>4. Len(fr) \in Nat /\ "value" \in BeforeValue
    BY <1>3 DEF BeforeValue
  <1>5. Reading(text, p, Append(Append(b, "RULE_VALUE"), ":"))
    BY <1>1, Zenon DEF SaxReads
  <1>6. /\ t.type = ":" => Reading(text, p + 1, Append(b, "RULE_VALUE"))
        /\ t.type # ":" => text \notin ValueTexts
    BY <1>5, DueColon
  <1>7. ASSUME t.type = ":" PROVE SaxAt(text, p + 1, fr, "value")
    <2>1. SaxShape(fr, "value")
      BY <1>3, Zenon DEF SaxShape
    <2>2. SaxReads(text, p + 1, b, fr, "value")
      BY <1>6, <1>7, Zenon DEF SaxReads
    <2>3. SaxDepths(text, p + 1, Len(fr), "value")
      <3>1. text[p] = t
        BY <1>7, AtToken
      <3>2. text[p].type \notin Openers \cup Closers /\ text[p].type \in Punctuation \ Openers
        BY <1>7, <3>1, TypeFacts
      <3> QED
        BY <1>2, <1>4, <3>2, DepthsOn
    <2> QED
      BY <1>1, <2>1, <2>2, <2>3 DEF SaxAt
  <1> QED
    BY <1>6, <1>7

---------------------------------------------------------------------------
(* The event parser's verdict.                                             *)

SaxInv ==
  /\ doc \in Document
  /\ outcome \in {"parsing", "accepted", "rejected", "refused"}
  /\ outcome = "parsing" => SaxAt(doc, saxPos, frames, stage)
  /\ outcome = "accepted" => doc \in ValueTexts /\ ~Deep(doc)
  /\ outcome = "rejected" => doc \notin ValueTexts \/ Deep(doc)

(* A text that is too deep is so at some token.                            *)
LEMMA TooDeepIs ==
  ASSUME doc \in Document
  PROVE  TooDeep <=> Deep(doc)
  <1>1. doc \in AnyWord
    BY DocumentIsWord
  <1>2. DOMAIN doc = 1 .. Len(doc) /\ Len(doc) \in Nat
    BY <1>1 DEF AnyWord
  <1>3. ASSUME NEW i \in 1 .. Len(doc)
        PROVE  doc[i].type \notin Punctuation \ {"{", "["} /\ DepthAt(i) > MaxSaxDepth <=> ~Shallow(doc, i)
    <2>1. DepthAt(i) = OpensTo(doc, i - 1) - ClosesTo(doc, i)
      BY DEF DepthAt, OpensTo, ClosesTo, Tally, Openers, Closers
    <2>2. OpensTo(doc, i - 1) \in Nat /\ ClosesTo(doc, i) \in Nat
      <3>1. i \in Nat /\ i - 1 \in Nat
        BY <1>2
      <3> QED
        BY <3>1, Tallied DEF OpensTo, ClosesTo
    <2> DEFINE d == OpensTo(doc, i - 1) - ClosesTo(doc, i)
    <2>3. d > MaxSaxDepth <=> ~ (d <= MaxSaxDepth)
      <3>1. d \in Int /\ MaxSaxDepth \in Int
        BY <2>2, SaxAssumption
      <3> HIDE DEF d
      <3> QED
        BY <3>1
    <2>4. Shallow(doc, i) <=> doc[i].type \in Punctuation \ {"{", "["} \/ d <= MaxSaxDepth
      BY DEF Shallow, Openers
    <2>5. DepthAt(i) = d
      BY <2>1
    <2> HIDE DEF d
    <2> QED
      BY <2>3, <2>4, <2>5
  <1> QED
    BY <1>2, <1>3 DEF TooDeep, Deep

(* A lexer error is no token of the grammar.                               *)
LEMMA ErrorIsNone ==
  ASSUME doc \in Document, NEW p \in Nat \ {0}, At(doc, p) = LexerError
  PROVE  doc \notin ValueTexts
  <1>1. LexerError.type = "error"
    BY DEF LexerError, Mark
  <1>2. p <= Len(doc) /\ doc[p] = LexerError
    BY <1>1, AtToken
  <1>3. doc \in AnyWord /\ Len(doc) \in Nat
    BY DocumentIsWord, WordFacts
  <1>4. p \in 1 .. Len(doc)
    BY <1>2, <1>3
  <1>5. ASSUME doc \in Word PROVE FALSE
    <2>1. doc[p] \in Token
      BY <1>4, <1>5 DEF Word
    <2>2. LexerError.type \in Punctuation \cup {"string", "scalar"}
      BY <1>2, <2>1, TokenFacts
    <2> QED
      BY <1>1, <2>2 DEF Punctuation
  <1> QED
    BY <1>5 DEF ValueTexts

(* The parser goes on.                                                     *)
LEMMA Advanced ==
  ASSUME SaxInv, outcome = "parsing", NEW next, NEW open, Advance(next, open), SaxAt(doc, saxPos + 1, open, next)
  PROVE  SaxInv'
  <1>1. doc' = doc /\ saxPos' = saxPos + 1 /\ doc \in Document
    BY DEF Advance, SaxInv
  <1>2. CASE TokenAt(saxPos + 1) = LexerError /\ outcome' = "rejected"
    <2>1. saxPos + 1 \in Nat \ {0} /\ At(doc, saxPos + 1) = LexerError
      BY <1>2 DEF SaxAt, SaxDepths, TokenAt, At
    <2>2. doc \notin ValueTexts
      BY <1>1, <2>1, ErrorIsNone
    <2> QED
      BY <1>1, <1>2, <2>2 DEF SaxInv
  <1>3. CASE stage' = next /\ frames' = open /\ outcome' = outcome
    BY <1>1, <1>3 DEF SaxInv
  <1> QED
    BY <1>2, <1>3 DEF Advance

(* The parser tells and goes on, or is stopped.                            *)
LEMMA Told ==
  ASSUME SaxInv, outcome = "parsing", NEW event, NEW next, NEW open, Tell(event, next, open),
         SaxAt(doc, saxPos + 1, open, next)
  PROVE  SaxInv'
  <1>1. CASE Advance(next, open)
    BY <1>1, Advanced
  <1>2. CASE outcome' = "refused" /\ doc' = doc
    BY <1>2 DEF SaxInv
  <1> QED
    BY <1>1, <1>2 DEF Tell

(* The parser gives up.                                                    *)
LEMMA Rejected ==
  ASSUME SaxInv, Reject, doc \notin ValueTexts \/ Deep(doc)
  PROVE  SaxInv'
  BY DEF SaxInv, Reject

(* The parser goes to another stage.                                       *)
LEMMA Moved ==
  ASSUME SaxInv, outcome = "parsing", doc' = doc, saxPos' = saxPos, outcome' = outcome,
         SaxAt(doc, saxPos, frames', stage')
  PROVE  SaxInv'
  BY DEF SaxInv

(* Before the first step.                                                  *)
LEMMA SaxAtFirst ==
  ASSUME doc \in Document, SaxReady
  PROVE  SaxInv
  <1>1. saxPos = 1 /\ frames = <<>> /\ stage = "start" /\ outcome = "parsing"
    BY DEF SaxReady
  <1>2. SaxShape(<<>>, "start")
    <2>1. <<>> \in Seq(Frame)
      OBVIOUS
    <2>2. Past(<<>>)
      BY <2>1, PastFacts
    <2> QED
      BY <2>1, <2>2 DEF SaxShape
  <1>3. <<>> \in Seq(Stackable) /\ Frames(<<>>, <<>>)
    BY FramesNone
  <1>4. SaxReads(doc, 1, <<>>, <<>>, "start")
    <2>1. "RULE_VALUE" \in Stackable /\ Placed(Top(<<>>), "RULE_VALUE")
      BY PlacedFacts
    <2>2. Stacked(Append(<<>>, "RULE_VALUE"), Joined(Lang("RULE_VALUE"), Empty))
      BY <1>3, <2>1, StackedNone, StackedMore
    <2>3. Joined(Lang("RULE_VALUE"), Empty) = ValueTexts
      BY LangFacts, JoinedFacts
    <2>4. Reading(doc, 1, Append(<<>>, "RULE_VALUE"))
      BY <2>2, <2>3, DocumentIsWord, ReadingStarts
    <2> QED
      BY <2>4 DEF SaxReads
  <1>5. SaxDepths(doc, 1, 0, "start")
    <2>1. OpensTo(doc, 0) = 0 /\ ClosesTo(doc, 0) = 0
      BY BracketsCounted
    <2>2. 1 - 1 = 0 /\ 1 \in Nat \ {0} /\ 0 \in Nat /\ 0 - 0 = 0 /\ 1 .. 0 = {}
      OBVIOUS
    <2> QED
      BY <2>1, <2>2 DEF SaxDepths
  <1>6. Len(<<>>) = 0
    OBVIOUS
  <1>7. SaxAt(doc, 1, <<>>, "start")
    BY <1>2, <1>3, <1>4, <1>5, <1>6 DEF SaxAt
  <1> QED
    BY <1>1, <1>7 DEF SaxInv

(* After any of its steps.                                                 *)
LEMMA SaxKept ==
  ASSUME SaxInv, SaxNext
  PROVE  SaxInv'
  <1> DEFINE t == CurrentTok  o == Innermost.open
  <1>1. outcome = "parsing" /\ doc \in Document /\ SaxAt(doc, saxPos, frames, stage)
    BY DEF SaxNext, SaxInv, Start, ParseLeaf, ParseOpen, NoValue, ParseClose, ParseComma, ParseItem, ParseColon,
           SaxFinish, Parsing
  <1>2. t = At(doc, saxPos) /\ o = Last(frames).open
    BY DEF CurrentTok, TokenAt, At, Innermost
  <1>3. PastLimit <=> ~ (Len(frames) <= MaxSaxDepth)
    <2>1. Len(frames) \in Int /\ MaxSaxDepth \in Int
      BY <1>1, SaxAssumption DEF SaxAt, SaxDepths
    <2> QED
      BY <2>1 DEF PastLimit
  <1>4. CASE Start
    <2>1. stage = "start" /\ SaxAt(doc, saxPos, frames, "start")
      BY <1>1, <1>4 DEF Start, Parsing
    <2>2. CASE doc = <<>> /\ Reject
      <3>1. doc \notin ValueTexts
        BY <2>2, TextsBegin DEF Begins
      <3> QED
        BY <2>2, <3>1, Rejected
    <2>3. CASE t = LexerError /\ Reject
      <3>1. saxPos \in Nat \ {0}
        BY <1>1 DEF SaxAt, SaxDepths
      <3>2. doc \notin ValueTexts
        BY <1>1, <1>2, <2>3, <3>1, ErrorIsNone
      <3> QED
        BY <2>3, <3>2, Rejected
    <2>4. CASE stage' = "value" /\ UNCHANGED <<doc, saxPos, frames, events, outcome>>
      <3>1. SaxAt(doc, saxPos, frames, "value")
        <4>1. SaxShape(frames, "value")
          BY <2>1 DEF SaxAt, SaxShape
        <4>2. \A b : SaxReads(doc, saxPos, b, frames, "start") => SaxReads(doc, saxPos, b, frames, "value")
          BY Zenon DEF SaxReads
        <4>3. "start" \notin BeforeValue
          BY DEF BeforeValue
        <4>4. SaxDepths(doc, saxPos, Len(frames), "value")
          BY <2>1, <4>3, DepthsStay DEF SaxAt
        <4> QED
          BY <2>1, <4>1, <4>2, <4>4 DEF SaxAt
      <3> QED
        BY <1>1, <2>4, <3>1, Moved
    <2> QED
      BY <1>4, <2>2, <2>3, <2>4 DEF Start
  <1>5. CASE ParseLeaf
    <2>1. /\ stage = "value" /\ ~PastLimit /\ t.type \in {"string", "scalar"}
          /\ Tell(t, After(frames), frames)
      BY <1>5 DEF ParseLeaf, Parsing
    <2>2. SaxAt(doc, saxPos + 1, frames, After(frames))
      BY <1>1, <1>2, <1>3, <2>1, FromValue
    <2> QED
      BY <1>1, <2>1, <2>2, Told
  <1>6. CASE ParseOpen
    <2>1. /\ stage = "value" /\ ~PastLimit /\ t.type \in {"{", "["}
          /\ Tell(t, "loop", Append(frames, [open |-> t.type, first |-> TRUE]))
      BY <1>6 DEF ParseOpen, Parsing
    <2>2. SaxAt(doc, saxPos + 1, Append(frames, [open |-> t.type, first |-> TRUE]), "loop")
      BY <1>1, <1>2, <1>3, <2>1, FromValue
    <2> QED
      BY <1>1, <2>1, <2>2, Told
  <1>7. CASE NoValue
    <2>1. stage = "value" /\ Reject
      BY <1>7 DEF NoValue, Parsing
    <2>2. PastLimit \/ t.type \notin Starts
      BY <1>7 DEF NoValue, Starts
    <2>3. Len(frames) > MaxSaxDepth <=> PastLimit
      BY DEF PastLimit
    <2>4. doc \notin ValueTexts \/ Deep(doc)
      BY <1>1, <1>2, <2>1, <2>2, <2>3, FromValue
    <2> QED
      BY <2>1, <2>4, Rejected
  <1>8. CASE ParseClose
    <2>1. /\ stage = "loop" /\ t.type = Closing(o)
          /\ Tell(t, After(Front(frames)), Front(frames))
      BY <1>8 DEF ParseClose, Parsing
    <2>2. SaxAt(doc, saxPos + 1, Front(frames), After(Front(frames)))
      BY <1>1, <1>2, <2>1, FromLoop
    <2> QED
      BY <1>1, <2>1, <2>2, Told
  <1>9. CASE ParseComma
    <2>1. stage = "loop" /\ t.type # Closing(o)
      BY <1>9 DEF ParseComma, Parsing
    <2>2. CASE /\ Innermost.first
               /\ stage' = "item"
               /\ frames' = [frames EXCEPT ![Len(frames)].first = FALSE]
               /\ UNCHANGED <<doc, saxPos, events, outcome>>
      <3>1. SaxAt(doc, saxPos, [frames EXCEPT ![Len(frames)].first = FALSE], "item")
        BY <1>1, <1>2, <2>1, <2>2, FromLoop DEF Innermost
      <3>2. SaxAt(doc, saxPos, frames', stage')
        BY <2>2, <3>1
      <3> QED
        BY <1>1, <2>2, <3>2, Moved
    <2>3. CASE ~Innermost.first /\ t.type = "," /\ Advance("item", frames)
      <3>1. SaxAt(doc, saxPos + 1, frames, "item")
        BY <1>1, <1>2, <2>1, <2>3, FromLoop DEF Innermost
      <3> QED
        BY <1>1, <2>3, <3>1, Advanced
    <2>4. CASE ~Innermost.first /\ t.type # "," /\ Reject
      <3>1. doc \notin ValueTexts
        BY <1>1, <1>2, <2>1, <2>4, FromLoop DEF Innermost
      <3> QED
        BY <2>4, <3>1, Rejected
    <2> QED
      BY <1>9, <2>2, <2>3, <2>4 DEF ParseComma
  <1>10. CASE ParseItem
    <2>1. stage = "item"
      BY <1>10 DEF ParseItem, Parsing
    <2>2. CASE t.type = Closing(o) /\ Reject
      <3>1. doc \notin ValueTexts
        BY <1>1, <1>2, <2>1, <2>2, FromItem
      <3> QED
        BY <2>2, <3>1, Rejected
    <2>3. CASE /\ o = "["
               /\ stage' = "value"
               /\ UNCHANGED <<doc, saxPos, frames, events, outcome>>
      <3>1. SaxAt(doc, saxPos, frames, "value")
        BY <1>1, <1>2, <2>1, <2>3, FromItem
      <3> QED
        BY <1>1, <2>3, <3>1, Moved
    <2>4. CASE o = "{" /\ t.type = "string" /\ Tell(Key(CurrentTok.name), "colon", frames)
      <3>1. SaxAt(doc, saxPos + 1, frames, "colon")
        BY <1>1, <1>2, <2>1, <2>4, FromItem
      <3> QED
        BY <1>1, <2>4, <3>1, Told
    <2>5. CASE o = "{" /\ t.type \notin {"string", "}"} /\ Reject
      <3>1. doc \notin ValueTexts
        BY <1>1, <1>2, <2>1, <2>5, FromItem
      <3> QED
        BY <2>5, <3>1, Rejected
    <2> QED
      BY <1>10, <2>2, <2>3, <2>4, <2>5 DEF ParseItem
  <1>11. CASE ParseColon
    <2>1. stage = "colon"
      BY <1>11 DEF ParseColon, Parsing
    <2>2. CASE t.type = ":" /\ Advance("value", frames)
      <3>1. SaxAt(doc, saxPos + 1, frames, "value")
        BY <1>1, <1>2, <2>1, <2>2, FromColon
      <3> QED
        BY <1>1, <2>2, <3>1, Advanced
    <2>3. CASE t.type # ":" /\ Reject
      <3>1. doc \notin ValueTexts
        BY <1>1, <1>2, <2>1, <2>3, FromColon
      <3> QED
        BY <2>3, <3>1, Rejected
    <2> QED
      BY <1>11, <2>2, <2>3 DEF ParseColon
  <1>12. CASE SaxFinish
    <2>1. stage = "top"
      BY <1>12 DEF SaxFinish, Parsing
    <2>2. PICK b \in Seq(Stackable) : Frames(b, frames) /\ SaxReads(doc, saxPos, b, frames, "top")
      BY <1>1, <2>1 DEF SaxAt
    <2>3. frames = <<>>
      BY <1>1, <2>1 DEF SaxAt, SaxShape
    <2>4. b = <<>> /\ Reading(doc, saxPos, b)
      BY <2>2, <2>3, FramesNone DEF SaxReads
    <2>5. Reading(doc, saxPos, <<>>)
      BY <2>4
    <2>6. doc \in ValueTexts <=> saxPos = Len(doc) + 1
      BY <2>5, ReadingDone
    <2>7. saxPos \in 1 .. Len(doc) + 1 /\ Len(doc) \in Nat
      <3>1. PICK done \in Word, rest \in AnyWord : doc = done \o rest /\ saxPos = Len(done) + 1
        BY <2>5 DEF Reading
      <3> QED
        BY <3>1, ReadingAt
    <2>8. CASE t = EndOfFile /\ outcome' = "accepted" /\ doc' = doc
      <3>1. ~ (saxPos \in 1 .. Len(doc))
        <4> SUFFICES ASSUME saxPos \in 1 .. Len(doc) PROVE FALSE
          OBVIOUS
        <4>1. doc[saxPos] = EndOfFile
          BY <1>2, <2>8 DEF At
        <4>2. doc[saxPos] \in AnyToken
          BY <1>1, DocumentIsWord DEF AnyWord
        <4>3. "eof" \in Punctuation \cup {"string", "scalar", "error"}
          BY <4>1, <4>2, TokenFacts
        <4> QED
          BY <4>3 DEF Punctuation
      <3>2. saxPos = Len(doc) + 1
        BY <2>7, <3>1
      <3>3. \A i \in 1 .. Len(doc) : Shallow(doc, i)
        <4>1. "top" \notin BeforeValue /\ saxPos - 1 = Len(doc)
          BY <2>7, <3>2 DEF BeforeValue
        <4>2. SaxDepths(doc, saxPos, Len(frames), "top")
          BY <1>1, <2>1 DEF SaxAt
        <4> QED
          BY <4>1, <4>2 DEF SaxDepths
      <3> QED
        BY <1>1, <2>6, <2>8, <3>2, <3>3 DEF SaxInv, Deep
    <2>9. CASE t # EndOfFile /\ Reject
      <3>1. saxPos # Len(doc) + 1
        BY <1>2, <2>7, <2>9 DEF At
      <3> QED
        BY <2>6, <2>9, <3>1, Rejected
    <2> QED
      BY <1>12, <2>8, <2>9 DEF SaxFinish
  <1> QED
    BY <1>4, <1>5, <1>6, <1>7, <1>8, <1>9, <1>10, <1>11, <1>12 DEF SaxNext

(* The other parser does not change the text.                              *)
LEMMA ParserKeepsText ==
  ASSUME ParserNext
  PROVE  doc' = doc
  BY DEF ParserNext, ParserStep, Match, ExpandJson, ExpandValue, ExpandObject, ExpandArray, ExpandMembers,
         ExpandNextMember, ExpandPair, ExpandElements, ExpandNextElement, ExpandNext, Open, Close, Expand, Push,
         Raise, Finish

(* And so always.                                                          *)
LEMMA SaxAlways ==
  ReadersSpec => []SaxInv
  <1>1. ReadersInit => SaxInv
    BY SaxAtFirst DEF ReadersInit, ParserInit
  <1>2. SaxInv /\ [ReadersNext]_readersVars => SaxInv'
    <2> SUFFICES ASSUME SaxInv, [ReadersNext]_readersVars PROVE SaxInv'
      OBVIOUS
    <2>1. CASE SaxNext
      BY <2>1, SaxKept
    <2>2. CASE UNCHANGED <<doc, saxPos, frames, stage, outcome>>
      BY <2>2 DEF SaxInv
    <2>3. ParserNext => doc' = doc
      BY ParserKeepsText
    <2> QED
      BY <2>1, <2>2, <2>3 DEF ReadersNext, readersVars, saxVars
  <1> QED
    BY <1>1, <1>2, PTL DEF ReadersSpec

\* The event parser accepts no text but values that are not too deep, and
\* rejects none of them.
SaxParsesValues ==
  /\ outcome = "accepted" => doc \in ValueTexts /\ ~TooDeep
  /\ outcome = "rejected" => doc \notin ValueTexts \/ TooDeep

(* Whatever the text, its size and the limits: what the event parser       *)
(* accepts is a value of the grammar and nowhere too deep, and what it     *)
(* rejects is not.                                                         *)
THEOREM SaxReadsTheGrammar ==
  ReadersSpec => []SaxParsesValues
  <1>1. SaxInv => SaxParsesValues
    BY TooDeepIs DEF SaxInv, SaxParsesValues
  <1> QED
    BY <1>1, SaxAlways, PTL

(* The verdict a run checks, for any documents and limits.                 *)
THEOREM SaxVerdictIsRight ==
  ASSUME MeaningsComplete
  PROVE  ReadersSpec => []SaxVerdict
  <1>1. SaxInv /\ SaxParsesValues => SaxVerdict
    BY TextsMeant DEF SaxInv, SaxParsesValues, SaxVerdict
  <1> QED
    BY <1>1, SaxAlways, SaxReadsTheGrammar, PTL

---------------------------------------------------------------------------
(* What the host is told.                                                  *)

(* One element more of a sequence, or not.                                 *)
LEMMA GatherFacts ==
  ASSUME NEW S, NEW s \in Seq(S), NEW kept
  PROVE  /\ Gather(s, kept)[0] = <<>>
         /\ \A i \in 1 .. Len(s) : Gather(s, kept)[i] = IF i \in kept THEN Append(Gather(s, kept)[i - 1], s[i])
                                                        ELSE Gather(s, kept)[i - 1]
         /\ \A i \in 0 .. Len(s) : Gather(s, kept)[i] \in Seq(S)
  <1> DEFINE n == Len(s)
             Is(f) == f = [i \in 0 .. n |-> IF i = 0 THEN <<>> ELSE IF i \in kept THEN Append(f[i - 1], s[i]) ELSE f[i - 1]]
             up   == [i \in 1 .. n |-> i - 1]
             val  == [i \in 0 .. n |-> <<>>]
             More(i, e) == IF i # 0 /\ i \in kept THEN Append(e, s[i]) ELSE e
             step == [i \in 0 .. n |-> [e \in Seq(S) |-> More(i, e)]]
  <1>0. n \in Nat
    OBVIOUS
  <1>1. ASSUME NEW i \in 0 .. n, NEW e \in Seq(S) PROVE More(i, e) \in Seq(S)
    <2>1. CASE i # 0 /\ i \in kept
      <3>1. s[i] \in S
        BY <2>1
      <3> QED
        BY <2>1, <3>1, AppendFacts
    <2>2. CASE ~ (i # 0 /\ i \in kept)
      BY <2>2
    <2> QED
      BY <2>1, <2>2
  <1> HIDE DEF More
  <1>2. /\ 0 \in {0}
        /\ \A i \in 1 .. n : i \notin {0} => up[i] \in 0 .. i - 1
        /\ \A i \in 0 .. n : i \in {0} => val[i] \in Seq(S)
        /\ \A i \in 0 .. n : step[i] \in [Seq(S) -> Seq(S)]
    <2>1. \A i \in 0 .. n : step[i] \in [Seq(S) -> Seq(S)]
      BY <1>1
    <2> QED
      BY <2>1
  <1>3. PICK f : Recursion(f, n, {0}, val, up, step) /\ f \in [0 .. n -> Seq(S)]
    <2> HIDE DEF up, val, step, n
    <2> QED
      BY <1>0, <1>2, RecursionExists
  <1>4. Is(f)
    <2>1. ASSUME NEW i \in 0 .. n
          PROVE  f[i] = IF i = 0 THEN <<>> ELSE IF i \in kept THEN Append(f[i - 1], s[i]) ELSE f[i - 1]
      <3>1. f[i] = IF i \in {0} THEN val[i] ELSE step[i][f[up[i]]]
        <4> HIDE DEF up, val, step, n
        <4> QED
          BY <1>3 DEF Recursion
      <3>2. ASSUME i # 0 PROVE up[i] = i - 1 /\ f[i - 1] \in Seq(S)
        <4>1. i \in 1 .. n /\ i - 1 \in 0 .. n
          BY <3>2
        <4> QED
          BY <1>3, <4>1
      <3>3. ASSUME i # 0 PROVE f[i] = More(i, f[i - 1])
        <4>1. f[i] = step[i][f[i - 1]]
          BY <3>1, <3>2, <3>3
        <4>2. f[i - 1] \in Seq(S)
          BY <3>2, <3>3
        <4> HIDE DEF n
        <4>3. step[i][f[i - 1]] = More(i, f[i - 1])
          BY <4>2
        <4> QED
          BY <4>1, <4>3
      <3> QED
        BY <3>1, <3>3 DEF More
    <2>2. f = [i \in 0 .. n |-> f[i]]
      BY <1>3, SMTT(30)
    <2> QED
      BY <2>1, <2>2
  <1> DEFINE g == Gather(s, kept)
  <1>5. Is(g)
    <2>1. g = CHOOSE h : Is(h)
      BY DEF Gather
    <2>2. Is(CHOOSE h : Is(h))
      <3> HIDE DEF Is
      <3> QED
        BY <1>4
    <2> QED
      BY <2>1, <2>2
  <1> HIDE DEF g
  <1>6. /\ g[0] = <<>>
        /\ \A i \in 1 .. n : g[i] = IF i \in kept THEN Append(g[i - 1], s[i]) ELSE g[i - 1]
    <2>1. \A i \in 0 .. n : g[i] = IF i = 0 THEN <<>> ELSE IF i \in kept THEN Append(g[i - 1], s[i]) ELSE g[i - 1]
      BY <1>5
    <2>2. 0 \in 0 .. n /\ \A i \in 1 .. n : i \in 0 .. n /\ i # 0
      BY <1>0
    <2> HIDE DEF n
    <2> QED
      BY <2>1, <2>2
  <1>7. \A i \in 0 .. n : g[i] \in Seq(S)
    <2> DEFINE T == {i \in 0 .. n : g[i] \notin Seq(S)}
    <2> SUFFICES ASSUME T # {} PROVE FALSE
      OBVIOUS
    <2>1. PICK i \in T : \A j \in T : i <= j
      <3>1. T \subseteq Nat
        OBVIOUS
      <3> HIDE DEF T
      <3> QED
        BY <3>1, LeastNat
    <2>2. i \in 0 .. n /\ g[i] \notin Seq(S)
      BY <2>1
    <2>3. i # 0
      <3>1. <<>> \in Seq(S)
        OBVIOUS
      <3>2. g[0] \in Seq(S)
        BY <1>6, <3>1
      <3> QED
        BY <2>2, <3>2
    <2>4. i - 1 \in 0 .. n /\ i - 1 \notin T
      <3>1. i - 1 \in 0 .. n /\ i - 1 < i
        BY <2>2, <2>3
      <3> HIDE DEF T
      <3> QED
        BY <2>1, <2>2, <3>1
    <2>5. g[i - 1] \in Seq(S)
      BY <2>4
    <2>6. g[i] = More(i, g[i - 1])
      BY <1>6, <2>2, <2>3 DEF More
    <2> QED
      BY <1>1, <2>2, <2>5, <2>6
  <1> QED
    BY <1>6, <1>7 DEF g

(* What was gathered of fewer elements is a prefix.                        *)
LEMMA GatherGrows ==
  ASSUME NEW S, NEW s \in Seq(S), NEW kept, NEW k \in 0 .. Len(s), NEW n \in k .. Len(s)
  PROVE  IsPrefix(Gather(s, kept)[k], Gather(s, kept)[n])
  <1> DEFINE g == Gather(s, kept)
             Begun(j) == Len(g[k]) <= Len(g[j]) /\ \A m \in 1 .. Len(g[k]) : g[j][m] = g[k][m]
             T == {j \in k .. n : ~Begun(j)}
  <1>1. /\ \A i \in 1 .. Len(s) : g[i] = IF i \in kept THEN Append(g[i - 1], s[i]) ELSE g[i - 1]
        /\ \A i \in 0 .. Len(s) : g[i] \in Seq(S)
    BY GatherFacts
  <1>2. Len(s) \in Nat /\ k \in Nat /\ n \in Nat /\ k <= n /\ n <= Len(s)
    OBVIOUS
  <1> HIDE DEF g
  <1>3. T = {}
    <2> SUFFICES ASSUME T # {} PROVE FALSE
      OBVIOUS
    <2>1. PICK j \in T : \A i \in T : j <= i
      <3>1. T \subseteq Nat
        BY <1>2
      <3> HIDE DEF T
      <3> QED
        BY <3>1, LeastNat
    <2>2. j \in k .. n /\ ~Begun(j)
      BY <2>1
    <2>3. j # k
      <3>1. k \in 0 .. Len(s)
        OBVIOUS
      <3>2. g[k] \in Seq(S)
        BY <1>1, <3>1
      <3>3. Len(g[k]) \in Nat
        BY <3>2
      <3>4. Begun(k)
        BY <3>3
      <3> QED
        BY <2>2, <3>4
    <2>4. j - 1 \in k .. n /\ j - 1 \notin T
      <3>1. j - 1 \in k .. n /\ j - 1 < j
        BY <1>2, <2>2, <2>3
      <3> HIDE DEF T
      <3> QED
        BY <2>1, <2>2, <3>1
    <2>5. Begun(j - 1)
      BY <2>4
    <2>6. j \in 1 .. Len(s) /\ j - 1 \in 0 .. Len(s)
      BY <1>2, <2>2, <2>4
    <2>7. g[j] = (IF j \in kept THEN Append(g[j - 1], s[j]) ELSE g[j - 1]) /\ g[j - 1] \in Seq(S) /\ s[j] \in S
      BY <1>1, <2>6
    <2>8. Begun(j)
      <3>1. CASE j \in kept
        <4> DEFINE a == g[j - 1]  e == Append(a, s[j])
        <4>1. Len(a) \in Nat /\ Len(e) = Len(a) + 1 /\ \A m \in 1 .. Len(a) : e[m] = a[m]
          BY <2>7, AppendFacts
        <4>2. g[j] = e
          BY <2>7, <3>1
        <4>3. Len(g[k]) \in Nat
          BY <1>1
        <4> HIDE DEF e, a
        <4>4. Len(g[k]) <= Len(a) /\ \A m \in 1 .. Len(g[k]) : a[m] = g[k][m]
          BY <2>5 DEF a
        <4>5. \A m \in 1 .. Len(g[k]) : m \in 1 .. Len(a)
          BY <4>1, <4>3, <4>4
        <4>6. Len(g[k]) <= Len(e) /\ \A m \in 1 .. Len(g[k]) : e[m] = g[k][m]
          BY <4>1, <4>3, <4>4, <4>5
        <4> QED
          BY <4>2, <4>6
      <3>2. CASE j \notin kept
        BY <2>5, <2>7, <3>2
      <3> QED
        BY <3>1, <3>2
    <2> QED
      BY <2>2, <2>8
  <1>4. Begun(n)
    <2>1. n \in k .. n
      BY <1>2
    <2> QED
      BY <1>3, <2>1
  <1> DEFINE a == g[k]  b == g[n]
  <1>5. a \in Seq(S) /\ b \in Seq(S)
    BY <1>1, <1>2
  <1> HIDE DEF a, b
  <1>6. Len(a) <= Len(b) /\ \A m \in 1 .. Len(a) : b[m] = a[m]
    BY <1>4 DEF a, b
  <1>7. SubSeq(a, 1, Len(a)) = SubSeq(b, 1, Len(a))
    <2>1. Len(a) \in Nat /\ Len(b) \in Nat
      BY <1>5
    <2>2. SubSeq(a, 1, Len(a)) = [i \in 1 .. Len(a) |-> a[i]] /\ SubSeq(b, 1, Len(a)) = [i \in 1 .. Len(a) |-> b[i]]
      BY <1>5, <1>6, <2>1
    <2> QED
      BY <1>6, <2>2
  <1>8. IsPrefix(a, b)
    BY <1>6, <1>7 DEF IsPrefix
  <1> QED
    BY <1>8 DEF a, b, g

---------------------------------------------------------------------------
Separators == {",", ":"}

(* What there is to tell, token by token.                                  *)
LEMMA EventsUnfold ==
  ASSUME NEW text \in AnyWord
  PROVE  /\ EventsUpto(text)[0] = <<>>
         /\ \A i \in 1 .. Len(text) :
              /\ text[i].type \in Separators => EventsUpto(text)[i] = EventsUpto(text)[i - 1]
              /\ text[i].type \notin Separators =>
                   EventsUpto(text)[i] = Append(EventsUpto(text)[i - 1], EventAt(text, i))
         /\ \A k \in 0 .. Len(text) : IsPrefix(EventsUpto(text)[k], EventsOf(text))
  <1> DEFINE n == Len(text)
             s == [i \in 1 .. n |-> EventAt(text, i)]
             S == {EventAt(text, i) : i \in 1 .. n}
             kept == {i \in 1 .. n : text[i].type \notin Separators}
             g == Gather(s, kept)
  <1>1. EventsUpto(text) = g
    BY DEF EventsUpto, Separators
  <1>2. n \in Nat
    BY DEF AnyWord
  <1>3. s \in Seq(S) /\ Len(s) = n
    <2>1. s \in [1 .. n -> S]
      OBVIOUS
    <2> HIDE DEF s, S
    <2> QED
      BY <1>2, <2>1
  <1>4. \A i \in 1 .. n : s[i] = EventAt(text, i) /\ (i \in kept <=> text[i].type \notin Separators)
    OBVIOUS
  <1> HIDE DEF s, S, kept
  <1>5. /\ g[0] = <<>>
        /\ \A i \in 1 .. Len(s) : g[i] = IF i \in kept THEN Append(g[i - 1], s[i]) ELSE g[i - 1]
    BY <1>3, GatherFacts
  <1>6. ASSUME NEW k \in 0 .. n PROVE IsPrefix(g[k], g[n])
    <2>1. n \in k .. Len(s) /\ k \in 0 .. Len(s)
      BY <1>2, <1>3
    <2> QED
      BY <1>3, <2>1, GatherGrows
  <1>7. EventsOf(text) = g[n]
    BY <1>1 DEF EventsOf
  <1> HIDE DEF g, n
  <1> QED
    BY <1>1, <1>3, <1>4, <1>5, <1>6, <1>7 DEF n

\* The host has heard of the first tokens, and while the parser goes on, of
\* all tokens before the current one.
ToldUpto(k) ==
  /\ k \in 0 .. Len(doc)
  /\ events = EventsUpto(doc)[k]
  /\ outcome = "parsing" => k = saxPos - 1
  /\ outcome = "accepted" => k = Len(doc)

ToldInv == doc \in ValueTexts => \E k \in 0 .. Len(doc) : ToldUpto(k)

(* The current token is one of the text when it is no end of file.         *)
LEMMA SaxCurrent ==
  ASSUME SaxInv, outcome = "parsing", CurrentTok.type # "eof"
  PROVE  /\ CurrentTok = At(doc, saxPos) /\ doc[saxPos] = CurrentTok
         /\ saxPos \in 1 .. Len(doc) /\ saxPos \in Nat \ {0} /\ Len(doc) \in Nat /\ doc \in AnyWord
  <1>1. CurrentTok = At(doc, saxPos)
    BY DEF CurrentTok, TokenAt, At
  <1>2. saxPos <= Len(doc) /\ doc[saxPos] = CurrentTok
    BY <1>1, AtToken
  <1>3. saxPos \in Nat \ {0}
    BY DEF SaxInv, SaxAt, SaxDepths
  <1>4. doc \in AnyWord /\ Len(doc) \in Nat
    BY DocumentIsWord, WordFacts DEF SaxInv
  <1> QED
    BY <1>1, <1>2, <1>3, <1>4

(* An advance goes one token on, or finds a lexer error.                   *)
LEMMA AdvanceFacts ==
  ASSUME NEW next, NEW open, Advance(next, open), outcome = "parsing"
  PROVE  doc' = doc /\ saxPos' = saxPos + 1 /\ outcome' \in {"parsing", "rejected"}
  BY DEF Advance

(* The host hears of the current token.                                    *)
LEMMA ToldMore ==
  ASSUME SaxInv, ToldInv, outcome = "parsing", NEW event, NEW next, NEW open, Tell(event, next, open),
         CurrentTok.type \notin Separators \cup {"eof"},
         doc \in ValueTexts => event = EventAt(doc, saxPos)
  PROVE  ToldInv'
  <1>1. doc' = doc /\ events' = Append(events, event)
        /\ (outcome' = "refused" \/ (saxPos' = saxPos + 1 /\ outcome' \in {"parsing", "rejected"}))
    BY AdvanceFacts DEF Tell
  <1> SUFFICES ASSUME doc \in ValueTexts PROVE \E k \in 0 .. Len(doc) : ToldUpto(k)'
    BY <1>1 DEF ToldInv
  <1>2. /\ doc[saxPos] = CurrentTok /\ saxPos \in 1 .. Len(doc) /\ saxPos \in Nat \ {0}
        /\ Len(doc) \in Nat /\ doc \in AnyWord
    BY SaxCurrent
  <1>3. PICK k \in 0 .. Len(doc) : ToldUpto(k)
    BY DEF ToldInv
  <1>4. events = EventsUpto(doc)[saxPos - 1]
    BY <1>3 DEF ToldUpto
  <1>5. EventsUpto(doc)[saxPos] = Append(EventsUpto(doc)[saxPos - 1], EventAt(doc, saxPos))
    BY <1>2, EventsUnfold
  <1>6. events' = EventsUpto(doc)[saxPos]
    BY <1>1, <1>4, <1>5
  <1>7. PICK p \in 0 .. Len(doc) : p = saxPos /\ saxPos + 1 - 1 = p
    BY <1>2
  <1>8. ToldUpto(p)'
    BY <1>1, <1>6, <1>7 DEF ToldUpto
  <1> QED
    BY <1>7, <1>8

(* There is nothing to tell of the current token.                          *)
LEMMA ToldNothing ==
  ASSUME SaxInv, ToldInv, outcome = "parsing", NEW next, NEW open, Advance(next, open), events' = events,
         CurrentTok.type \in Separators
  PROVE  ToldInv'
  <1>1. doc' = doc /\ saxPos' = saxPos + 1 /\ outcome' \in {"parsing", "rejected"}
    BY AdvanceFacts
  <1> SUFFICES ASSUME doc \in ValueTexts PROVE \E k \in 0 .. Len(doc) : ToldUpto(k)'
    BY <1>1 DEF ToldInv
  <1>2. CurrentTok.type # "eof"
    BY DEF Separators
  <1>3. /\ doc[saxPos] = CurrentTok /\ saxPos \in 1 .. Len(doc) /\ saxPos \in Nat \ {0}
        /\ Len(doc) \in Nat /\ doc \in AnyWord
    BY <1>2, SaxCurrent
  <1>4. PICK k \in 0 .. Len(doc) : ToldUpto(k)
    BY DEF ToldInv
  <1>5. events = EventsUpto(doc)[saxPos - 1]
    BY <1>4 DEF ToldUpto
  <1>6. events' = EventsUpto(doc)[saxPos]
    BY <1>3, <1>5, EventsUnfold
  <1>7. PICK p \in 0 .. Len(doc) : p = saxPos /\ saxPos + 1 - 1 = p
    BY <1>3
  <1>8. ToldUpto(p)'
    BY <1>1, <1>6, <1>7 DEF ToldUpto
  <1> QED
    BY <1>7, <1>8

(* Nothing is told, and the parser stays where it is or gives up.          *)
LEMMA ToldSame ==
  ASSUME ToldInv, outcome = "parsing", doc' = doc, saxPos' = saxPos, events' = events,
         outcome' \in {"parsing", "rejected"}
  PROVE  ToldInv'
  <1>1. \A k : ToldUpto(k) => ToldUpto(k)'
    BY DEF ToldUpto
  <1> QED
    BY <1>1 DEF ToldInv

(* After a leaf there is no colon in a text of the grammar.                *)
LEMMA NoColonAfter ==
  ASSUME NEW text \in ValueTexts, NEW p, NEW fr, SaxAt(text, p, fr, After(fr)),
         fr # <<>> => ~Last(fr).first
  PROVE  At(text, p).type # ":"
  <1>1. CASE fr = <<>>
    <2>1. After(fr) = "top"
      BY <1>1 DEF After
    <2>2. PICK b \in Seq(Stackable) : Frames(b, fr) /\ SaxReads(text, p, b, fr, "top")
      BY <2>1 DEF SaxAt
    <2>3. b = <<>> /\ Reading(text, p, b)
      BY <1>1, <2>2, FramesNone DEF SaxReads
    <2>4. p = Len(text) + 1
      BY <2>3, ReadingDone
    <2>5. Len(text) \in Nat
      BY WordFacts DEF ValueTexts
    <2>6. At(text, p) = EndOfFile
      BY <2>4, <2>5 DEF At
    <2> QED
      BY <2>6, TokenFacts
  <1>2. CASE fr # <<>>
    <2>1. After(fr) = "loop" /\ SaxAt(text, p, fr, "loop")
      BY <1>2 DEF After
    <2>2. fr \in Seq(Frame)
      BY <2>1 DEF SaxAt, SaxShape
    <2> DEFINE o == Last(fr).open
    <2>3. Last(fr) \in Frame
      BY <1>2, <2>2, FrontFacts
    <2>4. o \in {"{", "["}
      BY <2>3, Zenon DEF Frame, Openers
    <2>5. ":" \notin {",", Closing(o)}
      BY <2>4 DEF Closing
    <2>6. ~Last(fr).first
      BY <1>2
    <2>7. At(text, p).type \notin {",", Closing(o)} => text \notin ValueTexts
      BY <2>1, <2>6, FromLoop
    <2> QED
      BY <2>5, <2>7
  <1> QED
    BY <1>1, <1>2

---------------------------------------------------------------------------
(* What the host hears at a leaf, a bracket and a key is what there is to  *)
(* tell of them.                                                           *)
LEMMA LeafTold ==
  ASSUME SaxInv, ToldInv, ParseLeaf
  PROVE  ToldInv'
  <1> DEFINE t == CurrentTok
  <1>1. /\ outcome = "parsing" /\ stage = "value" /\ ~PastLimit /\ t.type \in {"string", "scalar"}
        /\ Tell(t, After(frames), frames)
    BY DEF ParseLeaf, Parsing
  <1>2. SaxAt(doc, saxPos, frames, "value")
    BY <1>1 DEF SaxInv
  <1>3. t.type \notin Separators \cup {"eof"}
    BY <1>1 DEF Separators
  <1>4. t = At(doc, saxPos) /\ doc[saxPos] = t /\ saxPos \in 1 .. Len(doc) /\ Len(doc) \in Nat
    BY <1>1, <1>3, SaxCurrent
  <1>5. Len(frames) <= MaxSaxDepth
    <2>1. Len(frames) \in Int /\ MaxSaxDepth \in Int
      BY <1>2, SaxAssumption DEF SaxAt, SaxDepths
    <2> QED
      BY <1>1, <2>1 DEF PastLimit
  <1>6. SaxAt(doc, saxPos + 1, frames, After(frames))
    BY <1>1, <1>2, <1>4, <1>5, FromValue
  <1>7. frames \in Seq(Frame) /\ (frames # <<>> => ~Last(frames).first)
    <2>1. frames \in Seq(Frame) /\ Past(frames)
      BY <1>2 DEF SaxAt, SaxShape
    <2> QED
      BY <2>1, PastFacts
  <1>8. ASSUME doc \in ValueTexts PROVE t = EventAt(doc, saxPos)
    <2>1. At(doc, saxPos + 1).type # ":"
      BY <1>6, <1>7, <1>8, NoColonAfter
    <2>2. saxPos < Len(doc) => doc[saxPos + 1].type # ":"
      <3>1. saxPos < Len(doc) => saxPos + 1 <= Len(doc)
        BY <1>4
      <3> QED
        BY <2>1, <3>1 DEF At
    <2> QED
      BY <1>4, <2>2 DEF EventAt
  <1> HIDE DEF t
  <1> QED
    BY <1>1, <1>3, <1>8, ToldMore DEF t

(* A bracket is told as it is.                                             *)
LEMMA BracketTold ==
  ASSUME SaxInv, ToldInv, outcome = "parsing", CurrentTok.type \in {"{", "[", "}", "]"},
         NEW next, NEW open, Tell(CurrentTok, next, open)
  PROVE  ToldInv'
  <1>1. CurrentTok.type \notin Separators \cup {"eof"} /\ CurrentTok.type # "string"
    BY DEF Separators
  <1>2. doc[saxPos] = CurrentTok
    BY <1>1, SaxCurrent
  <1>3. EventAt(doc, saxPos) = CurrentTok
    BY <1>1, <1>2 DEF EventAt
  <1> QED
    BY <1>1, <1>3, ToldMore

(* In a text of the grammar a key is before a colon.                       *)
LEMMA KeyTold ==
  ASSUME SaxInv, ToldInv, outcome = "parsing", SaxAt(doc, saxPos + 1, frames, "colon"),
         CurrentTok.type = "string", Tell(Key(CurrentTok.name), "colon", frames)
  PROVE  ToldInv'
  <1>1. CurrentTok.type \notin Separators \cup {"eof"}
    BY DEF Separators
  <1>2. doc[saxPos] = CurrentTok /\ saxPos \in 1 .. Len(doc) /\ Len(doc) \in Nat
    BY <1>1, SaxCurrent
  <1>3. ASSUME doc \in ValueTexts PROVE Key(CurrentTok.name) = EventAt(doc, saxPos)
    <2>1. At(doc, saxPos + 1).type = ":"
      BY <1>3, FromColon
    <2>2. At(doc, saxPos + 1).type # "eof"
      BY <2>1
    <2>3. saxPos + 1 <= Len(doc) /\ doc[saxPos + 1].type = ":"
      BY <2>1, <2>2, AtToken
    <2>4. saxPos < Len(doc)
      BY <1>2, <2>3
    <2> QED
      BY <1>2, <2>3, <2>4 DEF EventAt
  <1> QED
    BY <1>1, <1>3, ToldMore

(* At the end all was told.                                                *)
LEMMA EndTold ==
  ASSUME SaxInv, ToldInv, SaxFinish
  PROVE  ToldInv'
  <1>1. /\ outcome = "parsing" /\ stage = "top" /\ doc' = doc /\ saxPos' = saxPos /\ events' = events
        /\ outcome' \in {"accepted", "rejected"}
    BY DEF SaxFinish, Parsing, Reject
  <1> SUFFICES ASSUME doc \in ValueTexts PROVE \E k \in 0 .. Len(doc) : ToldUpto(k)'
    BY <1>1 DEF ToldInv
  <1>2. PICK k \in 0 .. Len(doc) : ToldUpto(k)
    BY DEF ToldInv
  <1>3. SaxAt(doc, saxPos, frames, "top")
    BY <1>1 DEF SaxInv
  <1>4. frames = <<>>
    BY <1>3 DEF SaxAt, SaxShape
  <1>5. PICK b \in Seq(Stackable) : Frames(b, frames) /\ SaxReads(doc, saxPos, b, frames, "top")
    BY <1>3 DEF SaxAt
  <1>6. b = <<>> /\ Reading(doc, saxPos, b)
    BY <1>4, <1>5, FramesNone DEF SaxReads
  <1>7. saxPos = Len(doc) + 1
    BY <1>6, ReadingDone
  <1>8. Len(doc) \in Nat
    BY DocumentIsWord, WordFacts DEF SaxInv
  <1>9. k = Len(doc)
    BY <1>1, <1>2, <1>7, <1>8 DEF ToldUpto
  <1>10. ToldUpto(k)'
    BY <1>1, <1>2, <1>9 DEF ToldUpto
  <1> QED
    BY <1>1, <1>10

(* After any of its steps the host has heard of all that was read.         *)
LEMMA ToldKept ==
  ASSUME SaxInv, ToldInv, SaxNext
  PROVE  ToldInv'
  <1> DEFINE t == CurrentTok  o == Innermost.open
  <1>1. outcome = "parsing" /\ SaxAt(doc, saxPos, frames, stage)
    BY DEF SaxNext, SaxInv, Start, ParseLeaf, ParseOpen, NoValue, ParseClose, ParseComma, ParseItem, ParseColon,
           SaxFinish, Parsing
  <1>2. Reject => ToldInv'
    BY <1>1, ToldSame DEF Reject
  <1>3. CASE Start
    <2>1. CASE UNCHANGED <<doc, saxPos, frames, events, outcome>>
      BY <1>1, <2>1, ToldSame
    <2> QED
      BY <1>2, <1>3, <2>1 DEF Start
  <1>4. CASE ParseLeaf
    BY <1>4, LeafTold
  <1>5. CASE ParseOpen
    BY <1>1, <1>5, BracketTold DEF ParseOpen
  <1>6. CASE NoValue
    BY <1>2, <1>6 DEF NoValue
  <1>7. CASE ParseClose
    <2>1. CurrentTok.type = Closing(o) /\ Tell(CurrentTok, After(Front(frames)), Front(frames))
      BY <1>7 DEF ParseClose
    <2>2. Closing(o) \in {"{", "[", "}", "]"}
      BY DEF Closing
    <2> QED
      BY <1>1, <2>1, <2>2, BracketTold
  <1>8. CASE ParseComma
    <2>1. CASE UNCHANGED <<doc, saxPos, events, outcome>>
      BY <1>1, <2>1, ToldSame
    <2>2. CASE t.type = "," /\ Advance("item", frames) /\ events' = events
      <3>1. t.type \in Separators
        BY <2>2 DEF Separators
      <3> QED
        BY <1>1, <2>2, <3>1, ToldNothing
    <2> QED
      BY <1>2, <1>8, <2>1, <2>2 DEF ParseComma
  <1>9. CASE ParseItem
    <2>1. CASE UNCHANGED <<doc, saxPos, frames, events, outcome>>
      BY <1>1, <2>1, ToldSame
    <2>2. CASE o = "{" /\ t.type = "string" /\ Tell(Key(CurrentTok.name), "colon", frames)
      <3>1. stage = "item"
        BY <1>9 DEF ParseItem, Parsing
      <3>2. t = At(doc, saxPos) /\ o = Last(frames).open
        BY DEF CurrentTok, TokenAt, At, Innermost
      <3>3. SaxAt(doc, saxPos + 1, frames, "colon")
        BY <1>1, <2>2, <3>1, <3>2, FromItem
      <3> QED
        BY <1>1, <2>2, <3>3, KeyTold
    <2> QED
      BY <1>2, <1>9, <2>1, <2>2 DEF ParseItem
  <1>10. CASE ParseColon
    <2>1. CASE t.type = ":" /\ Advance("value", frames) /\ events' = events
      <3>1. t.type \in Separators
        BY <2>1 DEF Separators
      <3> QED
        BY <1>1, <2>1, <3>1, ToldNothing
    <2> QED
      BY <1>2, <1>10, <2>1 DEF ParseColon
  <1>11. CASE SaxFinish
    BY <1>11, EndTold
  <1> QED
    BY <1>3, <1>4, <1>5, <1>6, <1>7, <1>8, <1>9, <1>10, <1>11 DEF SaxNext

(* And so always.                                                          *)
LEMMA ToldAlways ==
  ReadersSpec => []ToldInv
  <1>1. ReadersInit => ToldInv
    <2> SUFFICES ASSUME ReadersInit PROVE ToldInv
      OBVIOUS
    <2>1. doc \in Document /\ saxPos = 1 /\ events = <<>> /\ outcome = "parsing"
      BY DEF ReadersInit, ParserInit, SaxReady
    <2>2. doc \in AnyWord /\ Len(doc) \in Nat
      BY <2>1, DocumentIsWord, WordFacts
    <2>3. 0 \in 0 .. Len(doc) /\ 1 - 1 = 0
      BY <2>2
    <2>4. ToldUpto(0)
      BY <2>1, <2>2, <2>3, EventsUnfold DEF ToldUpto
    <2> QED
      BY <2>3, <2>4 DEF ToldInv
  <1>2. SaxInv /\ ToldInv /\ [ReadersNext]_readersVars => ToldInv'
    <2> SUFFICES ASSUME SaxInv, ToldInv, [ReadersNext]_readersVars PROVE ToldInv'
      OBVIOUS
    <2>1. CASE SaxNext
      BY <2>1, ToldKept
    <2>2. CASE UNCHANGED <<doc, saxPos, events, outcome>>
      <3>1. \A k : ToldUpto(k) => ToldUpto(k)'
        BY <2>2 DEF ToldUpto
      <3> QED
        BY <2>2, <3>1 DEF ToldInv
    <2>3. ParserNext => doc' = doc
      BY ParserKeepsText
    <2> QED
      BY <2>1, <2>2, <2>3 DEF ReadersNext, readersVars, saxVars
  <1> QED
    BY <1>1, <1>2, SaxAlways, PTL DEF ReadersSpec

(* The order of events a run checks, for any documents and limits: of a    *)
(* text of the grammar the host hears each token once and in order, with   *)
(* keys told from strings, and of all of an accepted one.                  *)
THEOREM EventsComeInOrder ==
  ASSUME MeaningsComplete
  PROVE  ReadersSpec => []EventsTold
  <1>1. SaxInv /\ ToldInv => EventsTold
    <2> SUFFICES ASSUME SaxInv, ToldInv PROVE EventsTold
      OBVIOUS
    <2>1. doc \in Document /\ doc \in AnyWord
      BY DocumentIsWord DEF SaxInv
    <2>2. doc \in Texts => doc \in ValueTexts
      BY <2>1, TextsMeant
    <2>3. ASSUME doc \in ValueTexts PROVE IsPrefix(events, EventsOf(doc))
      <3>1. PICK k \in 0 .. Len(doc) : ToldUpto(k)
        BY <2>3 DEF ToldInv
      <3> QED
        BY <2>1, <3>1, EventsUnfold DEF ToldUpto
    <2>4. ASSUME outcome = "accepted" PROVE events = EventsOf(doc)
      <3>1. doc \in ValueTexts
        BY <2>4 DEF SaxInv
      <3>2. PICK k \in 0 .. Len(doc) : ToldUpto(k)
        BY <3>1 DEF ToldInv
      <3> QED
        BY <2>4, <3>2 DEF ToldUpto, EventsOf
    <2> QED
      BY <2>2, <2>3, <2>4 DEF EventsTold
  <1> QED
    BY <1>1, SaxAlways, ToldAlways, PTL

---------------------------------------------------------------------------
(* The nodes and the events of one text.                                   *)

(* Sequences that are alike so far gather alike.                           *)
LEMMA GatherAlike ==
  ASSUME NEW S, NEW s \in Seq(S), NEW t \in Seq(S), NEW kept, NEW left,
         NEW n \in 0 .. Len(s), n <= Len(t),
         \A i \in 1 .. n : s[i] = t[i] /\ (i \in kept <=> i \in left)
  PROVE  Gather(s, kept)[n] = Gather(t, left)[n]
  <1> DEFINE g == Gather(s, kept)  h == Gather(t, left)
             T == {i \in 0 .. n : g[i] # h[i]}
  <1>1. /\ g[0] = <<>> /\ h[0] = <<>>
        /\ \A i \in 1 .. Len(s) : g[i] = IF i \in kept THEN Append(g[i - 1], s[i]) ELSE g[i - 1]
        /\ \A i \in 1 .. Len(t) : h[i] = IF i \in left THEN Append(h[i - 1], t[i]) ELSE h[i - 1]
    BY GatherFacts
  <1>2. n \in Nat /\ Len(s) \in Nat /\ Len(t) \in Nat
    OBVIOUS
  <1> HIDE DEF g, h
  <1>3. T = {}
    <2> SUFFICES ASSUME T # {} PROVE FALSE
      OBVIOUS
    <2>1. PICK i \in T : \A j \in T : i <= j
      <3>1. T \subseteq Nat
        BY <1>2
      <3> HIDE DEF T
      <3> QED
        BY <3>1, LeastNat
    <2>2. i \in 0 .. n /\ g[i] # h[i]
      BY <2>1
    <2>3. i # 0
      BY <1>1, <2>2
    <2>4. i - 1 \in 0 .. n /\ i - 1 \notin T
      <3>1. i - 1 \in 0 .. n /\ i - 1 < i
        BY <1>2, <2>2, <2>3
      <3> HIDE DEF T
      <3> QED
        BY <1>2, <2>1, <2>2, <3>1
    <2>5. g[i - 1] = h[i - 1]
      BY <2>4
    <2>6. i \in 1 .. n /\ i \in 1 .. Len(s) /\ i \in 1 .. Len(t)
      BY <1>2, <2>2, <2>3
    <2> QED
      BY <1>1, <2>2, <2>5, <2>6
  <1>4. n \in 0 .. n
    BY <1>2
  <1> QED
    BY <1>3, <1>4 DEF g, h

(* One element, gathered or not.                                           *)
LEMMA GatherOne ==
  ASSUME NEW S, NEW s \in Seq(S), NEW kept, NEW p \in 1 .. Len(s), NEW m, p - 1 = m
  PROVE  Gather(s, kept)[p] = IF p \in kept THEN Append(Gather(s, kept)[m], s[p]) ELSE Gather(s, kept)[m]
  <1>1. \A i \in 1 .. Len(s) : Gather(s, kept)[i] = IF i \in kept THEN Append(Gather(s, kept)[i - 1], s[i])
                                                     ELSE Gather(s, kept)[i - 1]
    BY GatherFacts
  <1>2. Gather(s, kept)[p] = IF p \in kept THEN Append(Gather(s, kept)[p - 1], s[p]) ELSE Gather(s, kept)[p - 1]
    BY <1>1
  <1> QED
    BY <1>2

\* What a host hears of any events, and the tokens a parser makes nodes for.
HeardOf(es) == Gather([i \in 1 .. Len(es) |-> AsToken(es[i])],
                      {i \in 1 .. Len(es) : es[i].type \notin Closers})[Len(es)]

MadeUpto(text) == Gather(text, {i \in 1 .. Len(text) : text[i].type \notin Separators \cup Closers})

(* Nothing is heard of nothing.                                            *)
LEMMA HeardOfNothing ==
  HeardOf(<<>>) = <<>>
  <1> DEFINE a == [i \in 1 .. Len(<<>>) |-> AsToken(<<>>[i])]
             k == {i \in 1 .. Len(<<>>) : <<>>[i].type \notin Closers}
  <1>1. a \in Seq({}) /\ Len(<<>>) = 0
    <2>1. Len(<<>>) = 0
      OBVIOUS
    <2>2. a \in [1 .. 0 -> {}]
      BY <2>1
    <2> HIDE DEF a
    <2> QED
      BY <2>1, <2>2
  <1>2. HeardOf(<<>>) = Gather(a, k)[Len(<<>>)]
    BY DEF HeardOf
  <1> HIDE DEF a, k
  <1>3. Gather(a, k)[0] = <<>>
    BY <1>1, GatherFacts
  <1> QED
    BY <1>1, <1>2, <1>3

(* What a host hears of one event more.                                    *)
LEMMA HeardMore ==
  ASSUME NEW E, NEW es \in Seq(E), NEW e \in E
  PROVE  /\ e.type \in Closers => HeardOf(Append(es, e)) = HeardOf(es)
         /\ e.type \notin Closers => HeardOf(Append(es, e)) = Append(HeardOf(es), AsToken(e))
  <1> DEFINE S == {AsToken(x) : x \in E}
             As(q) == [i \in 1 .. Len(q) |-> AsToken(q[i])]
             Kept(q) == {i \in 1 .. Len(q) : q[i].type \notin Closers}
             n == Len(es)  d == Append(es, e)
  <1>1. n \in Nat /\ d \in Seq(E) /\ Len(d) = n + 1 /\ d[n + 1] = e /\ \A i \in 1 .. n : d[i] = es[i]
    BY AppendFacts
  <1>2. ASSUME NEW q \in Seq(E)
        PROVE  /\ As(q) \in Seq(S) /\ Len(As(q)) = Len(q)
               /\ \A i \in 1 .. Len(q) : As(q)[i] = AsToken(q[i]) /\ (i \in Kept(q) <=> q[i].type \notin Closers)
    <2>1. Len(q) \in Nat /\ \A i \in 1 .. Len(q) : q[i] \in E
      OBVIOUS
    <2>2. As(q) \in [1 .. Len(q) -> S]
      BY <2>1
    <2>3. As(q) \in Seq(S) /\ Len(As(q)) = Len(q)
      <3> HIDE DEF As, S
      <3> QED
        BY <2>1, <2>2
    <2> QED
      BY <2>3
  <1>3. \A q : HeardOf(q) = Gather(As(q), Kept(q))[Len(q)]
    BY DEF HeardOf
  <1> HIDE DEF As, Kept, d, n, S
  <1> DEFINE g == Gather(As(d), Kept(d))
  <1>5. g[n] = Gather(As(es), Kept(es))[n]
    <2>1. n \in 0 .. Len(As(d)) /\ n <= Len(As(es))
      BY <1>1, <1>2 DEF n
    <2>2. \A i \in 1 .. n : As(d)[i] = As(es)[i] /\ (i \in Kept(d) <=> i \in Kept(es))
      <3> TAKE i \in 1 .. n
      <3>1. i \in 1 .. Len(d) /\ i \in 1 .. Len(es) /\ d[i] = es[i]
        BY <1>1 DEF n
      <3> QED
        BY <1>1, <1>2, <3>1
    <2>3. As(d) \in Seq(S) /\ As(es) \in Seq(S)
      BY <1>1, <1>2
    <2> DEFINE a == As(d)  b == As(es)  k == Kept(d)  l == Kept(es)
    <2>4. /\ a \in Seq(S) /\ b \in Seq(S) /\ n \in 0 .. Len(a) /\ n <= Len(b)
          /\ \A i \in 1 .. n : a[i] = b[i] /\ (i \in k <=> i \in l)
      BY <2>1, <2>2, <2>3
    <2> HIDE DEF a, b, k, l
    <2>5. Gather(a, k)[n] = Gather(b, l)[n]
      BY <2>4, GatherAlike
    <2> QED
      BY <2>5 DEF a, b, k, l
  <1>6. g[n + 1] = IF n + 1 \in Kept(d) THEN Append(g[n], As(d)[n + 1]) ELSE g[n]
    <2> DEFINE a == As(d)  k == Kept(d)  p == n + 1
    <2>1. p \in 1 .. Len(a) /\ p - 1 = n /\ a \in Seq(S)
      BY <1>1, <1>2
    <2> HIDE DEF a, k, p
    <2>2. Gather(a, k)[p] = IF p \in k THEN Append(Gather(a, k)[n], a[p]) ELSE Gather(a, k)[n]
      BY <2>1, GatherOne
    <2> QED
      BY <2>2 DEF a, k, p
  <1>7. (n + 1 \in Kept(d) <=> e.type \notin Closers) /\ As(d)[n + 1] = AsToken(e)
    <2>1. n + 1 \in 1 .. Len(d)
      BY <1>1
    <2> QED
      BY <1>1, <1>2, <2>1
  <1>8. HeardOf(d) = g[n + 1] /\ HeardOf(es) = g[n]
    BY <1>1, <1>3, <1>5 DEF n
  <1> HIDE DEF g
  <1> QED
    BY <1>6, <1>7, <1>8 DEF d

(* The tokens nodes are made for, one at a time.                           *)
LEMMA MadeUnfold ==
  ASSUME NEW text \in AnyWord
  PROVE  /\ MadeUpto(text)[0] = <<>>
         /\ \A i \in 1 .. Len(text) :
              /\ text[i].type \in Separators \cup Closers => MadeUpto(text)[i] = MadeUpto(text)[i - 1]
              /\ text[i].type \notin Separators \cup Closers => MadeUpto(text)[i] = Append(MadeUpto(text)[i - 1], text[i])
         /\ \A k \in 0 .. Len(text) : MadeUpto(text)[k] \in Seq(AnyToken)
         /\ \A k \in 0 .. Len(text) : IsPrefix(MadeUpto(text)[k], MadeUpto(text)[Len(text)])
  <1> DEFINE n == Len(text)
             kept == {i \in 1 .. n : text[i].type \notin Separators \cup Closers}
             g == Gather(text, kept)
  <1>1. text \in Seq(AnyToken) /\ n \in Nat
    BY DEF AnyWord
  <1>2. MadeUpto(text) = g
    BY DEF MadeUpto
  <1>3. \A i \in 1 .. n : i \in kept <=> text[i].type \notin Separators \cup Closers
    OBVIOUS
  <1> HIDE DEF kept
  <1>4. /\ g[0] = <<>>
        /\ \A i \in 1 .. n : g[i] = IF i \in kept THEN Append(g[i - 1], text[i]) ELSE g[i - 1]
        /\ \A i \in 0 .. n : g[i] \in Seq(AnyToken)
    BY <1>1, GatherFacts
  <1>5. ASSUME NEW k \in 0 .. n PROVE IsPrefix(g[k], g[n])
    <2>1. n \in k .. n /\ k \in 0 .. n
      BY <1>1
    <2> QED
      BY <1>1, <2>1, GatherGrows
  <1> HIDE DEF g
  <1> QED
    BY <1>2, <1>3, <1>4, <1>5 DEF n

(* The events of a text are its nodes, but for keys and ends.              *)
LEMMA HeardIsMade ==
  ASSUME NEW text \in Word, NEW k \in 0 .. Len(text)
  PROVE  HeardOf(EventsUpto(text)[k]) = MadeUpto(text)[k]
  <1> DEFINE n == Len(text)
             E == {EventAt(text, i) : i \in 1 .. n}
             f == EventsUpto(text)  m == MadeUpto(text)
             T == {i \in 0 .. n : ~ (HeardOf(f[i]) = m[i] /\ f[i] \in Seq(E))}
  <1>1. text \in AnyWord /\ n \in Nat
    BY WordFacts
  <1>2. /\ f[0] = <<>>
        /\ \A i \in 1 .. n :
              /\ text[i].type \in Separators => f[i] = f[i - 1]
              /\ text[i].type \notin Separators => f[i] = Append(f[i - 1], EventAt(text, i))
    BY <1>1, EventsUnfold
  <1>3. /\ m[0] = <<>>
        /\ \A i \in 1 .. n :
              /\ text[i].type \in Separators \cup Closers => m[i] = m[i - 1]
              /\ text[i].type \notin Separators \cup Closers => m[i] = Append(m[i - 1], text[i])
    BY <1>1, MadeUnfold
  <1>4. ASSUME NEW i \in 1 .. n
        PROVE  /\ EventAt(text, i) \in E
               /\ text[i].type \notin Separators => (EventAt(text, i).type \in Closers <=> text[i].type \in Closers)
               /\ AsToken(EventAt(text, i)) = text[i]
    <2>1. text[i] \in Token
      BY DEF Word
    <2>2. text[i].type # "key"
      <3>1. text[i].type \in Punctuation \cup {"string", "scalar"}
        BY <2>1, TokenFacts
      <3> QED
        BY <3>1 DEF Punctuation
    <2>3. CASE EventAt(text, i) = text[i]
      BY <2>2, <2>3 DEF AsToken
    <2>4. CASE text[i].type = "string" /\ EventAt(text, i) = Key(text[i].name)
      <3>1. EventAt(text, i).type = "key" /\ EventAt(text, i).name = text[i].name
        BY <2>4 DEF Key
      <3>2. "key" \notin Closers /\ "string" \notin Closers
        BY DEF Closers
      <3>3. PICK x \in Name : text[i] = String(x)
        <4>1. CASE \E type \in Punctuation : text[i] = Mark(type)
          <5>1. text[i].type \in Punctuation
            BY <4>1 DEF Mark
          <5> QED
            BY <2>4, <5>1 DEF Punctuation
        <4>2. CASE text[i] = Scalar
          <5>1. text[i].type = "scalar"
            BY <4>2 DEF Scalar, Mark
          <5> QED
            BY <2>4, <5>1
        <4> QED
          BY <2>1, <4>1, <4>2 DEF Token
      <3>4. String(text[i].name) = text[i]
        BY <3>3 DEF String
      <3> QED
        BY <2>4, <3>1, <3>2, <3>4 DEF AsToken
    <2> QED
      BY <2>3, <2>4 DEF EventAt
  <1> HIDE DEF E, f, m, n
  <1>5. T = {}
    <2> SUFFICES ASSUME T # {} PROVE FALSE
      OBVIOUS
    <2>1. PICK i \in T : \A j \in T : i <= j
      <3>1. T \subseteq Nat
        OBVIOUS
      <3> HIDE DEF T
      <3> QED
        BY <3>1, LeastNat
    <2>2. i \in 0 .. n /\ ~ (HeardOf(f[i]) = m[i] /\ f[i] \in Seq(E))
      BY <2>1
    <2>3. <<>> \in Seq(E)
      OBVIOUS
    <2>4. i # 0
      <3>1. HeardOf(<<>>) = <<>>
        BY HeardOfNothing
      <3> QED
        BY <1>2, <1>3, <2>2, <2>3, <3>1
    <2>5. i - 1 \in 0 .. n /\ i - 1 \notin T
      <3>1. i - 1 \in 0 .. n /\ i - 1 < i
        BY <1>1, <2>2, <2>4
      <3> HIDE DEF T
      <3> QED
        BY <1>1, <2>1, <2>2, <3>1
    <2>6. HeardOf(f[i - 1]) = m[i - 1] /\ f[i - 1] \in Seq(E)
      BY <2>5
    <2>7. i \in 1 .. n
      BY <1>1, <2>2, <2>4
    <2>8. CASE text[i].type \in Separators
      BY <1>2, <1>3, <2>2, <2>6, <2>7, <2>8
    <2>9. CASE text[i].type \notin Separators
      <3>1. f[i] = Append(f[i - 1], EventAt(text, i))
        BY <1>2, <2>7, <2>9
      <3>2. f[i] \in Seq(E)
        BY <1>4, <2>6, <2>7, <3>1, AppendFacts
      <3>3. HeardOf(f[i]) = m[i]
        <4>1. /\ EventAt(text, i).type \in Closers => HeardOf(f[i]) = HeardOf(f[i - 1])
              /\ EventAt(text, i).type \notin Closers => HeardOf(f[i]) = Append(HeardOf(f[i - 1]), text[i])
          BY <1>4, <2>6, <2>7, <3>1, HeardMore, SMTT(30)
        <4> QED
          BY <1>3, <1>4, <2>6, <2>7, <2>9, <4>1
      <3> QED
        BY <2>2, <3>2, <3>3
    <2> QED
      BY <2>8, <2>9
  <1> QED
    BY <1>5 DEF f, m, n

---------------------------------------------------------------------------
(* The nodes of the AST are made for the tokens of the text, in order.     *)

TokensOf(ns) == [i \in 1 .. Len(ns) |-> ns[i].token]

NodesInv ==
  /\ Top(controls) \in Openers => Current.type = Top(controls)
  /\ TokensOf(nodes) = MadeUpto(doc)[Made]

(* A node more is a token more.                                            *)
LEMMA TokensGrow ==
  ASSUME NEW ns, Len(ns) \in Nat, NEW sc, NEW ns2, NEW t, Extends(ns, sc, ns2, t)
  PROVE  TokensOf(ns2) = Append(TokensOf(ns), t)
  <1> DEFINE n == Len(ns)  S == {ns2[i].token : i \in 1 .. n + 1}
             a == TokensOf(ns)  b == TokensOf(ns2)
  <1>1. /\ Len(ns2) = n + 1 /\ ns2[n + 1].token = t /\ n \in Nat
        /\ \A i \in 1 .. n : ns2[i].token = ns[i].token
    BY DEF Extends
  <1>2. /\ \A i \in 1 .. n : i \in 1 .. n + 1
        /\ n + 1 \in 1 .. n + 1
        /\ \A i \in 1 .. n + 1 : i \in 1 .. n \/ i = n + 1
    BY <1>1
  <1> HIDE DEF n
  <1>3. t \in S /\ \A i \in 1 .. n : ns[i].token \in S
    BY <1>1, <1>2
  <1>4. a = [i \in 1 .. n |-> ns[i].token] /\ b = [i \in 1 .. n + 1 |-> ns2[i].token]
    BY <1>1 DEF TokensOf, n
  <1> HIDE DEF S, a, b
  <1>5. a \in [1 .. n -> S] /\ a \in Seq(S) /\ Len(a) = n
    BY <1>1, <1>3, <1>4
  <1>6. /\ Len(Append(a, t)) = n + 1
        /\ \A i \in 1 .. n : Append(a, t)[i] = a[i]
        /\ Append(a, t)[n + 1] = t
        /\ Append(a, t) \in Seq(S)
    BY <1>1, <1>3, <1>5, AppendFacts
  <1>7. \A i \in 1 .. n + 1 : Append(a, t)[i] = b[i]
    <2> TAKE i \in 1 .. n + 1
    <2>1. CASE i \in 1 .. n
      BY <1>1, <1>2, <1>4, <1>6, <2>1
    <2>2. CASE i = n + 1
      BY <1>1, <1>2, <1>4, <1>6, <2>2
    <2> QED
      BY <1>2, <2>1, <2>2
  <1>8. Append(a, t) = b
    <2>1. \A i \in 1 .. n + 1 : ns2[i].token \in S
      BY <1>1 DEF S
    <2>2. b \in [1 .. n + 1 -> S] /\ n + 1 \in Nat
      BY <1>1, <1>4, <2>1
    <2>3. b \in Seq(S) /\ Len(b) = n + 1
      BY <2>2
    <2> QED
      BY <1>6, <1>7, <2>3, SeqEqual
  <1> QED
    BY <1>8 DEF a, b

(* No opening bracket is due unless it was put on the stack just now.      *)
LEMMA NoneOpens ==
  ASSUME NEW c, StackOK(c), c # <<>>, NEW s \in Seq(Expectable), \A i \in 1 .. Len(s) : s[i] \notin Openers
  PROVE  Top(Front(c) \o s) \notin Openers
  <1> DEFINE d == Front(c) \o s
  <1>1. /\ d \in Seq(Expectable)
        /\ Len(d) = Len(c) - 1 + Len(s)
        /\ \A i \in 1 .. Len(c) - 1 : d[i] = c[i]
        /\ \A i \in 1 .. Len(s) : d[Len(c) - 1 + i] = s[i]
        /\ \A i \in 1 .. Len(c) - 1 : c[i] \notin Openers
        /\ Len(c) \in Nat \ {0} /\ Len(s) \in Nat
    <2>1. c \in Seq(Expectable) /\ \A i \in 1 .. Len(c) - 1 : c[i] \notin Openers
      BY DEF StackOK
    <2> QED
      BY <2>1, PushFacts
  <1> HIDE DEF d
  <1>2. CASE d = <<>>
    <2>1. "none" \notin Openers
      BY DEF Openers
    <2> QED
      BY <1>2, <2>1 DEF Top, d
  <1>3. CASE d # <<>>
    <2>1. Len(d) \in Nat \ {0} /\ Top(d) = d[Len(d)]
      BY <1>1, <1>3 DEF Top
    <2>2. CASE Len(s) = 0
      <3>1. Len(d) \in 1 .. Len(c) - 1
        BY <1>1, <2>1, <2>2
      <3> QED
        BY <1>1, <2>1, <3>1 DEF d
    <2>3. CASE Len(s) # 0
      <3>1. Len(s) \in 1 .. Len(s) /\ Len(d) = Len(c) - 1 + Len(s)
        BY <1>1, <2>3
      <3>2. d[Len(d)] = s[Len(s)]
        BY <1>1, <3>1
      <3> QED
        BY <2>1, <3>1, <3>2 DEF d
    <2> QED
      BY <2>2, <2>3
  <1> QED
    BY <1>2, <1>3

(* A rule replaced makes no node.                                          *)
LEMMA MadeExpanding ==
  ASSUME ParserInv, NodesInv, controls # <<>>, Top(controls) \notin Openers, NEW s, Plain(s), Expand(s)
  PROVE  NodesInv'
  <1>1. controls' = Front(controls) \o s /\ doc' = doc /\ pos' = pos /\ nodes' = nodes
    BY DEF Expand, Push, astVars
  <1>2. Top(controls') \notin Openers
    <2>1. s \in Seq(Expectable) /\ \A i \in 1 .. Len(s) : s[i] \notin Openers
      BY DEF Plain
    <2>2. StackOK(controls)
      BY DEF ParserInv
    <2> QED
      BY <1>1, <2>1, <2>2, NoneOpens
  <1>3. Made = pos - 1 /\ Made' = pos - 1
    BY <1>1, <1>2 DEF Made
  <1> QED
    BY <1>1, <1>2, <1>3 DEF NodesInv

(* Nothing changes that nodes are made for.                                *)
LEMMA MadeSame ==
  ASSUME NodesInv, doc' = doc, pos' = pos, controls' = controls, nodes' = nodes
  PROVE  NodesInv'
  BY DEF NodesInv, Made, Current, TokenAt, EndOfFile

(* An object or an array is opened: its node is there before its bracket.  *)
LEMMA MadeOpening ==
  ASSUME ParserInv, NodesInv, controls # <<>>,
         NEW rule \in {"RULE_OBJECT", "RULE_ARRAY"}, NEW type \in {"OBJECT", "ARRAY"},
         NEW open \in Openers, NEW close \in Closers, NEW end \in EndMarks,
         NEW content \in {"RULE_MEMBERS", "RULE_ELEMENTS"},
         Open(rule, type, open, close, end, content), open = Opening(rule)
  PROVE  NodesInv'
  <1> DEFINE s == IF Ahead.type = close THEN <<end, close, open>> ELSE <<end, close, content, open>>
             t == Current
  <1>1. Top(controls) = rule /\ controls[Len(controls)] = rule /\ rule \notin Openers
    BY TopFacts DEF Open, Openers
  <1>2. StackOK(controls) /\ TextOK /\ t.type = open
    BY <1>1 DEF ParserInv, TextOK
  <1>3. open \in Symbols \ {"eof"}
    BY DEF Symbols, Punctuation, Openers
  <1>4. t \in Token /\ pos \in 1 .. Len(doc)
    BY <1>2, <1>3, CurrentFacts
  <1>5. doc \in AnyWord /\ doc[pos] = t /\ Len(doc) \in Nat
    <2>1. doc \in Seq(AnyToken)
      BY <1>2 DEF TextOK
    <2> QED
      BY <1>4, <2>1 DEF AnyWord, Current, TokenAt
  <1>6. CASE UNCHANGED <<doc, pos, controls, nodes>>
    BY <1>6, MadeSame
  <1>7. CASE /\ controls' = Front(controls) \o s /\ LinkNode(type, t, HugeName)
             /\ doc' = doc /\ pos' = pos
    <2>1. Top(controls') = open
      <3>1. s = <<end, close, open>> \/ s = <<end, close, content, open>>
        OBVIOUS
      <3> HIDE DEF s
      <3>2. Len(controls') > 0 /\ controls'[Len(controls')] = open
        BY <1>1, <1>2, <1>7, <3>1, OpenStack
      <3>3. Len(<<>>) = 0
        OBVIOUS
      <3> QED
        BY <3>2, <3>3 DEF Top
    <2>2. Current' = t
      BY <1>7 DEF Current, TokenAt, EndOfFile
    <2>3. TokensOf(nodes') = Append(TokensOf(nodes), t)
      <3>1. Extends(nodes, scopes, nodes', t) /\ Len(nodes) \in Nat
        BY <1>4, <1>7, NodeAdded, TopFacts
      <3> QED
        BY <3>1, TokensGrow
    <2>4. Made = pos - 1 /\ Made' = pos
      BY <1>1, <1>7, <2>1 DEF Made
    <2>5. MadeUpto(doc)[pos] = Append(MadeUpto(doc)[pos - 1], t)
      <3>1. open \notin Separators \cup Closers
        BY DEF Separators, Openers, Closers
      <3> QED
        BY <1>2, <1>4, <1>5, <3>1, MadeUnfold
    <2>6. TokensOf(nodes') = MadeUpto(doc')[Made']
      BY <1>7, <2>3, <2>4, <2>5 DEF NodesInv
    <2> QED
      BY <1>2, <2>1, <2>2, <2>6 DEF NodesInv
  <1> HIDE DEF s
  <1> QED
    BY <1>6, <1>7 DEF Open, Push, astVars, s

(* A token is passed.                                                      *)
LEMMA MadeMatching ==
  ASSUME ParserInv, NodesInv, controls # <<>>, Match
  PROVE  NodesInv'
  <1> DEFINE t == Current
             m == MadeUpto(doc)
  <1>1. Expected = Top(controls) /\ Top(controls) \in Symbols /\ StackOK(controls) /\ TextOK /\ Len(nodes) \in Nat
    BY TopFacts DEF Match, ParserInv
  <1>2. doc \in Seq(AnyToken) /\ doc \in AnyWord /\ pos \in 1 .. Len(doc) + 1 /\ Len(doc) \in Nat
    <2>1. doc \in Seq(AnyToken) /\ pos \in 1 .. Len(doc) + 1
      BY <1>1 DEF TextOK
    <2> QED
      BY <2>1 DEF AnyWord
  <1>3. CASE UNCHANGED <<doc, pos, controls, nodes>>
    BY <1>3, MadeSame
  <1>4. CASE /\ t.type = Top(controls)
             /\ \/ IsLeaf(t.type) /\ LinkNode("LEAF", t, HugeName)
                \/ ~IsLeaf(t.type) /\ nodes' = nodes
             /\ pos' = IF pos <= Len(doc) THEN pos + 1 ELSE pos
             /\ controls' = Front(controls) \o <<>>
             /\ doc' = doc
    <2>1. Top(controls') \notin Openers
      <3>1. <<>> \in Seq(Expectable) /\ \A i \in 1 .. Len(<<>>) : <<>>[i] \notin Openers
        OBVIOUS
      <3> QED
        BY <1>1, <1>4, <3>1, NoneOpens
    <2>2. Made' = pos' - 1
      BY <2>1 DEF Made
    <2>3. t.type \in Symbols
      BY <1>1, <1>4
    <2>4. CASE t.type = "eof"
      <3>1. pos = Len(doc) + 1 /\ pos' = pos
        BY <1>1, <1>2, <1>4, <2>4, CurrentFacts
      <3>2. nodes' = nodes /\ t.type \notin Openers
        BY <1>4, <2>4 DEF IsLeaf, Openers
      <3>3. Made = pos - 1
        BY <1>4, <3>2 DEF Made
      <3> QED
        BY <1>4, <2>1, <2>2, <3>1, <3>2, <3>3 DEF NodesInv
    <2>5. CASE t.type # "eof"
      <3>1. t \in Token /\ pos \in 1 .. Len(doc)
        BY <1>1, <2>3, <2>5, CurrentFacts
      <3>2. doc[pos] = t /\ pos' = pos + 1 /\ pos' - 1 = pos
        BY <1>2, <1>4, <3>1 DEF Current, TokenAt
      <3>3. /\ t.type \in Separators \cup Closers => m[pos] = m[pos - 1]
            /\ t.type \notin Separators \cup Closers => m[pos] = Append(m[pos - 1], t)
        BY <1>2, <3>1, <3>2, MadeUnfold
      <3>4. TokensOf(nodes') = m[pos]
        <4>1. CASE t.type \in Openers
          <5>1. nodes' = nodes /\ Made = pos
            BY <1>4, <4>1 DEF IsLeaf, Openers, Made
          <5> QED
            BY <5>1 DEF NodesInv
        <4>2. CASE IsLeaf(t.type)
          <5>1. t.type \notin Openers /\ t.type \notin Separators \cup Closers
            BY <4>2 DEF IsLeaf, Openers, Separators, Closers
          <5>2. Extends(nodes, scopes, nodes', t)
            <6>1. LinkNode("LEAF", t, HugeName)
              BY <1>4, <4>2
            <6> QED
              BY <3>1, <6>1, NodeAdded
          <5>3. TokensOf(nodes') = Append(TokensOf(nodes), t)
            BY <1>1, <5>2, TokensGrow
          <5>4. TokensOf(nodes) = m[pos - 1]
            BY <1>4, <5>1 DEF NodesInv, Made
          <5> QED
            BY <3>3, <5>1, <5>3, <5>4
        <4>3. CASE t.type \notin Openers /\ ~IsLeaf(t.type)
          <5>1. t.type \in Separators \cup Closers
            BY <2>3, <2>5, <4>3 DEF Symbols, Punctuation, Openers, Separators, Closers, IsLeaf
          <5>2. TokensOf(nodes) = m[pos - 1]
            BY <1>4, <4>3 DEF NodesInv, Made
          <5> QED
            BY <1>4, <3>3, <4>3, <5>1, <5>2
        <4> QED
          BY <4>1, <4>2, <4>3
      <3>5. Made' = pos
        BY <2>2, <3>2
      <3> HIDE DEF t
      <3> QED
        BY <1>4, <2>1, <3>4, <3>5 DEF NodesInv
    <2> QED
      BY <2>4, <2>5
  <1> QED
    BY <1>1, <1>3, <1>4 DEF Match, Raise, Push, astVars

(* An object or an array is closed.                                        *)
LEMMA MadeClosing ==
  ASSUME ParserInv, NodesInv, controls # <<>>, Close
  PROVE  NodesInv'
  <1>1. Top(controls) \notin Openers /\ StackOK(controls)
    BY TopFacts DEF Close, EndMarks, Openers, ParserInv
  <1>2. controls' = Front(controls) \o <<>> /\ doc' = doc /\ pos' = pos /\ nodes' = nodes
    BY DEF Close, Push
  <1>3. Top(controls') \notin Openers
    <2>1. <<>> \in Seq(Expectable) /\ \A i \in 1 .. Len(<<>>) : <<>>[i] \notin Openers
      OBVIOUS
    <2> QED
      BY <1>1, <1>2, <2>1, NoneOpens
  <1>4. Made = pos - 1 /\ Made' = pos - 1
    BY <1>1, <1>2, <1>3 DEF Made
  <1> QED
    BY <1>2, <1>3, <1>4 DEF NodesInv

---------------------------------------------------------------------------
(* So it is at first.                                                      *)
LEMMA MadeAtFirst ==
  ASSUME ParserInit
  PROVE  NodesInv
  <1>1. doc \in Document /\ pos = 1 /\ controls = <<"RULE_JSON">> /\ nodes = <<>>
    BY DEF ParserInit, AstInit
  <1>2. Top(controls) \notin Openers
    <2>1. Top(controls) = "RULE_JSON"
      BY <1>1 DEF Top
    <2> QED
      BY <2>1 DEF Openers
  <1>3. Made = 0
    BY <1>1, <1>2 DEF Made
  <1>4. MadeUpto(doc)[0] = <<>>
    BY <1>1, DocumentIsWord, MadeUnfold
  <1>5. TokensOf(nodes) = <<>>
    <2>1. Len(nodes) = 0 /\ 1 .. 0 = {}
      BY <1>1
    <2>2. TokensOf(nodes) = [i \in 1 .. 0 |-> nodes[i].token]
      BY <2>1 DEF TokensOf
    <2> QED
      BY <2>2
  <1> QED
    BY <1>2, <1>3, <1>4, <1>5 DEF NodesInv

(* No rule is an opening bracket, and what replaces one holds none.        *)
LEMMA MadeKeptByStep ==
  ASSUME ParserInv, NodesInv, ParserStep
  PROVE  NodesInv'
  <1>1. status = "parsing" /\ controls # <<>> /\ Expected = Top(controls)
    <2>1. status = "parsing" /\ controls # <<>>
      BY DEF ParserStep
    <2> QED
      BY <2>1, TopFacts
  <1> DEFINE L == {"RULE_OBJECT", "RULE_ARRAY"}
             Ones == {"RULE_OBJECT", "RULE_ARRAY", "string", "scalar"}
  <1>2. ASSUME NEW rule \in Rules, Expected = rule, NEW s, Plain(s), Expand(s)
        PROVE  NodesInv'
    <2>1. Top(controls) \notin Openers
      BY <1>1, <1>2 DEF Rules, Openers
    <2> QED
      BY <1>1, <1>2, <2>1, MadeExpanding
  <1>3. ASSUME NEW a \in Rules \ L, NEW b \in Rules PROVE Plain(<<a, b>>)
    BY <1>3, HarmlessFacts, PlainFacts
  <1>4. CASE Match
    BY <1>1, <1>4, MadeMatching
  <1>5. CASE ExpandJson
    <2>1. Plain(<<"eof", "RULE_VALUE">>)
      <3>1. "RULE_VALUE" \in Rules
        BY DEF Rules
      <3> QED
        BY <3>1, HarmlessFacts, PlainFacts
    <2>2. "RULE_JSON" \in Rules
      BY DEF Rules
    <2> QED
      BY <1>2, <1>5, <2>1, <2>2 DEF ExpandJson
  <1>6. CASE ExpandValue
    <2>1. \A a \in Ones : Plain(<<a>>)
      <3> TAKE a \in Ones
      <3>1. a \in Harmless
        BY HarmlessFacts DEF Rules
      <3>2. "RULE_JSON" \in Harmless \ {"RULE_OBJECT", "RULE_ARRAY"}
        BY HarmlessFacts DEF Rules
      <3> QED
        BY <3>1, <3>2, PlainFacts
    <2>2. "RULE_VALUE" \in Rules
      BY DEF Rules
    <2>3. CASE \E a \in Ones : Expand(<<a>>)
      BY <1>2, <1>6, <2>1, <2>2, <2>3 DEF ExpandValue
    <2>4. CASE Raise("MALFORMED_JSON")
      BY <2>4, MadeSame DEF Raise, astVars
    <2> QED
      BY <1>6, <2>3, <2>4 DEF ExpandValue, IsLeaf
  <1>7. CASE ExpandObject
    <2>1. "{" \in Openers /\ "}" \in Closers /\ "MARK_OBJECT_END" \in EndMarks /\ "{" = Opening("RULE_OBJECT")
      BY DEF Openers, Closers, EndMarks, Opening
    <2> QED
      BY <1>1, <1>7, <2>1, MadeOpening DEF ExpandObject
  <1>8. CASE ExpandArray
    <2>1. "[" \in Openers /\ "]" \in Closers /\ "MARK_ARRAY_END" \in EndMarks /\ "[" = Opening("RULE_ARRAY")
      BY DEF Openers, Closers, EndMarks, Opening
    <2> QED
      BY <1>1, <1>8, <2>1, MadeOpening DEF ExpandArray
  <1>9. /\ "RULE_MEMBERS" \in Rules \ L /\ "RULE_ELEMENTS" \in Rules \ L
        /\ "RULE_NEXT_MEMBER" \in Rules \ L /\ "RULE_NEXT_ELEMENT" \in Rules \ L
        /\ "RULE_PAIR" \in Rules \ L /\ "RULE_VALUE" \in Rules \ L
    BY DEF Rules
  <1>10. CASE ExpandMembers
    <2>1. Plain(<<"RULE_NEXT_MEMBER", "RULE_PAIR">>)
      BY <1>3, <1>9
    <2> QED
      BY <1>2, <1>9, <1>10, <2>1 DEF ExpandMembers
  <1>11. CASE ExpandElements
    <2>1. Plain(<<"RULE_NEXT_ELEMENT", "RULE_VALUE">>)
      BY <1>3, <1>9
    <2> QED
      BY <1>2, <1>9, <1>11, <2>1 DEF ExpandElements
  <1>12. CASE ExpandPair
    <2>1. Plain(<<"RULE_VALUE", ":", "string">>)
      BY <1>9, HarmlessFacts, PlainFacts
    <2> QED
      BY <1>2, <1>9, <1>12, <2>1 DEF ExpandPair
  <1>13. ASSUME NEW rule \in Rules, NEW content \in Rules \ L, ExpandNext(rule, content)
         PROVE  NodesInv'
    <2>1. Plain(<<content, ",">>) /\ Plain(<<>>)
      BY <1>13, HarmlessFacts, PlainFacts
    <2>2. Expected = rule /\ (Expand(<<content, ",">>) \/ Expand(<<>>))
      BY <1>13 DEF ExpandNext
    <2> QED
      BY <1>2, <2>1, <2>2
  <1>14. CASE ExpandNextMember
    BY <1>9, <1>13, <1>14 DEF ExpandNextMember
  <1>15. CASE ExpandNextElement
    BY <1>9, <1>13, <1>15 DEF ExpandNextElement
  <1>16. CASE Close
    BY <1>1, <1>16, MadeClosing
  <1> QED
    BY <1>4, <1>5, <1>6, <1>7, <1>8, <1>10, <1>11, <1>12, <1>14, <1>15, <1>16 DEF ParserStep

(* And so always.                                                          *)
LEMMA NodesAlways ==
  ReadersSpec => []NodesInv
  <1>1. ReadersInit => NodesInv
    BY MadeAtFirst DEF ReadersInit
  <1>2. ParserInv /\ NodesInv /\ [ReadersNext]_readersVars => NodesInv'
    <2> SUFFICES ASSUME ParserInv, NodesInv, [ReadersNext]_readersVars PROVE NodesInv'
      OBVIOUS
    <2>1. CASE ParserStep
      BY <2>1, MadeKeptByStep
    <2>2. CASE Finish
      BY <2>2, MadeSame DEF Finish, astVars
    <2>3. CASE SaxNext /\ UNCHANGED <<pos, controls, depth, status, astVars>>
      BY <2>3, SaxKeepsText, MadeSame DEF astVars
    <2>4. CASE UNCHANGED readersVars
      BY <2>4, MadeSame DEF readersVars, parserVars, astVars
    <2> QED
      BY <2>1, <2>2, <2>3, <2>4 DEF ReadersNext, ParserNext
  <1> QED
    BY <1>1, <1>2, InvAlways, PTL DEF ReadersSpec

(* The nodes of an accepted text are made for all of its tokens but        *)
(* separators and closing brackets.                                        *)
LEMMA AllMade ==
  ASSUME ParserInv, NodesInv, Accepted
  PROVE  TokensOf(nodes) = MadeUpto(doc)[Len(doc)]
  <1>1. controls = <<>> /\ pos = Len(doc) + 1 /\ doc \in Seq(AnyToken)
    BY DEF ParserInv, StatusOK, TextOK, Accepted
  <1>2. Top(controls) \notin Openers
    BY <1>1 DEF Top, Openers
  <1>3. Made = Len(doc)
    BY <1>1, <1>2 DEF Made
  <1> QED
    BY <1>3 DEF NodesInv

---------------------------------------------------------------------------
(* How deep the prescan and the event parser take a text to be.            *)

\* How many objects and arrays are open after the first tokens of a text.
OpenAfter(text, i) == OpensTo(text, i) - ClosesTo(text, i)

(* One token opens, closes or does neither.                                *)
LEMMA OpenStepwise ==
  ASSUME NEW text, NEW i \in Nat \ {0}
  PROVE  /\ OpenAfter(text, 0) = 0 /\ OpenAfter(text, i - 1) \in Int
         /\ text[i].type \in Openers => OpenAfter(text, i) = OpenAfter(text, i - 1) + 1
         /\ text[i].type \in Closers => OpenAfter(text, i) = OpenAfter(text, i - 1) - 1
         /\ text[i].type \notin Openers \cup Closers => OpenAfter(text, i) = OpenAfter(text, i - 1)
         /\ text[i].type \notin Closers => OpensTo(text, i - 1) - ClosesTo(text, i) = OpenAfter(text, i - 1)
  <1> DEFINE a == OpensTo(text, i - 1)  b == ClosesTo(text, i - 1)
             c == OpensTo(text, i)  d == ClosesTo(text, i)  ty == text[i].type
  <1>1. /\ a \in Nat /\ b \in Nat
        /\ OpensTo(text, 0) = 0 /\ ClosesTo(text, 0) = 0
        /\ ty \in Openers => c = a + 1 /\ d = b
        /\ ty \in Closers => c = a /\ d = b + 1
        /\ ty \notin Openers \cup Closers => c = a /\ d = b
    BY BracketsCounted
  <1>2. OpenAfter(text, 0) = 0 /\ OpenAfter(text, i - 1) = a - b /\ OpenAfter(text, i) = c - d
    BY <1>1 DEF OpenAfter
  <1> HIDE DEF a, b, c, d, ty
  <1>3. /\ a - b \in Int
        /\ ty \in Openers => c - d = a - b + 1
        /\ ty \in Closers => c - d = a - b - 1
        /\ ty \notin Openers \cup Closers => c - d = a - b
        /\ ty \notin Closers => a - d = a - b
    BY <1>1
  <1> QED
    BY <1>2, <1>3 DEF a, d, ty

(* The prescan's depth is never less than what is open, and no more if     *)
(* nothing is closed that was not opened.                                  *)
LEMMA CountedDepth ==
  ASSUME NEW text \in Seq(AnyToken), NEW i \in 0 .. Len(text)
  PROVE  /\ OpenAfter(text, i) \in Int
         /\ Counts(text)[i].depth >= OpenAfter(text, i)
         /\ Counts(text)[i].maxDepth >= Counts(text)[i].depth
         /\ (\A j \in 0 .. Len(text) : OpenAfter(text, j) >= 0) => Counts(text)[i].depth = OpenAfter(text, i)
  <1> DEFINE n == Len(text)
             c == Counts(text)
             Even == \A j \in 0 .. n : OpenAfter(text, j) >= 0
             Good(j) == /\ OpenAfter(text, j) \in Int
                        /\ c[j].depth >= OpenAfter(text, j)
                        /\ c[j].maxDepth >= c[j].depth
                        /\ Even => c[j].depth = OpenAfter(text, j)
             T == {j \in 0 .. n : ~Good(j)}
  <1>1. /\ c[0] = NothingCounted
        /\ \A j \in 1 .. n : c[j] = Counted(c[j - 1], text[j])
        /\ \A j \in 0 .. n : c[j] \in Count
    BY CountsUnfold
  <1>2. n \in Nat
    OBVIOUS
  <1> HIDE DEF c, n
  <1>3. T = {}
    <2> SUFFICES ASSUME T # {} PROVE FALSE
      OBVIOUS
    <2>1. PICK j \in T : \A k \in T : j <= k
      <3>1. T \subseteq Nat
        BY <1>2
      <3> HIDE DEF T
      <3> QED
        BY <3>1, LeastNat
    <2>2. j \in 0 .. n /\ ~Good(j)
      BY <2>1
    <2>3. CASE j = 0
      <3>1. c[0].depth = 0 /\ c[0].maxDepth = 0 /\ OpenAfter(text, 0) = 0
        <4>1. 1 \in Nat \ {0}
          OBVIOUS
        <4>2. OpenAfter(text, 0) = 0
          BY <4>1, OpenStepwise
        <4> QED
          BY <1>1, <4>2 DEF NothingCounted
      <3> QED
        BY <2>2, <2>3, <3>1
    <2>4. CASE j # 0
      <3>1. j \in 1 .. n /\ j - 1 \in 0 .. n /\ j - 1 < j /\ j \in Nat \ {0}
        BY <1>2, <2>2, <2>4
      <3>2. Good(j - 1)
        <4>1. j - 1 \notin T
          <5> HIDE DEF T
          <5> QED
            BY <1>2, <2>1, <2>2, <3>1
        <4> QED
          BY <3>1, <4>1
      <3> DEFINE e == c[j - 1]  f == c[j]  t == text[j]  p == OpenAfter(text, j - 1)  q == OpenAfter(text, j)
      <3>3. e \in Count /\ f \in Count /\ Adds(e, t, f)
        <4>1. t \in AnyToken
          BY <3>1 DEF n
        <4> QED
          BY <1>1, <3>1, <4>1, CountedFacts
      <3>4. /\ p \in Int
            /\ t.type \in Openers => q = p + 1
            /\ t.type \in Closers => q = p - 1
            /\ t.type \notin Openers \cup Closers => q = p
        BY <3>1, OpenStepwise
      <3>5. Even => p >= 0 /\ q >= 0
        BY <2>2, <3>1
      <3>6. e.depth \in Nat /\ e.maxDepth \in Nat /\ f.depth \in Nat /\ f.maxDepth \in Nat
        BY <3>3 DEF Count
      <3>7. e.depth >= p /\ e.maxDepth >= e.depth /\ (Even => e.depth = p)
        BY <3>2
      <3>8. /\ f.depth = IF t.type \in Openers THEN e.depth + 1
                         ELSE IF t.type \in Closers /\ e.depth > 0 THEN e.depth - 1 ELSE e.depth
            /\ f.maxDepth = IF t.type \in Openers /\ e.depth + 1 > e.maxDepth THEN e.depth + 1 ELSE e.maxDepth
        BY <3>3 DEF Adds
      <3>9. t.type \in Openers => t.type \notin Closers
        BY DEF Openers, Closers
      <3> DEFINE ed == e.depth  em == e.maxDepth  fd == f.depth  fm == f.maxDepth
                 up == t.type \in Openers  down == t.type \in Closers
      <3>10. /\ ed \in Nat /\ em \in Nat /\ p \in Int /\ ed >= p /\ em >= ed
             /\ fd = IF up THEN ed + 1 ELSE IF down /\ ed > 0 THEN ed - 1 ELSE ed
             /\ fm = IF up /\ ed + 1 > em THEN ed + 1 ELSE em
             /\ (up => q = p + 1) /\ (down => q = p - 1) /\ (~up /\ ~down => q = p)
             /\ up => ~down
             /\ Even => ed = p /\ p >= 0 /\ q >= 0
        BY <3>4, <3>5, <3>6, <3>7, <3>8, <3>9
      <3> HIDE DEF ed, em, fd, fm, up, down, p, q, e, f, t, Even
      <3>11. q \in Int /\ fd >= q /\ fm >= fd /\ (Even => fd = q)
        <4>1. CASE up
          BY <3>10, <4>1
        <4>2. CASE ~up /\ ~down
          BY <3>10, <4>2
        <4>3. CASE ~up /\ down
          BY <3>10, <4>3
        <4> QED
          BY <4>1, <4>2, <4>3
      <3> QED
        BY <2>2, <3>11 DEF fd, fm, q, f
    <2> QED
      BY <2>3, <2>4
  <1>4. Good(i)
    BY <1>3 DEF n
  <1> QED
    BY <1>4 DEF c, n

(* A text too deep for the event parser is so for the prescan.             *)
LEMMA DeepIsCounted ==
  ASSUME NEW text \in Seq(AnyToken), Deep(text)
  PROVE  Estimate(text).maxDepth > MaxSaxDepth
  <1>1. PICK i \in 1 .. Len(text) : ~Shallow(text, i)
    BY DEF Deep
  <1>2. Len(text) \in Nat /\ i \in Nat \ {0} /\ i - 1 \in 0 .. Len(text) /\ Len(text) \in 0 .. Len(text)
    BY <1>1
  <1>3. text[i].type \notin Closers
    BY <1>1 DEF Shallow, Closers, Openers, Punctuation
  <1>4. OpenAfter(text, i - 1) \in Int /\ ~ (OpenAfter(text, i - 1) <= MaxSaxDepth)
    BY <1>1, <1>2, <1>3, OpenStepwise DEF Shallow
  <1> DEFINE e == Counts(text)[i - 1]  f == Counts(text)[Len(text)]
  <1>5. e.depth >= OpenAfter(text, i - 1) /\ e.maxDepth >= e.depth /\ f.maxDepth >= e.maxDepth
    BY <1>2, CountedDepth, DepthGrows
  <1>6. e.depth \in Nat /\ e.maxDepth \in Nat /\ f.maxDepth \in Nat
    <2>1. e \in Count /\ f \in Count
      BY <1>2, CountsUnfold
    <2> QED
      BY <2>1 DEF Count
  <1>7. Estimate(text) = f
    BY DEF Estimate
  <1> HIDE DEF e, f
  <1> QED
    BY <1>4, <1>5, <1>6, <1>7, SaxAssumption

(* A text the event parser does not find too deep is at most one level     *)
(* deeper for the prescan.                                                 *)
LEMMA ShallowIsCounted ==
  ASSUME NEW text \in Seq(AnyToken), ~Deep(text), \A j \in 0 .. Len(text) : OpenAfter(text, j) >= 0
  PROVE  Estimate(text).maxDepth <= MaxSaxDepth + 1
  <1> DEFINE n == Len(text)
             c == Counts(text)
             T == {j \in 0 .. n : ~ (c[j].maxDepth <= MaxSaxDepth + 1)}
  <1>1. /\ c[0] = NothingCounted
        /\ \A j \in 1 .. n : c[j] = Counted(c[j - 1], text[j])
        /\ \A j \in 0 .. n : c[j] \in Count
    BY CountsUnfold
  <1>2. n \in Nat /\ MaxSaxDepth \in Nat
    BY SaxAssumption
  <1>3. \A j \in 0 .. n : c[j].depth = OpenAfter(text, j)
    BY CountedDepth
  <1>4. \A j \in 1 .. n : text[j] \in AnyToken
    OBVIOUS
  <1>5. \A j \in 1 .. n : Shallow(text, j)
    BY DEF Deep
  <1> HIDE DEF c, n
  <1>6. T = {}
    <2> SUFFICES ASSUME T # {} PROVE FALSE
      OBVIOUS
    <2>1. PICK j \in T : \A k \in T : j <= k
      <3>1. T \subseteq Nat
        BY <1>2
      <3> HIDE DEF T
      <3> QED
        BY <3>1, LeastNat
    <2>2. j \in 0 .. n /\ ~ (c[j].maxDepth <= MaxSaxDepth + 1)
      BY <2>1
    <2>3. j # 0
      <3>1. c[0].maxDepth = 0
        BY <1>1 DEF NothingCounted
      <3> QED
        BY <1>2, <2>2, <3>1
    <2>4. j \in 1 .. n /\ j - 1 \in 0 .. n /\ j - 1 < j /\ j \in Nat \ {0}
      BY <1>2, <2>2, <2>3
    <2>5. c[j - 1].maxDepth <= MaxSaxDepth + 1
      <3>1. j - 1 \notin T
        <4> HIDE DEF T
        <4> QED
          BY <1>2, <2>1, <2>2, <2>4
      <3> QED
        BY <2>4, <3>1
    <2> DEFINE e == c[j - 1]  f == c[j]  t == text[j]  p == OpenAfter(text, j - 1)
    <2>6. e \in Count /\ f \in Count /\ Adds(e, t, f) /\ e.depth = p
      BY <1>1, <1>3, <1>4, <2>4, CountedFacts
    <2>7. f.maxDepth = IF t.type \in Openers /\ e.depth + 1 > e.maxDepth THEN e.depth + 1 ELSE e.maxDepth
      BY <2>6 DEF Adds
    <2>8. t.type \in Openers => p <= MaxSaxDepth
      <3> SUFFICES ASSUME t.type \in Openers PROVE p <= MaxSaxDepth
        OBVIOUS
      <3>1. t.type \notin Closers /\ t.type \notin Punctuation \ Openers
        BY DEF Openers, Closers
      <3>2. OpensTo(text, j - 1) - ClosesTo(text, j) = p
        BY <2>4, <3>1, OpenStepwise
      <3> QED
        BY <1>5, <2>4, <3>1, <3>2 DEF Shallow
    <2>9. e.depth \in Nat /\ e.maxDepth \in Nat /\ f.maxDepth \in Nat
      BY <2>6 DEF Count
    <2> DEFINE ed == e.depth  em == e.maxDepth  fm == f.maxDepth  up == t.type \in Openers
    <2>10. /\ ed \in Nat /\ em \in Nat /\ em <= MaxSaxDepth + 1 /\ (up => ed <= MaxSaxDepth)
           /\ fm = IF up /\ ed + 1 > em THEN ed + 1 ELSE em
           /\ ~ (fm <= MaxSaxDepth + 1)
      BY <2>2, <2>5, <2>6, <2>7, <2>8, <2>9
    <2> HIDE DEF ed, em, fm, up, e, f, t, p
    <2> QED
      BY <1>2, <2>10
  <1>7. n \in 0 .. n
    BY <1>2
  <1> QED
    BY <1>6, <1>7 DEF Estimate, c, n

---------------------------------------------------------------------------
(* The two readers of one text.                                            *)

\* Nothing the event parser passed closes what was not opened, and the other
\* parser is done when it begins.
PassedInv ==
  /\ saxPos \in Nat
  /\ outcome \in {"parsing", "accepted"} => \A i \in 0 .. Len(doc) : i < saxPos => OpenAfter(doc, i) >= 0
  /\ outcome = "accepted" => saxPos > Len(doc)
  /\ status = "parsing" => outcome = "parsing"

(* What a step of the event parser does to its position and verdict.       *)
LEMMA SaxMoves ==
  ASSUME SaxInv, SaxNext
  PROVE  /\ outcome = "parsing" /\ doc' = doc
         /\ saxPos' = saxPos \/ (saxPos' = saxPos + 1 /\ outcome' # "accepted")
         /\ outcome' = "accepted" => saxPos' = saxPos /\ CurrentTok = EndOfFile
  <1>1. outcome = "parsing"
    BY DEF SaxNext, Start, ParseLeaf, ParseOpen, NoValue, ParseClose, ParseComma, ParseItem, ParseColon,
           SaxFinish, Parsing
  <1>2. doc' = doc
    BY SaxKeepsText
  <1> DEFINE Moves == /\ saxPos' = saxPos \/ (saxPos' = saxPos + 1 /\ outcome' # "accepted")
                      /\ outcome' = "accepted" => saxPos' = saxPos /\ CurrentTok = EndOfFile
  <1>3. Reject => Moves
    BY DEF Reject
  <1>4. ASSUME NEW next, NEW open, Advance(next, open) PROVE Moves
    BY <1>1, <1>4 DEF Advance
  <1>5. ASSUME NEW event, NEW next, NEW open, Tell(event, next, open) PROVE Moves
    BY <1>4, <1>5 DEF Tell
  <1>6. saxPos' = saxPos /\ outcome' = outcome => Moves
    BY <1>1
  <1>7. SaxFinish => Moves
    BY <1>3 DEF SaxFinish
  <1> HIDE DEF Moves
  <1>8. Moves
    BY <1>3, <1>4, <1>5, <1>6, <1>7 DEF SaxNext, Start, ParseLeaf, ParseOpen, NoValue, ParseClose, ParseComma,
           ParseItem, ParseColon
  <1> QED
    BY <1>1, <1>2, <1>8 DEF Moves

(* A step of the event parser passes nothing that closes too much.         *)
LEMMA PassedKept ==
  ASSUME SaxInv, SaxInv', PassedInv, SaxNext, status' = status, status # "parsing"
  PROVE  PassedInv'
  <1>1. /\ outcome = "parsing" /\ doc' = doc
        /\ saxPos' = saxPos \/ (saxPos' = saxPos + 1 /\ outcome' # "accepted")
        /\ outcome' = "accepted" => saxPos' = saxPos /\ CurrentTok = EndOfFile
    BY SaxMoves
  <1>2. saxPos \in Nat \ {0} /\ doc \in AnyWord /\ Len(doc) \in Nat
    BY <1>1, DocumentIsWord DEF SaxInv, SaxAt, SaxDepths, AnyWord
  <1>3. ASSUME outcome' \in {"parsing", "accepted"}
        PROVE  \A i \in 0 .. Len(doc) : i < saxPos' => OpenAfter(doc, i) >= 0
    <2>1. \A i \in 0 .. Len(doc) : i < saxPos => OpenAfter(doc, i) >= 0
      BY <1>1 DEF PassedInv
    <2>2. CASE saxPos' = saxPos
      BY <2>1, <2>2
    <2>3. CASE saxPos' = saxPos + 1 /\ outcome' = "parsing"
      <3>1. PICK p, n : p = saxPos' /\ n = Len(frames') /\ SaxDepths(doc, p, n, stage')
        BY <1>1, <2>3 DEF SaxInv, SaxAt
      <3>2. n \in Nat /\ OpensTo(doc, p - 1) - ClosesTo(doc, p - 1) = n /\ p = saxPos + 1
        BY <2>3, <3>1 DEF SaxDepths
      <3>3. p - 1 = saxPos
        BY <1>2, <3>2
      <3>4. OpenAfter(doc, saxPos) = n
        BY <3>2, <3>3 DEF OpenAfter
      <3> TAKE i \in 0 .. Len(doc)
      <3> HAVE i < saxPos'
      <3>5. i < saxPos \/ i = saxPos
        BY <1>2, <2>3
      <3> QED
        BY <2>1, <3>2, <3>4, <3>5
    <2> QED
      BY <1>1, <1>3, <2>2, <2>3
  <1>4. ASSUME outcome' = "accepted" PROVE saxPos' > Len(doc)
    <2>1. saxPos' = saxPos /\ CurrentTok = EndOfFile
      BY <1>1, <1>4
    <2>2. ~ (saxPos \in 1 .. Len(doc))
      <3> SUFFICES ASSUME saxPos \in 1 .. Len(doc) PROVE FALSE
        OBVIOUS
      <3>1. doc[saxPos] = EndOfFile
        BY <2>1 DEF CurrentTok, TokenAt
      <3>2. doc[saxPos] \in AnyToken
        BY <1>2 DEF AnyWord
      <3>3. "eof" \in Punctuation \cup {"string", "scalar", "error"}
        BY <3>1, <3>2, TokenFacts
      <3> QED
        BY <3>3 DEF Punctuation
    <2> QED
      BY <1>2, <2>1, <2>2
  <1>5. saxPos' \in Nat
    BY <1>1, <1>2
  <1> QED
    BY <1>1, <1>3, <1>4, <1>5 DEF PassedInv

(* And so always.                                                          *)
LEMMA PassedAlways ==
  ReadersSpec => []PassedInv
  <1>1. ReadersInit => PassedInv
    <2> SUFFICES ASSUME ReadersInit PROVE PassedInv
      OBVIOUS
    <2>1. saxPos = 1 /\ outcome = "parsing"
      BY DEF ReadersInit, SaxReady
    <2>2. \A i \in 0 .. Len(doc) : i < 1 => i = 0
      OBVIOUS
    <2>3. OpenAfter(doc, 0) >= 0
      <3>1. 1 \in Nat \ {0}
        OBVIOUS
      <3>2. OpenAfter(doc, 0) = 0
        BY <3>1, OpenStepwise
      <3> QED
        BY <3>2
    <2>4. \A i \in 0 .. Len(doc) : i < saxPos => OpenAfter(doc, i) >= 0
      BY <2>1, <2>2, <2>3
    <2> QED
      BY <2>1, <2>4 DEF PassedInv
  <1>2. SaxInv /\ SaxInv' /\ PassedInv /\ [ReadersNext]_readersVars => PassedInv'
    <2> SUFFICES ASSUME SaxInv, SaxInv', PassedInv, [ReadersNext]_readersVars PROVE PassedInv'
      OBVIOUS
    <2>1. CASE ParserNext /\ UNCHANGED <<saxPos, outcome>>
      <3>1. doc' = doc
        BY <2>1, ParserKeepsText
      <3>2. status = "parsing"
        BY <2>1 DEF ParserNext, ParserStep, Finish
      <3> QED
        BY <2>1, <3>1, <3>2 DEF PassedInv
    <2>2. CASE status # "parsing" /\ SaxNext /\ status' = status
      BY <2>2, PassedKept
    <2>3. CASE UNCHANGED <<doc, saxPos, outcome, status>>
      BY <2>3 DEF PassedInv
    <2> QED
      BY <2>1, <2>2, <2>3 DEF ReadersNext, readersVars, saxVars, parserVars
  <1> QED
    BY <1>1, <1>2, SaxAlways, PTL DEF ReadersSpec

(* What the parser accepts the event parser does not reject, and its       *)
(* events are its nodes.                                                   *)
LEMMA AcceptedAgree ==
  ASSUME ParserInv, NodesInv, SaxInv, ToldInv, ParsesValues, DepthJudged, MaxDepth = MaxSaxDepth, Accepted
  PROVE  /\ outcome # "rejected"
         /\ IsPrefix(Heard, TokensOf(nodes))
         /\ outcome = "accepted" => Heard = TokensOf(nodes)
  <1>1. doc \in ValueTexts /\ doc \in AnyWord /\ doc \in Seq(AnyToken)
    BY DocumentIsWord DEF ParsesValues, SaxInv, AnyWord
  <1>2. doc \in Word
    BY <1>1 DEF ValueTexts
  <1>3. outcome # "rejected"
    <2> SUFFICES ASSUME outcome = "rejected" PROVE FALSE
      OBVIOUS
    <2>1. Deep(doc)
      BY <1>1 DEF SaxInv
    <2>2. Estimate(doc).maxDepth > MaxSaxDepth
      BY <1>1, <2>1, DeepIsCounted
    <2>3. Estimate(doc).maxDepth <= MaxDepth
      BY DEF DepthJudged
    <2>4. Estimate(doc).maxDepth \in Nat
      <3>1. Len(doc) \in 0 .. Len(doc)
        BY <1>1
      <3>2. Counts(doc)[Len(doc)] \in Count
        BY <1>1, <3>1, CountsUnfold
      <3> QED
        BY <3>2 DEF Count, Estimate
    <2> QED
      BY <2>2, <2>3, <2>4, SaxAssumption
  <1>4. PICK k \in 0 .. Len(doc) : ToldUpto(k)
    BY <1>1 DEF ToldInv
  <1>5. events = EventsUpto(doc)[k] /\ (outcome = "accepted" => k = Len(doc))
    BY <1>4 DEF ToldUpto
  <1>6. Heard = HeardOf(events)
    BY DEF Heard, HeardOf, Closers
  <1>7. Heard = MadeUpto(doc)[k]
    BY <1>2, <1>5, <1>6, HeardIsMade
  <1>8. TokensOf(nodes) = MadeUpto(doc)[Len(doc)]
    BY AllMade
  <1>9. IsPrefix(MadeUpto(doc)[k], MadeUpto(doc)[Len(doc)])
    BY <1>1, MadeUnfold
  <1> QED
    BY <1>3, <1>5, <1>7, <1>8, <1>9

(* What only the event parser accepts is one level too deep.               *)
LEMMA OneLevelMore ==
  ASSUME ParserInv, SaxInv, PassedInv, ParsesValues, DepthJudged, MaxDepth = MaxSaxDepth,
         outcome = "accepted", ~Accepted
  PROVE  Estimate(doc).maxDepth = MaxDepth + 1
  <1>1. doc \in ValueTexts /\ ~Deep(doc) /\ doc \in AnyWord /\ doc \in Seq(AnyToken)
    BY DocumentIsWord DEF SaxInv, AnyWord
  <1>2. status = "MAXIMUM_NESTED_DEPTH_REACHED"
    <2>1. status \in Statuses /\ status # "parsing" /\ status # "accepted" /\ status # "MALFORMED_JSON"
      BY <1>1 DEF ParserInv, StatusOK, PassedInv, ParsesValues, Accepted
    <2> QED
      BY <2>1 DEF Statuses
  <1>3. Estimate(doc).maxDepth > MaxDepth
    BY <1>2 DEF DepthJudged
  <1>4. \A j \in 0 .. Len(doc) : OpenAfter(doc, j) >= 0
    <2> TAKE j \in 0 .. Len(doc)
    <2>1. saxPos > Len(doc) /\ saxPos \in Nat
      BY DEF PassedInv
    <2>2. ASSUME j < saxPos PROVE OpenAfter(doc, j) >= 0
      BY <2>2 DEF PassedInv
    <2>3. Len(doc) \in Nat
      BY <1>1
    <2> QED
      BY <2>1, <2>2, <2>3
  <1>5. Estimate(doc).maxDepth <= MaxSaxDepth + 1
    BY <1>1, <1>4, ShallowIsCounted
  <1>6. Estimate(doc).maxDepth \in Nat
    <2>1. Len(doc) \in 0 .. Len(doc)
      BY <1>1
    <2>2. Counts(doc)[Len(doc)] \in Count
      BY <1>1, <2>1, CountsUnfold
    <2> QED
      BY <2>2 DEF Count, Estimate
  <1> QED
    BY <1>3, <1>5, <1>6, ParserAssumption

(* The agreement a run checks, for any documents, when both limits are the *)
(* same as in the code: what the parser accepts the event parser does not  *)
(* reject, what the host hears of it are the nodes of its AST in order,    *)
(* and the event parser accepts no more but one level of nesting.          *)
THEOREM BothReadersAgree ==
  ASSUME MaxDepth = MaxSaxDepth
  PROVE  ReadersSpec => []ReadersAgree
  <1>1. ParserInv /\ NodesInv /\ SaxInv /\ ToldInv /\ PassedInv /\ ParsesValues /\ DepthJudged => ReadersAgree
    <2> SUFFICES ASSUME ParserInv, NodesInv, SaxInv, ToldInv, PassedInv, ParsesValues, DepthJudged
                 PROVE  ReadersAgree
      OBVIOUS
    <2>1. Len(nodes) \in Nat
      BY DEF ParserInv, TreeOK
    <2>2. TokensOf(nodes) = [i \in 1 .. Len(nodes) |-> nodes[i].token]
      BY DEF TokensOf
    <2>3. Len(TokensOf(nodes)) = Len(nodes)
      BY <2>1 DEF TokensOf
    <2>4. Accepted => outcome # "rejected" /\ IsPrefix(Heard, [i \in 1 .. Len(nodes) |-> nodes[i].token])
      BY <2>2, AcceptedAgree
    <2>5. Accepted /\ outcome = "accepted" => Len(Heard) = Len(nodes)
      BY <2>3, AcceptedAgree
    <2>6. outcome = "accepted" => Accepted \/ Estimate(doc).maxDepth = MaxDepth + 1
      BY OneLevelMore
    <2> QED
      BY <2>4, <2>5, <2>6 DEF ReadersAgree
  <1> QED
    BY <1>1, InvAlways, NodesAlways, SaxAlways, ToldAlways, PassedAlways, ParserReadsTheGrammar, NestingJudged, PTL

---------------------------------------------------------------------------
(* The values of the nodes, each made from those of its children.          *)

ValueAt(f, i) ==
  CASE nodes[i].type = "OBJECT" ->
         IF Overruns(i) THEN Anything ELSE Object(MapOf(f, Ordered(nodes[i].keyTree)))
    [] nodes[i].type = "ARRAY" -> Array(ItemsOf(f, nodes[i].firstChild))
    [] OTHER -> ValueOfLeaf(nodes[i].token)

\* What the tree of an object and the links of all nodes have to be.
LinksOK ==
  /\ TreeOK(nodes, <<>>) /\ KidsOK(nodes, <<>>)
  /\ PoolOK(keyTree)
  /\ TypesOK(nodes)
  /\ \A o \in ObjectsIn(nodes) : ObjectOK(nodes, keyTree, o) /\ Len(Kids(nodes, o)) % 2 = 0

\* The keys of object o that count, in order.
KeysAt(o) == InOrder(keyTree)[nodes[o].keyTree]

(* The children of a node come after it.                                   *)
LEMMA KidsHere ==
  ASSUME LinksOK, NEW i \in 1 .. Len(nodes), NEW c, c = Kids(nodes, i)
  PROVE  /\ Len(nodes) \in Nat /\ c \in Seq(1 .. Len(nodes)) /\ Len(c) \in Nat
         /\ nodes[i].firstChild \in 0 .. Len(nodes)
         /\ \A m \in 1 .. Len(c) :
              /\ c[m] \in i + 1 .. Len(nodes) /\ c[m] \in 1 .. Len(nodes)
              /\ nodes[c[m]].parent = i
              /\ Sibling(c[m]) = IF m = Len(c) THEN 0 ELSE c[m + 1]
  <1>1. Chain(nodes, i, c) /\ Len(nodes) \in Nat /\ \A k \in 1 .. Len(nodes) : nodes[k].parent \in 0 .. k - 1
    BY DEF LinksOK, KidsOK, TreeOK
  <1>2. c \in Seq(1 .. Len(nodes))
    BY <1>1 DEF Chain
  <1>3. Len(c) \in Nat /\ \A m \in 1 .. Len(c) : c[m] \in 1 .. Len(nodes)
    BY <1>1, <1>2, RowOf
  <1>4. \A m \in 1 .. Len(c) : nodes[c[m]].parent = i /\ nodes[c[m]].nextSibling = IF m = Len(c) THEN 0 ELSE c[m + 1]
    BY <1>1 DEF Chain
  <1>5. ASSUME NEW m \in 1 .. Len(c) PROVE c[m] \in i + 1 .. Len(nodes)
    <2> DEFINE k == c[m]
    <2>1. k \in 1 .. Len(nodes) /\ i \in 0 .. k - 1
      BY <1>1, <1>3, <1>4
    <2> HIDE DEF k
    <2>2. k \in i + 1 .. Len(nodes)
      BY <1>1, <2>1
    <2> QED
      BY <2>2 DEF k
  <1>6. nodes[i].firstChild \in 0 .. Len(nodes)
    <2>1. CASE c = <<>>
      BY <1>1, <2>1 DEF Chain
    <2>2. CASE c # <<>>
      <3>1. 1 \in 1 .. Len(c)
        BY <1>1, <1>2, <2>2, RowOf
      <3>2. nodes[i].firstChild = c[1] /\ c[1] \in 1 .. Len(nodes)
        BY <1>1, <1>3, <2>2, <3>1 DEF Chain
      <3> QED
        BY <1>1, <3>2
    <2> QED
      BY <2>1, <2>2
  <1> QED
    BY <1>1, <1>2, <1>3, <1>4, <1>5, <1>6 DEF Sibling

(* The keys that count are those not skipped, and of different names.      *)
LEMMA KeysCount ==
  ASSUME LinksOK, Convertible, NEW o \in ObjectsIn(nodes), NEW w, w = KeysAt(o)
  PROVE  /\ Len(w) \in Nat
         /\ {w[j] : j \in 1 .. Len(w)} = {k \in KeysIn(nodes, o) : ~ Lost(nodes, k)}
         /\ \A x, y \in KeysIn(nodes, o) :
              ~ Lost(nodes, x) /\ ~ Lost(nodes, y) /\ KeyName(x) = KeyName(y) => x = y
         /\ \A j, k \in 1 .. Len(w) : KeyName(w[j]) = KeyName(w[k]) => w[j] = w[k]
  <1>1. ObjectOK(nodes, keyTree, o) /\ PoolOK(keyTree)
    BY DEF LinksOK
  <1>2. w \in Seq(Nat) /\ ToSet(w) = {k \in KeysIn(nodes, o) : ~ Lost(nodes, k)}
    <2>1. \A k \in KeysIn(nodes, o) : NameIn(nodes, k) \notin HugeName
      BY ReadingsAre DEF Convertible
    <2>2. {k \in KeysIn(nodes, o) : EntersTree(nodes, k)} = {k \in KeysIn(nodes, o) : ~ Lost(nodes, k)}
      BY <2>1 DEF EntersTree
    <2> QED
      BY <1>1, <2>2, InOrderUnfold DEF ObjectOK, OrderedIn, KeysAt
  <1>3. {w[j] : j \in 1 .. Len(w)} = {k \in KeysIn(nodes, o) : ~ Lost(nodes, k)}
    BY <1>2 DEF ToSet
  <1>4. KeysIn(nodes, o) \subseteq Nat
    <2>1. o \in 1 .. Len(nodes) /\ Len(nodes) \in Nat
      BY DEF ObjectsIn, TreeOK, LinksOK
    <2>2. KeysIn(nodes, o) \subseteq 1 .. Len(nodes)
      BY <2>1, KeysBelow DEF LinksOK
    <2> QED
      BY <2>1, <2>2
  <1>5. \A k \in KeysIn(nodes, o) : Lost(nodes, k) <=> HadBefore(nodes, o, k)
    BY <1>1 DEF ObjectOK, KeyOK
  <1>6. ASSUME NEW x \in KeysIn(nodes, o), NEW y \in KeysIn(nodes, o),
               ~ Lost(nodes, x), ~ Lost(nodes, y), KeyName(x) = KeyName(y)
        PROVE  x = y
    <2> SUFFICES ASSUME x # y PROVE FALSE
      OBVIOUS
    <2>1. NameIn(nodes, x) = NameIn(nodes, y)
      BY <1>6, ReadingsAre
    <2>2. NameIn(nodes, x) \in LongName
      BY <1>4, <1>5, <1>6, <2>1, OneKept
    <2>3. \A j, k \in KeysIn(nodes, o) : KeyName(j) = KeyName(k) /\ KeyName(k) \in LongName => j = k
      BY ReadingsAre DEF Convertible, LongNamesOnce
    <2>4. KeyName(y) \in LongName
      BY <2>1, <2>2, ReadingsAre
    <2> QED
      BY <1>6, <2>3, <2>4
  <1>7. \A j \in 1 .. Len(w) : w[j] \in KeysIn(nodes, o) /\ ~ Lost(nodes, w[j])
    BY <1>3
  <1> QED
    BY <1>2, <1>3, <1>6, <1>7

(* What is behind a key is a node as well, and skipped when the key is.    *)
LEMMA BehindKey ==
  ASSUME LinksOK, NEW o \in ObjectsIn(nodes), NEW c, c = Kids(nodes, o),
         NEW m \in 1 .. Len(c), m % 2 = 1
  PROVE  /\ c[m] \in KeysIn(nodes, o) /\ m + 1 \in 1 .. Len(c) /\ Sibling(c[m]) = c[m + 1]
         /\ Lost(nodes, c[m + 1]) <=> Lost(nodes, c[m])
         /\ nodes[c[m]].token.type = "string"
         /\ Lost(nodes, c[m]) <=> HadBefore(nodes, o, c[m])
  <1>0. o \in 1 .. Len(nodes)
    BY DEF ObjectsIn
  <1>1. /\ Len(c) \in Nat /\ Len(nodes) \in Nat
        /\ \A k \in 1 .. Len(c) : c[k] \in 1 .. Len(nodes) /\ Sibling(c[k]) = IF k = Len(c) THEN 0 ELSE c[k + 1]
    BY <1>0, KidsHere
  <1>2. Len(c) % 2 = 0 /\ ObjectOK(nodes, keyTree, o)
    BY DEF LinksOK
  <1>3. m # Len(c) /\ m + 1 \in 1 .. Len(c)
    BY <1>1, <1>2
  <1>4. c[m] \in KeysIn(nodes, o)
    BY DEF KeysIn, Odd
  <1>5. KeyOK(nodes, o, c[m])
    BY <1>2, <1>4 DEF ObjectOK
  <1>6. Sibling(c[m]) = c[m + 1] /\ c[m + 1] # 0
    <2>1. c[m + 1] \in 1 .. Len(nodes)
      BY <1>1, <1>3
    <2> QED
      BY <1>1, <1>3, <2>1
  <1>7. nodes[c[m]].nextSibling = c[m + 1]
    BY <1>6 DEF Sibling
  <1> QED
    BY <1>3, <1>4, <1>5, <1>6, <1>7 DEF KeyOK

\* A map of these keys has what f has behind them.
Maps(g, f, K) ==
  /\ DOMAIN g = {KeyName(k) : k \in K}
  /\ \A k \in K : g[KeyName(k)] = f[Sibling(k)]
  /\ g = [n \in DOMAIN g |-> g[n]]

\* The keys of an object that are not skipped.
KeysKept(o) == {k \in KeysIn(nodes, o) : ~ Lost(nodes, k)}

(* The map of an object is made from what its keys have behind them.       *)
LEMMA ObjectMap ==
  ASSUME LinksOK, Convertible, NEW o \in ObjectsIn(nodes), NEW f
  PROVE  Maps(MapOf(f, KeysAt(o)), f, KeysKept(o))
  <1> DEFINE w == KeysAt(o)
             K == KeysKept(o)
             g == MapOf(f, w)
  <1>1. /\ Len(w) \in Nat /\ {w[j] : j \in 1 .. Len(w)} = K
        /\ \A j, k \in 1 .. Len(w) : KeyName(w[j]) = KeyName(w[k]) => w[j] = w[k]
    BY KeysCount DEF KeysKept
  <1> HIDE DEF w, K
  <1>2. /\ DOMAIN MapOf(f, w) = {KeyName(w[j]) : j \in 1 .. Len(w)}
        /\ \A j \in 1 .. Len(w) : MapOf(f, w)[KeyName(w[j])] = f[Sibling(w[j])]
        /\ MapOf(f, w) = [n \in DOMAIN MapOf(f, w) |-> MapOf(f, w)[n]]
    BY <1>1, MapAlong
  <1> HIDE DEF g
  <1>3. g = MapOf(f, w)
    BY DEF g
  <1>4. \A k : k \in K <=> \E j \in 1 .. Len(w) : k = w[j]
    BY <1>1
  <1>5. DOMAIN g = {KeyName(k) : k \in K}
    BY <1>2, <1>3, <1>4
  <1>6. \A k \in K : g[KeyName(k)] = f[Sibling(k)]
    BY <1>2, <1>3, <1>4
  <1>7. Maps(g, f, K)
    BY <1>2, <1>3, <1>5, <1>6 DEF Maps
  <1> QED
    BY <1>7 DEF g, w, K

(* A value depends on those of later nodes only.                           *)
LEMMA ValueAtSame ==
  ASSUME LinksOK, Convertible, NEW i \in 1 .. Len(nodes),
         NEW f, NEW g, \A k \in i + 1 .. Len(nodes) : f[k] = g[k]
  PROVE  ValueAt(f, i) = ValueAt(g, i)
  <1> DEFINE c == Kids(nodes, i)
  <1>1. /\ c \in Seq(1 .. Len(nodes)) /\ Len(c) \in Nat /\ nodes[i].firstChild \in 0 .. Len(nodes)
        /\ \A m \in 1 .. Len(c) : c[m] \in i + 1 .. Len(nodes)
    BY KidsHere
  <1>2. \A m \in 1 .. Len(c) : f[c[m]] = g[c[m]]
    BY <1>1
  <1>3. CASE nodes[i].type = "OBJECT"
    <2>1. i \in ObjectsIn(nodes)
      <3>1. nodes[i].type = KindOf(nodes[i].token.type) \/ nodes[i].type = "SKIPPED"
        BY DEF LinksOK, TypesOK
      <3>2. "OBJECT" # "SKIPPED"
        OBVIOUS
      <3>3. nodes[i].token.type = "{"
        BY <1>3, <3>1, <3>2 DEF KindOf
      <3> QED
        BY <3>3 DEF ObjectsIn
    <2> DEFINE K == KeysKept(i)
               a == MapOf(f, KeysAt(i))
               b == MapOf(g, KeysAt(i))
    <2>2. Maps(a, f, K)
      BY <2>1, ObjectMap, Zenon
    <2>3. Maps(b, g, K)
      BY <2>1, ObjectMap, Zenon
    <2> HIDE DEF K, a, b
    <2>4. \A k \in K : f[Sibling(k)] = g[Sibling(k)]
      <3> TAKE k \in K
      <3>1. PICK m \in 1 .. Len(c) : m % 2 = 1 /\ k = c[m]
        BY DEF KeysIn, Odd, K, KeysKept
      <3>2. m + 1 \in 1 .. Len(c) /\ Sibling(k) = c[m + 1]
        BY <2>1, <3>1, BehindKey
      <3> QED
        BY <1>2, <3>2
    <2>5. DOMAIN a = DOMAIN b /\ \A n \in DOMAIN a : a[n] = b[n]
      BY <2>2, <2>3, <2>4 DEF Maps
    <2>6. a = [n \in DOMAIN a |-> a[n]] /\ b = [n \in DOMAIN b |-> b[n]]
      BY <2>2, <2>3 DEF Maps
    <2>7. a = b
      BY <2>5, <2>6, SameMap
    <2>8. MapOf(f, Ordered(nodes[i].keyTree)) = MapOf(g, Ordered(nodes[i].keyTree))
      BY <2>7, ReadingsAre DEF a, b, KeysAt
    <2> QED
      BY <1>3, <2>8, Zenon DEF ValueAt
  <1>4. CASE nodes[i].type = "ARRAY"
    <2>1. SiblingsOK(nodes)
      BY DEF LinksOK, KidsOK
    <2>2. ItemsOf(f, nodes[i].firstChild) = Valued(f, c) /\ ItemsOf(g, nodes[i].firstChild) = Valued(g, c)
      BY <1>1, <2>1, ItemsAlong DEF Kids
    <2>3. Valued(f, c) = Valued(g, c)
      BY <1>2 DEF Valued
    <2>4. ItemsOf(f, nodes[i].firstChild) = ItemsOf(g, nodes[i].firstChild)
      BY <2>2, <2>3
    <2>5. nodes[i].type # "OBJECT"
      BY <1>4
    <2> QED
      BY <1>4, <2>4, <2>5, Zenon DEF ValueAt
  <1>5. CASE nodes[i].type \notin {"OBJECT", "ARRAY"}
    BY <1>5, Zenon DEF ValueAt
  <1> QED
    BY <1>3, <1>4, <1>5

(* ToValue gives every node the value made from those of its children.     *)
LEMMA ToValueIs ==
  ASSUME LinksOK, Convertible
  PROVE  \E f : \A i \in 1 .. Len(nodes) : f[i] = ValueAt(f, i) /\ ToValue(i) = f[i]
  <1> DEFINE n == Len(nodes)
             Is(f) == f = [i \in 1 .. n |-> ValueAt(f, i)]
             From(f, m) == \A i \in m .. n : f[i] = ValueAt(f, i)
             T == {m \in 1 .. n + 1 : \E f : From(f, m)}
  <1>1. n \in Nat
    BY DEF LinksOK, TreeOK
  <1>2. \A i : ToValue(i) = (CHOOSE f : Is(f))[i]
    BY DEF ToValue, ValueAt
  <1>3. n + 1 \in T
    <2>1. n + 1 \in 1 .. n + 1 /\ \A i : i \notin n + 1 .. n
      BY <1>1
    <2>2. From(0, n + 1)
      BY <2>1
    <2> HIDE DEF From
    <2> QED
      BY <2>1, <2>2
  <1>4. PICK m \in T : \A j \in T : m <= j
    <2>1. T \subseteq Nat
      BY <1>1
    <2> HIDE DEF T
    <2> QED
      BY <1>3, <2>1, LeastNat
  <1>5. m \in 1 .. n + 1 /\ \E f : From(f, m)
    BY <1>4
  <1>6. PICK g : From(g, m)
    BY <1>5
  <1>7. m = 1
    <2> SUFFICES ASSUME m # 1 PROVE FALSE
      OBVIOUS
    <2> DEFINE j == m - 1
               f == [i \in 1 .. n |-> IF i = j THEN ValueAt(g, j) ELSE g[i]]
    <2>1. j \in 1 .. n /\ m = j + 1 /\ j < m
      BY <1>1, <1>5
    <2>2. \A i \in j + 1 .. n : i \in 1 .. n /\ f[i] = g[i]
      BY <1>1, <2>1
    <2>3. f[j] = ValueAt(g, j)
      BY <2>1
    <2> HIDE DEF f, j
    <2>4. From(f, j)
      <3> SUFFICES ASSUME NEW i \in j .. n PROVE f[i] = ValueAt(f, i)
        OBVIOUS
      <3>1. i \in 1 .. n /\ \A k \in i + 1 .. n : k \in j + 1 .. n
        BY <1>1, <2>1
      <3>2. \A k \in i + 1 .. n : f[k] = g[k]
        BY <2>2, <3>1
      <3>3. ValueAt(f, i) = ValueAt(g, i)
        BY <3>1, <3>2, ValueAtSame
      <3>4. CASE i = j
        BY <2>3, <3>3, <3>4
      <3>5. CASE i # j
        <4>1. i \in j + 1 .. n /\ i \in m .. n
          BY <1>1, <2>1, <3>5
        <4> QED
          BY <1>6, <2>2, <3>3, <4>1
      <3> QED
        BY <3>4, <3>5
    <2>5. j \in T
      <3>1. j \in 1 .. n + 1
        BY <1>1, <2>1
      <3> HIDE DEF From
      <3> QED
        BY <2>4, <3>1
    <2> HIDE DEF T
    <2> QED
      BY <1>1, <1>4, <1>5, <2>1, <2>5
  <1> DEFINE h == [i \in 1 .. n |-> g[i]]
  <1>8. Is(h)
    <2>1. ASSUME NEW i \in 1 .. n PROVE h[i] = ValueAt(h, i)
      <3>1. \A k \in i + 1 .. n : k \in 1 .. n
        BY <1>1
      <3>2. \A k \in i + 1 .. n : g[k] = h[k]
        BY <3>1
      <3>3. h[i] = g[i]
        OBVIOUS
      <3> HIDE DEF h
      <3>4. ValueAt(g, i) = ValueAt(h, i)
        BY <3>2, ValueAtSame
      <3> QED
        BY <1>6, <1>7, <3>3, <3>4
    <2>2. h = [i \in 1 .. n |-> h[i]]
      OBVIOUS
    <2> HIDE DEF h, n
    <2> QED
      BY <2>1, <2>2
  <1> DEFINE v == CHOOSE f : Is(f)
  <1>9. Is(v)
    <2> HIDE DEF Is, h
    <2> QED
      BY <1>8
  <1> HIDE DEF v
  <1>10. \A i \in 1 .. n : v[i] = ValueAt(v, i)
    BY <1>9
  <1> QED
    BY <1>2, <1>10 DEF v

---------------------------------------------------------------------------
(* The keys of an object and what is behind them, in a row.                *)

(* The children of a node are in order.                                    *)
LEMMA KidsRise ==
  ASSUME LinksOK, NEW i \in 1 .. Len(nodes), NEW c, c = Kids(nodes, i),
         NEW p \in 1 .. Len(c), NEW q \in 1 .. Len(c), p < q
  PROVE  c[p] < c[q]
  <1> DEFINE l == Len(c)
             T == {j \in 1 .. l : p < j /\ ~ (c[p] < c[j])}
  <1>1. /\ l \in Nat /\ Len(nodes) \in Nat
        /\ \A m \in 1 .. l : c[m] \in 1 .. Len(nodes) /\ Sibling(c[m]) = IF m = l THEN 0 ELSE c[m + 1]
    BY KidsHere, SMTT(30)
  <1> HIDE DEF l
  <1>2. \A m \in 1 .. l : m # l => c[m] < c[m + 1]
    <2> TAKE m \in 1 .. l
    <2> HAVE m # l
    <2>1. m + 1 \in 1 .. l
      BY <1>1
    <2>2. c[m] \in 1 .. Len(nodes) /\ c[m + 1] \in 1 .. Len(nodes) /\ Sibling(c[m]) = c[m + 1]
      BY <1>1, <2>1
    <2>3. \A k \in 1 .. Len(nodes) : nodes[k].nextSibling \in Onward(k, Len(nodes))
      BY DEF LinksOK, KidsOK, SiblingsOK
    <2> DEFINE x == c[m]  y == c[m + 1]
    <2>4. x \in 1 .. Len(nodes) /\ y \in 1 .. Len(nodes) /\ y \in Onward(x, Len(nodes))
      BY <2>2, <2>3 DEF Sibling
    <2> HIDE DEF x, y
    <2>5. x < y
      BY <1>1, <2>4 DEF Onward
    <2> QED
      BY <2>5 DEF x, y
  <1> SUFFICES ASSUME T # {} PROVE FALSE
    BY DEF l
  <1>3. PICK j \in T : \A k \in T : j <= k
    <2>1. T \subseteq Nat
      BY <1>1
    <2> HIDE DEF T
    <2> QED
      BY <2>1, LeastNat
  <1>4. j \in 1 .. l /\ p < j /\ ~ (c[p] < c[j]) /\ p \in 1 .. l
    BY <1>3 DEF l
  <1>5. j - 1 \in 1 .. l /\ j - 1 < j /\ j - 1 # l /\ (j - 1) + 1 = j /\ (p < j - 1 \/ p = j - 1)
    BY <1>1, <1>4
  <1>6. j - 1 \notin T
    <2> HIDE DEF T
    <2>1. \A k \in T : k \in 1 .. l
      BY DEF T
    <2> QED
      BY <1>1, <1>3, <1>4, <1>5
  <1>7. c[p] < c[j - 1] \/ p = j - 1
    BY <1>5, <1>6
  <1>8. c[j - 1] < c[j]
    <2>1. c[j - 1] < c[(j - 1) + 1]
      BY <1>2, <1>5
    <2> QED
      BY <1>5, <2>1
  <1> DEFINE x == c[p]  y == c[j - 1]  z == c[j]
  <1>9. x \in 1 .. Len(nodes) /\ y \in 1 .. Len(nodes) /\ z \in 1 .. Len(nodes)
    BY <1>1, <1>4, <1>5
  <1>10. (x < y \/ x = y) /\ y < z /\ ~ (x < z)
    BY <1>4, <1>7, <1>8
  <1> HIDE DEF x, y, z
  <1> QED
    BY <1>1, <1>9, <1>10

\* The places of keys in a row, from place m on.
OddFrom(c, m) == {p \in m .. Len(c) : p % 2 = 1}

(* A key that is not skipped is the first with its name.                   *)
LEMMA FirstNamed ==
  ASSUME LinksOK, Convertible, NEW o \in ObjectsIn(nodes), NEW c, c = Kids(nodes, o),
         NEW p \in OddFrom(c, 1), NEW q \in OddFrom(c, 1), p < q, ~ Lost(nodes, c[q])
  PROVE  KeyName(c[p]) # KeyName(c[q])
  <1>1. /\ p \in 1 .. Len(c) /\ q \in 1 .. Len(c) /\ p % 2 = 1 /\ q % 2 = 1 /\ o \in 1 .. Len(nodes)
    BY DEF OddFrom, ObjectsIn
  <1>2. /\ c[p] \in KeysIn(nodes, o) /\ c[q] \in KeysIn(nodes, o)
        /\ Lost(nodes, c[q]) <=> HadBefore(nodes, o, c[q])
    BY <1>1, BehindKey
  <1>3. c[p] < c[q]
    BY <1>1, KidsRise
  <1>4. c[p] # c[q]
    <2>1. c \in Seq(1 .. Len(nodes)) /\ Len(nodes) \in Nat
      BY <1>1, KidsHere
    <2> DEFINE x == c[p]  y == c[q]
    <2>2. x \in 1 .. Len(nodes) /\ y \in 1 .. Len(nodes) /\ x < y
      BY <1>1, <1>3, <2>1, RowOf
    <2> HIDE DEF x, y
    <2>3. x # y
      BY <2>1, <2>2
    <2> QED
      BY <2>3 DEF x, y
  <1> SUFFICES ASSUME KeyName(c[p]) = KeyName(c[q]) PROVE FALSE
    OBVIOUS
  <1>5. NameIn(nodes, c[p]) = NameIn(nodes, c[q])
    BY ReadingsAre
  <1>6. KeyName(c[q]) \in LongName
    BY <1>2, <1>3, <1>5, ReadingsAre DEF HadBefore
  <1>7. \A j, k \in KeysIn(nodes, o) : KeyName(j) = KeyName(k) /\ KeyName(k) \in LongName => j = k
    BY ReadingsAre DEF Convertible, LongNamesOnce
  <1> QED
    BY <1>2, <1>4, <1>6, <1>7

\* Map g has the names of the keys from place m on, and what f has behind
\* those that are not skipped.
MapFrom(g, f, c, m) ==
  /\ DOMAIN g = {KeyName(c[p]) : p \in OddFrom(c, m)}
  /\ g = [n \in DOMAIN g |-> g[n]]
  /\ \A p \in OddFrom(c, m) : ~ Lost(nodes, c[p]) => g[KeyName(c[p])] = f[c[p + 1]]

(* A pair more in front.                                                   *)
LEMMA MapGrows ==
  ASSUME LinksOK, Convertible, NEW o \in ObjectsIn(nodes), NEW c, c = Kids(nodes, o),
         NEW m \in OddFrom(c, 1), NEW f, NEW v, ~ Lost(nodes, c[m]) => v = f[c[m + 1]]
  PROVE  /\ m + 1 = Len(c) => MapFrom(OneName(KeyName(c[m]), v), f, c, m)
         /\ \A g : MapFrom(g, f, c, m + 2) => MapFrom(Overlaid(OneName(KeyName(c[m]), v), g), f, c, m)
  <1> DEFINE n == KeyName(c[m])
             h == OneName(n, v)
  <1>1. Len(c) \in Nat /\ m \in 1 .. Len(c) /\ m % 2 = 1
    <2>1. o \in 1 .. Len(nodes)
      BY DEF ObjectsIn
    <2> QED
      BY <2>1, KidsHere DEF OddFrom
  <1>2. /\ DOMAIN h = {n} /\ h[n] = v
        /\ h = [k \in DOMAIN h |-> h[k]]
    <2> HIDE DEF n
    <2> QED
      BY DEF OneName
  <1>3. m + 1 = Len(c) => OddFrom(c, m) = {m}
    BY <1>1 DEF OddFrom
  <1>4. OddFrom(c, m) = {m} \cup OddFrom(c, m + 2)
    BY <1>1 DEF OddFrom
  <1>5. \A p \in OddFrom(c, m + 2) : p \in OddFrom(c, 1) /\ m < p
    BY <1>1 DEF OddFrom
  <1>6. \A p \in OddFrom(c, m + 2) : ~ Lost(nodes, c[p]) => KeyName(c[p]) # n
    BY <1>5, FirstNamed
  <1> HIDE DEF n, h
  <1>7. ASSUME m + 1 = Len(c) PROVE MapFrom(h, f, c, m)
    <2>1. \A p \in OddFrom(c, m) : p = m
      BY <1>3, <1>7
    <2>2. DOMAIN h = {KeyName(c[p]) : p \in OddFrom(c, m)}
      BY <1>2, <1>3, <1>7 DEF n
    <2> QED
      BY <1>2, <2>1, <2>2 DEF MapFrom, n
  <1>8. ASSUME NEW g, MapFrom(g, f, c, m + 2) PROVE MapFrom(Overlaid(h, g), f, c, m)
    <2> DEFINE k == Overlaid(h, g)
               names == {KeyName(c[p]) : p \in OddFrom(c, m + 2)}
    <2>1. /\ DOMAIN g = names
          /\ \A p \in OddFrom(c, m + 2) : ~ Lost(nodes, c[p]) => g[KeyName(c[p])] = f[c[p + 1]]
      BY <1>8 DEF MapFrom
    <2>2. {KeyName(c[p]) : p \in OddFrom(c, m)} = {n} \cup names
      BY <1>4 DEF n
    <2>3. \A p \in OddFrom(c, m + 2) : KeyName(c[p]) \in names
      OBVIOUS
    <2> HIDE DEF names
    <2>4. /\ DOMAIN k = DOMAIN h \cup DOMAIN g
          /\ \A x \in DOMAIN h : k[x] = h[x]
          /\ \A x \in DOMAIN g \ DOMAIN h : k[x] = g[x]
          /\ k = [x \in DOMAIN k |-> k[x]]
      BY DEF Overlaid
    <2> HIDE DEF k
    <2>5. DOMAIN k = {KeyName(c[p]) : p \in OddFrom(c, m)}
      BY <1>2, <2>1, <2>2, <2>4
    <2>6. ASSUME NEW p \in OddFrom(c, m), ~ Lost(nodes, c[p]) PROVE k[KeyName(c[p])] = f[c[p + 1]]
      <3>1. CASE p = m
        BY <1>2, <2>4, <2>6, <3>1 DEF n
      <3>2. CASE p \in OddFrom(c, m + 2)
        <4>1. KeyName(c[p]) # n /\ KeyName(c[p]) \in names
          BY <1>6, <2>3, <2>6, <3>2
        <4> QED
          BY <1>2, <2>1, <2>4, <2>6, <3>2, <4>1
      <3> QED
        BY <1>4, <3>1, <3>2
    <2>7. MapFrom(k, f, c, m)
      BY <2>4, <2>5, <2>6 DEF MapFrom
    <2> QED
      BY <2>7 DEF k
  <1> QED
    BY <1>7, <1>8 DEF h, n

(* That of all keys is the map of the object.                              *)
LEMMA MapOfAll ==
  ASSUME LinksOK, Convertible, NEW o \in ObjectsIn(nodes), NEW c, c = Kids(nodes, o),
         NEW f, NEW g, MapFrom(g, f, c, 1)
  PROVE  Maps(g, f, KeysKept(o))
  <1>1. o \in 1 .. Len(nodes)
    BY DEF ObjectsIn
  <1>2. Len(c) \in Nat /\ c \in Seq(1 .. Len(nodes)) /\ Len(nodes) \in Nat
    BY <1>1, KidsHere
  <1>3. \A p \in OddFrom(c, 1) : p \in 1 .. Len(c) /\ p % 2 = 1
    BY DEF OddFrom
  <1>4. KeysIn(nodes, o) = {c[p] : p \in OddFrom(c, 1)}
    BY DEF KeysIn, Odd, OddFrom
  <1>5. \A p \in OddFrom(c, 1) :
          Sibling(c[p]) = c[p + 1] /\ (Lost(nodes, c[p]) <=> HadBefore(nodes, o, c[p])) /\ c[p] \in 1 .. Len(nodes)
    <2> TAKE p \in OddFrom(c, 1)
    <2>1. p \in 1 .. Len(c) /\ p % 2 = 1
      BY <1>3
    <2>2. Sibling(c[p]) = c[p + 1] /\ (Lost(nodes, c[p]) <=> HadBefore(nodes, o, c[p]))
      BY <2>1, BehindKey
    <2>3. c[p] \in 1 .. Len(nodes)
      BY <1>2, <2>1
    <2> QED
      BY <2>2, <2>3
  <1>6. /\ DOMAIN g = {KeyName(c[p]) : p \in OddFrom(c, 1)}
        /\ g = [n \in DOMAIN g |-> g[n]]
        /\ \A p \in OddFrom(c, 1) : ~ Lost(nodes, c[p]) => g[KeyName(c[p])] = f[c[p + 1]]
    BY DEF MapFrom
  <1>7. \A k \in KeysKept(o) : \E p \in OddFrom(c, 1) : k = c[p] /\ ~ Lost(nodes, c[p])
    BY <1>4 DEF KeysKept
  <1>8. \A k \in KeysKept(o) : g[KeyName(k)] = f[Sibling(k)]
    BY <1>5, <1>6, <1>7
  <1>9. ASSUME NEW p \in OddFrom(c, 1) PROVE \E k \in KeysKept(o) : KeyName(k) = KeyName(c[p])
    <2> DEFINE B == {b \in KeysIn(nodes, o) : KeyName(b) = KeyName(c[p])}
    <2>1. c[p] \in B
      BY <1>4
    <2>2. PICK b \in B : \A x \in B : b <= x
      <3>1. B \subseteq Nat
        BY <1>2, <1>4, <1>5
      <3> HIDE DEF B
      <3> QED
        BY <2>1, <3>1, LeastNat
    <2>3. b \in KeysIn(nodes, o) /\ KeyName(b) = KeyName(c[p])
      BY <2>2
    <2>4. PICK q \in OddFrom(c, 1) : b = c[q]
      BY <1>4, <2>3
    <2>5. ~ HadBefore(nodes, o, b)
      <3> SUFFICES ASSUME NEW x \in KeysIn(nodes, o), x < b, NameIn(nodes, x) = NameIn(nodes, b) PROVE FALSE
        BY DEF HadBefore
      <3>1. x \in B
        BY <2>3, ReadingsAre
      <3>2. x \in Nat /\ b \in Nat
        BY <1>2, <1>4, <1>5, <2>4
      <3>3. b <= x
        BY <2>2, <3>1
      <3> QED
        BY <3>2, <3>3
    <2>6. ~ Lost(nodes, b)
      BY <1>5, <2>4, <2>5
    <2> QED
      BY <2>3, <2>6 DEF KeysKept
  <1>10. DOMAIN g = {KeyName(k) : k \in KeysKept(o)}
    BY <1>6, <1>7, <1>9
  <1> QED
    BY <1>6, <1>8, <1>10 DEF Maps

(* Two maps of the same keys are one.                                      *)
LEMMA MapsAgree ==
  ASSUME NEW g, NEW h, NEW f, NEW K, Maps(g, f, K), Maps(h, f, K)
  PROVE  g = h
  <1>1. DOMAIN g = DOMAIN h /\ \A n \in DOMAIN g : g[n] = h[n]
    BY DEF Maps
  <1>2. g = [n \in DOMAIN g |-> g[n]] /\ h = [n \in DOMAIN h |-> h[n]]
    BY DEF Maps
  <1> QED
    BY <1>1, <1>2, SameMap
---------------------------------------------------------------------------
(* The texts with what they stand for, freed from the sizes.               *)

AllValues  == UNION {Upto[n].values : n \in Nat}
AllItems   == UNION {Upto[n].items : n \in Nat}
AllMembers == UNION {Upto[n].members : n \in Nat}

(* They are texts, and there from the size of their text on.               *)
LEMMA SizedAll ==
  /\ \A e \in AllValues \cup AllItems \cup AllMembers : e.text \in Word /\ Len(e.text) \in Nat /\ 0 < Len(e.text)
  /\ \A e \in AllValues : \A n \in Nat : Len(e.text) <= n => e \in Upto[n].values
  /\ \A e \in AllItems : \A n \in Nat : Len(e.text) <= n => e \in Upto[n].items
  /\ \A e \in AllMembers : \A n \in Nat : Len(e.text) <= n => e \in Upto[n].members
  <1>1. \A n \in Nat : AllSized(Upto[n], n)
    BY UptoSized
  <1>2. \A n, m \in Nat : AllStays(Upto[n], Upto[m], m)
    BY UptoStays
  <1>3. ASSUME NEW e \in AllValues
        PROVE  /\ e.text \in Word /\ Len(e.text) \in Nat /\ 0 < Len(e.text)
               /\ \A n \in Nat : Len(e.text) <= n => e \in Upto[n].values
    <2>1. PICK k \in Nat : e \in Upto[k].values
      BY DEF AllValues
    <2>2. AllSized(Upto[k], k) /\ \A n \in Nat : AllStays(Upto[k], Upto[n], n)
      BY <1>1, <1>2
    <2> QED
      BY <2>1, <2>2 DEF AllSized, AllStays, Sized, Stays
  <1>4. ASSUME NEW e \in AllItems
        PROVE  /\ e.text \in Word /\ Len(e.text) \in Nat /\ 0 < Len(e.text)
               /\ \A n \in Nat : Len(e.text) <= n => e \in Upto[n].items
    <2>1. PICK k \in Nat : e \in Upto[k].items
      BY DEF AllItems
    <2>2. AllSized(Upto[k], k) /\ \A n \in Nat : AllStays(Upto[k], Upto[n], n)
      BY <1>1, <1>2
    <2> QED
      BY <2>1, <2>2 DEF AllSized, AllStays, Sized, Stays
  <1>5. ASSUME NEW e \in AllMembers
        PROVE  /\ e.text \in Word /\ Len(e.text) \in Nat /\ 0 < Len(e.text)
               /\ \A n \in Nat : Len(e.text) <= n => e \in Upto[n].members
    <2>1. PICK k \in Nat : e \in Upto[k].members
      BY DEF AllMembers
    <2>2. AllSized(Upto[k], k) /\ \A n \in Nat : AllStays(Upto[k], Upto[n], n)
      BY <1>1, <1>2
    <2> QED
      BY <2>1, <2>2 DEF AllSized, AllStays, Sized, Stays
  <1> QED
    BY <1>3, <1>4, <1>5

(* A leaf is a value.                                                      *)
LEMMA LeafStands ==
  \A e \in Leaves : e \in AllValues
  <1> TAKE e \in Leaves
  <1>1. e \in ValuesFrom(1, Upto[0])
    BY ValuesAre
  <1>2. Upto[1].values = ValuesFrom(1, Upto[1 - 1])
    BY UptoParts
  <1>3. e \in Upto[1].values
    BY <1>1, <1>2
  <1> QED
    BY <1>3 DEF AllValues

(* Brackets around items or members, or nothing, make one.                 *)
LEMMA EnclosedStands ==
  /\ \A e \in AllItems \cup {NoItems} : ArrayOf(e) \in AllValues
  /\ \A e \in AllMembers \cup {NoMembers} : ObjectOf(e) \in AllValues
  <1>1. ASSUME NEW e \in AllItems \cup {NoItems} PROVE ArrayOf(e) \in AllValues
    <2>1. Len(e.text) \in Nat
      <3>1. CASE e = NoItems
        BY <3>1 DEF NoItems
      <3>2. CASE e \in AllItems
        BY <3>2, SizedAll
      <3> QED
        BY <3>1, <3>2
    <2> DEFINE n == Len(e.text) + 2
    <2>2. n \in Nat \ {0} /\ n >= 2 /\ n - 1 \in Nat /\ Len(e.text) <= n - 1 /\ Len(e.text) <= n - 2
      BY <2>1
    <2> HIDE DEF n
    <2>3. e \in Short(Upto[n - 1].items, n - 2) \cup {NoItems}
      BY <2>2, SizedAll DEF Short
    <2>4. ArrayOf(e) \in ValuesFrom(n, Upto[n - 1])
      BY <2>2, <2>3, ValuesAre, Zenon
    <2>5. ArrayOf(e) \in Upto[n].values
      BY <2>2, <2>4, UptoParts
    <2> QED
      BY <2>2, <2>5 DEF AllValues
  <1>2. ASSUME NEW e \in AllMembers \cup {NoMembers} PROVE ObjectOf(e) \in AllValues
    <2>1. Len(e.text) \in Nat
      <3>1. CASE e = NoMembers
        BY <3>1 DEF NoMembers
      <3>2. CASE e \in AllMembers
        BY <3>2, SizedAll
      <3> QED
        BY <3>1, <3>2
    <2> DEFINE n == Len(e.text) + 2
    <2>2. n \in Nat \ {0} /\ n >= 2 /\ n - 1 \in Nat /\ Len(e.text) <= n - 1 /\ Len(e.text) <= n - 2
      BY <2>1
    <2> HIDE DEF n
    <2>3. e \in Short(Upto[n - 1].members, n - 2) \cup {NoMembers}
      BY <2>2, SizedAll DEF Short
    <2>4. ObjectOf(e) \in ValuesFrom(n, Upto[n - 1])
      BY <2>2, <2>3, ValuesAre, Zenon
    <2>5. ObjectOf(e) \in Upto[n].values
      BY <2>2, <2>4, UptoParts
    <2> QED
      BY <2>2, <2>5 DEF AllValues
  <1> QED
    BY <1>1, <1>2

(* A value is a list of one, and makes a list longer.                      *)
LEMMA ItemsStand ==
  ASSUME NEW v \in AllValues
  PROVE  OneItem(v) \in AllItems /\ \A e \in AllItems : MoreItems(v, e) \in AllItems
  <1>1. Len(v.text) \in Nat /\ 0 < Len(v.text)
    BY SizedAll
  <1>2. OneItem(v) \in AllItems
    <2> DEFINE n == Len(v.text)
    <2>1. n \in Nat \ {0} /\ v \in Upto[n].values
      BY <1>1, SizedAll
    <2> HIDE DEF n
    <2>2. OneItem(v) \in ItemsFrom(n, Upto[n].values, Upto[n - 1])
      BY <2>1 DEF ItemsFrom
    <2>3. OneItem(v) \in Upto[n].items
      BY <2>1, <2>2, UptoParts
    <2> QED
      BY <2>1, <2>3 DEF AllItems
  <1>3. ASSUME NEW e \in AllItems PROVE MoreItems(v, e) \in AllItems
    <2> DEFINE a == Len(v.text)  b == Len(e.text)  n == a + 1 + b
    <2>1. b \in Nat
      BY SizedAll
    <2>2. n \in Nat \ {0} /\ n - 1 \in Nat /\ a <= n /\ b <= n - 1 /\ b <= n - 1 - a
      <3> HIDE DEF a, b
      <3> QED
        BY <1>1, <2>1 DEF a
    <2> HIDE DEF n
    <2>3. v \in Upto[n].values /\ e \in Upto[n - 1].items
      BY <2>2, SizedAll
    <2>4. e \in Short(Upto[n - 1].items, n - 1 - Len(v.text))
      BY <2>2, <2>3 DEF Short
    <2>5. MoreItems(v, e) \in ItemsFrom(n, Upto[n].values, Upto[n - 1])
      BY <2>3, <2>4 DEF ItemsFrom
    <2>6. MoreItems(v, e) \in Upto[n].items
      BY <2>2, <2>5, UptoParts
    <2> QED
      BY <2>2, <2>6 DEF AllItems
  <1> QED
    BY <1>2, <1>3

(* And so is a pair, of members.                                           *)
LEMMA MembersStand ==
  ASSUME NEW n \in Name, NEW v \in AllValues
  PROVE  Pair(n, v) \in AllMembers /\ \A e \in AllMembers : MoreMembers(Pair(n, v), e) \in AllMembers
  <1>1. v.text \in Word /\ Len(v.text) \in Nat /\ 0 < Len(v.text)
    BY SizedAll
  <1>2. Len(Pair(n, v).text) = Len(v.text) + 2
    <2>1. Pair(n, v).text = Labelled(n, v.text)
      BY TextsOf
    <2> QED
      BY <1>1, <2>1, LabelledFacts
  <1>3. ASSUME NEW s \in Nat, Len(v.text) <= s - 2 PROVE Pair(n, v) \in PairsFrom(s, Upto[s].values)
    <2>1. v \in Upto[s].values
      BY <1>1, <1>3, SizedAll
    <2>2. v \in Short(Upto[s].values, s - 2)
      BY <1>3, <2>1 DEF Short
    <2> QED
      BY <2>2, PairsAre, Zenon
  <1> DEFINE p == Pair(n, v)
  <1> HIDE DEF p
  <1>4. p \in AllMembers
    <2> DEFINE s == Len(v.text) + 2
    <2>1. s \in Nat \ {0} /\ Len(v.text) <= s - 2
      BY <1>1
    <2> HIDE DEF s
    <2>2. p \in MembersFrom(s, PairsFrom(s, Upto[s].values), Upto[s - 1])
      BY <1>3, <2>1 DEF MembersFrom, p
    <2>3. p \in Upto[s].members
      BY <2>1, <2>2, UptoParts
    <2> QED
      BY <2>1, <2>3 DEF AllMembers
  <1>5. ASSUME NEW e \in AllMembers PROVE MoreMembers(p, e) \in AllMembers
    <2> DEFINE a == Len(v.text)  b == Len(e.text)  c == Len(p.text)  s == a + 3 + b
    <2>1. a \in Nat /\ b \in Nat /\ c = a + 2
      BY <1>1, <1>2, SizedAll DEF p
    <2>2. s \in Nat \ {0} /\ s - 1 \in Nat /\ a <= s - 2 /\ b <= s - 1 /\ b <= s - 1 - c
      <3> HIDE DEF a, b, c
      <3> QED
        BY <2>1
    <2> HIDE DEF s
    <2>3. p \in PairsFrom(s, Upto[s].values) /\ e \in Upto[s - 1].members
      BY <1>3, <2>2, SizedAll DEF p
    <2>4. e \in Short(Upto[s - 1].members, s - 1 - Len(p.text))
      BY <2>2, <2>3 DEF Short
    <2>5. MoreMembers(p, e) \in MembersFrom(s, PairsFrom(s, Upto[s].values), Upto[s - 1])
      BY <2>3, <2>4 DEF MembersFrom
    <2>6. MoreMembers(p, e) \in Upto[s].members
      BY <2>2, <2>5, UptoParts
    <2> QED
      BY <2>2, <2>6 DEF AllMembers
  <1> QED
    BY <1>4, <1>5 DEF p

---------------------------------------------------------------------------
(* What the nodes of a text stand for in it.                               *)

(* The pieces of a text, joined.                                           *)
LEMMA Pieces ==
  ASSUME NEW d \in AnyWord, NEW a \in 1 .. Len(d), NEW c \in a .. Len(d)
  PROVE  /\ SubSeq(d, a, a) = <<d[a]>>
         /\ \A b \in a .. c : b + 2 <= c => SubSeq(d, a, c) = SubSeq(d, a, b) \o <<d[b + 1]>> \o SubSeq(d, b + 2, c)
         /\ a < c => SubSeq(d, a, c) = <<d[a]>> \o SubSeq(d, a + 1, c - 1) \o <<d[c]>>
         /\ a + 2 <= c => SubSeq(d, a, c) = <<d[a], d[a + 1]>> \o SubSeq(d, a + 2, c)
         /\ SubSeq(d, a + 1, a) = <<>>
  <1> DEFINE S == AnyToken
  <1>1. d \in Seq(S) /\ Len(d) \in Nat /\ a \in Nat /\ c \in Nat /\ a <= c /\ c <= Len(d) /\ 1 <= a
    BY DEF AnyWord
  <1>2. \A i \in 1 .. Len(d) : d[i] \in S
    BY <1>1
  <1> HIDE DEF S
  <1>3. \A m \in 1 .. Len(d), n \in 1 .. Len(d) : m <= n =>
          /\ SubSeq(d, m, n) = <<d[m]>> \o SubSeq(d, m + 1, n)
          /\ SubSeq(d, m, n) = SubSeq(d, m, n - 1) \o <<d[n]>>
    <2> TAKE m \in 1 .. Len(d), n \in 1 .. Len(d)
    <2> HAVE m <= n
    <2>1. n \in m .. Len(d)
      BY <1>1
    <2> QED
      BY <1>1, <2>1, SubSeqRecursiveFirst, SubSeqRecursiveSecond
  <1>4. \A m, n \in Int : n < m => SubSeq(d, m, n) = <<>>
    BY SubSeqEmpty
  <1>5. \A t \in S : <<t>> \o <<>> = <<t>> /\ <<t>> \in Seq(S)
    OBVIOUS
  <1>6. \A m \in 1 .. Len(d) : SubSeq(d, m, m) = <<d[m]>>
    <2> TAKE m \in 1 .. Len(d)
    <2>1. SubSeq(d, m, m) = <<d[m]>> \o SubSeq(d, m + 1, m)
      BY <1>1, <1>3
    <2>2. SubSeq(d, m + 1, m) = <<>>
      BY <1>1, <1>4
    <2> QED
      BY <1>2, <1>5, <2>1, <2>2
  <1>7. \A b \in a .. c : b + 2 <= c => SubSeq(d, a, c) = SubSeq(d, a, b) \o <<d[b + 1]>> \o SubSeq(d, b + 2, c)
    <2> TAKE b \in a .. c
    <2> HAVE b + 2 <= c
    <2>1. a \in 1 .. Len(d) + 1 /\ b + 1 \in a - 1 .. Len(d) /\ c \in b + 1 .. Len(d) /\ b + 1 \in 1 .. Len(d)
      BY <1>1
    <2>2. SubSeq(d, a, b + 1) \o SubSeq(d, (b + 1) + 1, c) = SubSeq(d, a, c)
      BY <1>1, <2>1, ConcatAdjacentSubSeq
    <2>3. (b + 1) + 1 = b + 2 /\ (b + 1) - 1 = b /\ a <= b + 1
      BY <1>1
    <2>4. SubSeq(d, a, b + 1) = SubSeq(d, a, b) \o <<d[b + 1]>>
      BY <1>3, <2>1, <2>3
    <2> QED
      BY <2>2, <2>3, <2>4
  <1>8. a < c => SubSeq(d, a, c) = <<d[a]>> \o SubSeq(d, a + 1, c - 1) \o <<d[c]>>
    <2> HAVE a < c
    <2>1. c \in 1 .. Len(d) /\ c - 1 \in 1 .. Len(d) /\ a <= c - 1
      BY <1>1
    <2> QED
      BY <1>1, <1>3, <2>1
  <1>9. a + 2 <= c => SubSeq(d, a, c) = <<d[a], d[a + 1]>> \o SubSeq(d, a + 2, c)
    <2> HAVE a + 2 <= c
    <2>1. a + 1 \in 1 .. Len(d) /\ a <= a + 1 /\ (a + 1) + 1 = a + 2
      BY <1>1
    <2>2. SubSeq(d, a, a + 1) = <<d[a]>> \o SubSeq(d, a + 1, a + 1)
      BY <1>3, <2>1
    <2>3. SubSeq(d, a + 1, a + 1) = <<d[a + 1]>>
      BY <1>6, <2>1
    <2>4. d[a] \in S /\ d[a + 1] \in S
      BY <1>2, <2>1
    <2>5. <<d[a]>> \o <<d[a + 1]>> = <<d[a], d[a + 1]>>
      BY <2>4, TwoJoined
    <2>6. a \in 1 .. Len(d) + 1 /\ a + 1 \in a - 1 .. Len(d) /\ c \in a + 1 .. Len(d)
      BY <1>1
    <2>7. SubSeq(d, a, a + 1) \o SubSeq(d, (a + 1) + 1, c) = SubSeq(d, a, c)
      BY <1>1, <2>6, ConcatAdjacentSubSeq
    <2> QED
      BY <2>1, <2>2, <2>3, <2>5, <2>7
  <1>10. SubSeq(d, a + 1, a) = <<>>
    BY <1>1, <1>4
  <1> QED
    BY <1>6, <1>7, <1>8, <1>9, <1>10

\* The AST of a text read to its end, each node from token st to token en.
Whole(st, en) ==
  /\ LinksOK
  /\ doc \in AnyWord
  /\ Spans(doc, Len(doc), nodes, {}, st, en)

\* A value of the grammar has the text of node i, and the value f has for it.
Stands(f, st, en, i) ==
  \E e \in AllValues : e.text = SubSeq(doc, st[i], en[i]) /\ (~ Lost(nodes, i) => e.value = f[i])

(* Where a node and its children are.                                      *)
LEMMA WholeFacts ==
  ASSUME NEW st, NEW en, Whole(st, en), NEW i \in 1 .. Len(nodes), NEW c, c = Kids(nodes, i), NEW t, t = nodes[i].token
  PROVE  /\ Len(doc) \in Nat /\ st[i] \in 1 .. Len(doc) /\ en[i] \in st[i] .. Len(doc) /\ doc[st[i]] = t
         /\ t \in Token /\ t.type \in NodeTypes
         /\ c # <<>> => st[c[1]] = st[i] + 1
         /\ \A m \in 1 .. Len(c) - 1 :
              doc[en[c[m]] + 1] = Mark(Separator(t.type, m)) /\ st[c[m + 1]] = en[c[m]] + 2
         /\ t.type \in Openers => /\ doc[en[i]] = Mark(Closing(t.type))
                                  /\ c = <<>> => en[i] = st[i] + 1
                                  /\ c # <<>> => en[i] = en[c[Len(c)]] + 1
         /\ t.type \notin Openers => c = <<>> /\ en[i] = st[i]
  <1>1. Span(doc, Len(doc), nodes, {}, st, en, i) /\ TypesOK(nodes) /\ Len(doc) \in Nat
    BY DEF Whole, Spans, LinksOK, AnyWord
  <1>2. NodeSpan(doc, Len(doc), nodes, {}, st, en, i) /\ ChildSpans(doc, t.type, st[i], c, {}, st, en)
    BY <1>1 DEF Span
  <1>3. EndSpan(doc, t.type, st[i], en[i], c, {}, en)
    BY <1>1 DEF Span
  <1>4. t \in Token /\ t.type \in NodeTypes
    BY <1>1 DEF TypesOK
  <1>5. st[i] \in 1 .. Len(doc) /\ en[i] \in st[i] .. Len(doc) /\ doc[st[i]] = t
    BY <1>2 DEF NodeSpan
  <1>6. /\ c # <<>> => st[c[1]] = st[i] + 1
        /\ \A m \in 1 .. Len(c) - 1 :
             doc[en[c[m]] + 1] = Mark(Separator(t.type, m)) /\ st[c[m + 1]] = en[c[m]] + 2
    BY <1>2 DEF ChildSpans
  <1>7. t.type \in Openers => /\ doc[en[i]] = Mark(Closing(t.type))
                              /\ c = <<>> => en[i] = st[i] + 1
                              /\ c # <<>> => en[i] = en[c[Len(c)]] + 1
    BY <1>3 DEF EndSpan
  <1>8. t.type \notin Openers => c = <<>> /\ en[i] = st[i]
    BY <1>3 DEF EndSpan
  <1> QED
    BY <1>1, <1>4, <1>5, <1>6, <1>7, <1>8

(* The children of a node have theirs.                                     *)
LEMMA ChildrenPlaced ==
  ASSUME NEW st, NEW en, Whole(st, en), NEW i \in 1 .. Len(nodes)
  PROVE  ChildSpans(doc, nodes[i].token.type, st[i], Kids(nodes, i), {}, st, en)
  <1>1. Span(doc, Len(doc), nodes, {}, st, en, i)
    BY DEF Whole, Spans
  <1> QED
    BY <1>1 DEF Span

(* Every node has its place in the text.                                   *)
LEMMA Places ==
  ASSUME NEW st, NEW en, Whole(st, en)
  PROVE  /\ Len(doc) \in Nat
         /\ \A i \in 1 .. Len(nodes) : st[i] \in 1 .. Len(doc) /\ en[i] \in st[i] .. Len(doc) /\ doc[st[i]] = nodes[i].token
  <1>1. Len(doc) \in Nat
    BY DEF Whole, AnyWord
  <1>2. ASSUME NEW i \in 1 .. Len(nodes)
        PROVE  st[i] \in 1 .. Len(doc) /\ en[i] \in st[i] .. Len(doc) /\ doc[st[i]] = nodes[i].token
    <2>1. Span(doc, Len(doc), nodes, {}, st, en, i)
      BY DEF Whole, Spans
    <2> QED
      BY <2>1 DEF Span, NodeSpan
  <1> QED
    BY <1>1, <1>2

(* A leaf is one token.                                                    *)
LEMMA LeafRead ==
  ASSUME NEW st, NEW en, Whole(st, en), NEW f, NEW i \in 1 .. Len(nodes), f[i] = ValueAt(f, i),
         nodes[i].token.type \notin Openers
  PROVE  /\ Stands(f, st, en, i) /\ en[i] = st[i]
         /\ \A n : nodes[i].token = String(n) => SubSeq(doc, st[i], en[i]) = <<String(n)>>
  <1> DEFINE t == nodes[i].token
  <1>1. st[i] \in 1 .. Len(doc) /\ doc[st[i]] = t /\ t \in Token /\ t.type \in NodeTypes /\ en[i] = st[i]
    BY WholeFacts
  <1>2. doc \in AnyWord /\ Len(doc) \in Nat
    BY DEF Whole, AnyWord
  <1>3. st[i] \in st[i] .. Len(doc)
    BY <1>1, <1>2
  <1>4. SubSeq(doc, st[i], en[i]) = <<t>>
    BY <1>1, <1>2, <1>3, Pieces
  <1>5. t.type \in {"string", "scalar"}
    BY <1>1 DEF NodeTypes
  <1>6. ~ Lost(nodes, i) => nodes[i].type = "LEAF"
    <2>1. nodes[i].type = KindOf(t.type) \/ nodes[i].type = "SKIPPED"
      BY DEF Whole, LinksOK, TypesOK
    <2>2. KindOf(t.type) = "LEAF"
      BY <1>5, Zenon DEF KindOf
    <2> QED
      BY <2>1, <2>2 DEF Lost
  <1>7. ~ Lost(nodes, i) => f[i] = ValueOfLeaf(t)
    BY <1>6, Zenon DEF ValueAt
  <1>8. CASE t.type = "string"
    <2>1. PICK n \in Name : t = String(n)
      BY <1>1, <1>8, LeafTokens
    <2> DEFINE e == [text |-> <<String(n)>>, value |-> StringValue(n)]
    <2>2. e \in AllValues
      BY LeafStands DEF Leaves
    <2>3. ValueOfLeaf(t) = StringValue(n)
      <3>1. t.name = n
        BY <2>1 DEF String
      <3> HIDE DEF t
      <3>2. ValueOfLeaf(t) = StringValue(t.name)
        BY <1>8, Zenon DEF ValueOfLeaf
      <3> QED
        BY <3>1, <3>2
    <2>4. e.text = <<t>> /\ e.value = ValueOfLeaf(t)
      BY <2>1, <2>3
    <2> QED
      BY <1>1, <1>4, <1>7, <2>2, <2>4 DEF Stands
  <1>9. CASE t.type = "scalar"
    <2>1. t = Scalar
      BY <1>1, <1>9, LeafTokens
    <2> DEFINE e == [text |-> <<Scalar>>, value |-> ScalarValue]
    <2>2. e \in AllValues
      BY LeafStands DEF Leaves
    <2>3. ValueOfLeaf(t) = NumberValue(0)
      <3>1. t.name = 0
        BY <2>1 DEF Scalar, Mark
      <3> HIDE DEF t
      <3>2. t.type # "string"
        BY <1>9
      <3>3. ValueOfLeaf(t) = NumberValue(t.name)
        BY <1>9, <3>2, Zenon DEF ValueOfLeaf
      <3> QED
        BY <3>1, <3>3
    <2>4. e.text = <<t>> /\ e.value = ValueOfLeaf(t)
      BY <2>1, <2>3 DEF ScalarValue
    <2> QED
      BY <1>1, <1>4, <1>7, <2>2, <2>4 DEF Stands
  <1> QED
    BY <1>5, <1>8, <1>9

\* All nodes of a row stand for their values.
AllStand(f, st, en, c) == \A m \in 1 .. Len(c) : Stands(f, st, en, c[m])

\* The elements of row c from number m on are items of values v.
ItemsRead(st, en, c, v, m) ==
  \E e \in AllItems :
    /\ e.text = SubSeq(doc, st[c[m]], en[c[Len(c)]]) /\ e.items = SubSeq(v, m, Len(c))
    /\ st[c[m]] <= en[c[Len(c)]] /\ en[c[Len(c)]] <= Len(doc)

(* Of an array whose items stand for their values, so do those from any    *)
(* item on.                                                                *)
LEMMA ItemsFollow ==
  ASSUME NEW st, NEW en, Whole(st, en), NEW f, NEW i \in 1 .. Len(nodes), nodes[i].token.type = "[",
         NEW c, c = Kids(nodes, i), AllStand(f, st, en, c),
         NEW l, l = Len(c), NEW v, v = Valued(f, c), NEW m \in 1 .. l
  PROVE  ItemsRead(st, en, c, v, m)
  <1> DEFINE S == {f[k] : k \in 1 .. Len(nodes)}
             Is(j, e) == /\ e.text = SubSeq(doc, st[c[j]], en[c[l]]) /\ e.items = SubSeq(v, j, l)
                         /\ st[c[j]] <= en[c[l]] /\ en[c[l]] <= Len(doc)
             T == {j \in 1 .. l : ~ \E e \in AllItems : Is(j, e)}
  <1>1. /\ LinksOK /\ doc \in AnyWord /\ Len(doc) \in Nat
        /\ c \in Seq(1 .. Len(nodes)) /\ l \in Nat /\ Len(nodes) \in Nat
        /\ \A j \in 1 .. l : c[j] \in 1 .. Len(nodes) /\ nodes[c[j]].parent = i
    <2>1. LinksOK /\ doc \in AnyWord /\ Len(doc) \in Nat
      BY DEF Whole, AnyWord
    <2> QED
      BY <2>1, KidsHere, SMTT(30)
  <1>2. \A j \in 1 .. l : st[c[j]] \in 1 .. Len(doc) /\ en[c[j]] \in st[c[j]] .. Len(doc)
    BY <1>1, Places
  <1>3. \A j \in 1 .. l - 1 : doc[en[c[j]] + 1] = Mark(",") /\ st[c[j + 1]] = en[c[j]] + 2
    <2>1. \A j : Separator("[", j) = ","
      BY DEF Separator
    <2> DEFINE t == nodes[i].token
    <2>2. t = nodes[i].token /\ t.type = "["
      OBVIOUS
    <2> HIDE DEF t
    <2>3. \A j \in 1 .. l - 1 :
            doc[en[c[j]] + 1] = Mark(Separator(t.type, j)) /\ st[c[j + 1]] = en[c[j]] + 2
      <3>1. ChildSpans(doc, t.type, st[i], c, {}, st, en)
        BY <2>2, ChildrenPlaced
      <3> QED
        BY <3>1 DEF ChildSpans
    <2>4. \A j : Separator(t.type, j) = ","
      BY <2>1, <2>2, Zenon
    <2>5. ASSUME NEW j \in 1 .. l - 1 PROVE doc[en[c[j]] + 1] = Mark(",") /\ st[c[j + 1]] = en[c[j]] + 2
      <3> DEFINE x == Separator(t.type, j)
      <3>1. doc[en[c[j]] + 1] = Mark(x) /\ st[c[j + 1]] = en[c[j]] + 2
        BY <2>3
      <3>2. x = ","
        BY <2>4
      <3> HIDE DEF x
      <3> QED
        BY <3>1, <3>2
    <2> QED
      BY <2>5
  <1>4. \A j \in 1 .. l : ~ Lost(nodes, c[j])
    <2> TAKE j \in 1 .. l
    <2>1. i \notin ObjectsIn(nodes)
      BY DEF ObjectsIn
    <2>2. \/ nodes[c[j]].type = KindOf(nodes[c[j]].token.type)
          \/ nodes[c[j]].type = "SKIPPED" /\ i \in ObjectsIn(nodes)
      BY <1>1 DEF LinksOK, TypesOK
    <2>3. \A k : KindOf(k) # "SKIPPED"
      BY DEF KindOf
    <2> QED
      BY <2>1, <2>2, <2>3 DEF Lost
  <1>5. \A j \in 1 .. l : \E e \in AllValues : e.text = SubSeq(doc, st[c[j]], en[c[j]]) /\ e.value = f[c[j]]
    BY <1>4 DEF Stands, AllStand
  <1>6. v \in Seq(S) /\ Len(v) = l /\ \A j \in 1 .. l : v[j] = f[c[j]] /\ v[j] \in S
    <2>1. \A j \in 1 .. l : f[c[j]] \in S
      BY <1>1
    <2> HIDE DEF S
    <2> QED
      BY <1>1, <2>1 DEF Valued
  <1> HIDE DEF S
  <1>7. \A j \in 1 .. l : SubSeq(v, j, l) = <<v[j]>> \o SubSeq(v, j + 1, l)
    <2> TAKE j \in 1 .. l
    <2>1. j \in 1 .. Len(v) /\ l \in j .. Len(v)
      BY <1>1, <1>6
    <2> QED
      BY <1>6, <2>1, SubSeqRecursiveFirst
  <1> SUFFICES ASSUME T # {} PROVE FALSE
    BY DEF ItemsRead
  <1>8. PICK j \in T : \A k \in T : k <= j
    <2>1. T \subseteq 0 .. l
      BY <1>1
    <2> HIDE DEF T
    <2> QED
      BY <1>1, <2>1, GreatestNat
  <1>9. j \in 1 .. l /\ ~ \E e \in AllItems : Is(j, e)
    BY <1>8
  <1>10. PICK w \in AllValues : w.text = SubSeq(doc, st[c[j]], en[c[j]]) /\ w.value = v[j]
    BY <1>5, <1>6, <1>9
  <1>11. CASE j = l
    <2>1. OneItem(w) \in AllItems /\ OneItem(w).text = w.text /\ OneItem(w).items = <<v[j]>>
      BY <1>10, ItemsStand, TextsOf DEF OneItem
    <2>2. SubSeq(v, l + 1, l) = <<>>
      BY <1>1, SubSeqEmpty
    <2>3. <<v[j]>> \o <<>> = <<v[j]>>
      BY <1>6, <1>9
    <2>4. SubSeq(v, j, l) = <<v[j]>>
      BY <1>7, <1>9, <1>11, <2>2, <2>3
    <2>5. st[c[j]] <= en[c[l]] /\ en[c[l]] <= Len(doc)
      BY <1>1, <1>2, <1>9, <1>11
    <2>6. Is(j, OneItem(w))
      BY <1>10, <1>11, <2>1, <2>4, <2>5
    <2> HIDE DEF Is
    <2> QED
      BY <1>9, <2>1, <2>6
  <1>12. CASE j # l
    <2>1. j + 1 \in 1 .. l /\ j \in 1 .. l - 1 /\ ~ (j + 1 <= j)
      BY <1>1, <1>9, <1>12
    <2>2. j + 1 \notin T
      <3> HIDE DEF T
      <3> QED
        BY <1>8, <2>1
    <2>3. PICK e \in AllItems : Is(j + 1, e)
      BY <2>1, <2>2
    <2> DEFINE a == st[c[j]]  b == en[c[j]]  d == en[c[l]]
    <2>4. /\ a \in 1 .. Len(doc) /\ b \in a .. Len(doc)
          /\ doc[b + 1] = Mark(",") /\ st[c[j + 1]] = b + 2
      BY <1>2, <1>3, <1>9, <2>1
    <2>5. d \in 1 .. Len(doc)
      <3>1. l \in 1 .. l
        BY <1>1, <1>9
      <3>2. st[c[l]] \in 1 .. Len(doc) /\ d \in st[c[l]] .. Len(doc)
        BY <1>2, <3>1
      <3> HIDE DEF d
      <3> QED
        BY <1>1, <3>2, RangesNest
    <2>6. /\ e.text = SubSeq(doc, b + 2, d) /\ e.items = SubSeq(v, j + 1, l) /\ b + 2 <= d
      BY <2>3, <2>4
    <2> HIDE DEF a, b, d
    <2>7. b \in a .. d /\ d \in a .. Len(doc) /\ a <= d /\ d <= Len(doc)
      <3>1. a \in 1 .. Len(doc) /\ b \in a .. Len(doc) /\ b + 2 <= d /\ d \in 1 .. Len(doc)
        BY <2>4, <2>5, <2>6, Zenon
      <3> DEFINE n == Len(doc)
      <3>2. n \in Nat
        BY <1>1
      <3> HIDE DEF n
      <3>3. a \in 1 .. n /\ b \in a .. n /\ b + 2 <= d /\ d \in 1 .. n
        BY <3>1 DEF n
      <3>4. b \in a .. d /\ d \in a .. n /\ a <= d /\ d <= n
        BY <3>2, <3>3
      <3> QED
        BY <3>4 DEF n
    <2>8. SubSeq(doc, a, d) = SubSeq(doc, a, b) \o <<doc[b + 1]>> \o SubSeq(doc, b + 2, d)
      BY <1>1, <2>4, <2>6, <2>7, Pieces
    <2> DEFINE x == MoreItems(w, e)
    <2>9. x.text = SubSeq(doc, a, d)
      <3>1. x.text = Listed(w.text, e.text)
        BY TextsOf, Zenon
      <3>2. w.text = SubSeq(doc, a, b)
        BY <1>10 DEF a, b
      <3> HIDE DEF x
      <3> QED
        BY <2>4, <2>6, <2>8, <3>1, <3>2 DEF Listed
    <2>10. x.items = SubSeq(v, j, l)
      <3>1. x.items = <<v[j]>> \o SubSeq(v, j + 1, l)
        BY <1>10, <2>6 DEF MoreItems
      <3> HIDE DEF x
      <3> QED
        BY <1>7, <1>9, <3>1
    <2>11. x \in AllItems
      BY <1>10, <2>3, ItemsStand
    <2> HIDE DEF x
    <2>12. Is(j, x)
      BY <2>7, <2>9, <2>10 DEF a, d
    <2> HIDE DEF Is
    <2> QED
      BY <1>9, <2>11, <2>12
  <1> QED
    BY <1>11, <1>12

(* An array stands for its items.                                          *)
LEMMA ArrayRead ==
  ASSUME NEW st, NEW en, Whole(st, en), NEW f, NEW i \in 1 .. Len(nodes), f[i] = ValueAt(f, i),
         nodes[i].token.type = "[", \A m \in 1 .. Len(Kids(nodes, i)) : Stands(f, st, en, Kids(nodes, i)[m])
  PROVE  Stands(f, st, en, i)
  <1> DEFINE c == Kids(nodes, i)
             l == Len(c)
             v == Valued(f, c)
             t == nodes[i].token
             a == st[i]
             d == en[i]
  <1>1. /\ LinksOK /\ doc \in AnyWord /\ Len(doc) \in Nat
        /\ c \in Seq(1 .. Len(nodes)) /\ l \in Nat /\ Len(nodes) \in Nat /\ nodes[i].firstChild \in 0 .. Len(nodes)
    <2>1. LinksOK /\ doc \in AnyWord /\ Len(doc) \in Nat
      BY DEF Whole, AnyWord
    <2> QED
      BY <2>1, KidsHere
  <1>2. /\ a \in 1 .. Len(doc) /\ d \in a .. Len(doc) /\ doc[a] = t /\ t \in Token
        /\ c # <<>> => st[c[1]] = a + 1
        /\ doc[d] = Mark(Closing("[")) /\ (c = <<>> => d = a + 1) /\ (c # <<>> => d = en[c[Len(c)]] + 1)
    <2>1. "[" \in Openers
      BY DEF Openers
    <2> QED
      BY <2>1, WholeFacts
  <1>3. t = Mark("[") /\ Closing("[") = "]"
    <2>1. "[" \in Punctuation
      BY DEF Punctuation
    <2> QED
      BY <1>2, <2>1, MarkOf DEF Closing
  <1>4. ~ Lost(nodes, i) => f[i] = Array(v)
    <2>1. nodes[i].type = KindOf("[") \/ nodes[i].type = "SKIPPED"
      BY DEF Whole, LinksOK, TypesOK
    <2>2. ~ Lost(nodes, i) => nodes[i].type = "ARRAY"
      BY <2>1 DEF Lost, KindOf
    <2>3. SiblingsOK(nodes)
      BY <1>1 DEF LinksOK, KidsOK
    <2>4. ItemsOf(f, nodes[i].firstChild) = v
      BY <1>1, <2>3, ItemsAlong DEF Kids
    <2>5. "ARRAY" # "OBJECT"
      OBVIOUS
    <2>6. nodes[i].type = "ARRAY" => ValueAt(f, i) = Array(ItemsOf(f, nodes[i].firstChild))
      BY <2>5, Zenon DEF ValueAt
    <2> QED
      BY <2>2, <2>4, <2>6
  <1>5. \E e \in AllItems \cup {NoItems} : e.text = SubSeq(doc, a + 1, d - 1) /\ e.items = v
    <2>1. CASE c = <<>>
      <3>1. d - 1 = a /\ a \in a .. Len(doc)
        BY <1>1, <1>2, <2>1
      <3>2. SubSeq(doc, a + 1, a) = <<>>
        BY <1>1, <1>2, <3>1, Pieces
      <3>3. v = <<>>
        BY <2>1 DEF Valued
      <3>4. NoItems.text = <<>> /\ NoItems.items = <<>>
        BY DEF NoItems
      <3> HIDE DEF v, a, d
      <3> QED
        BY <3>1, <3>2, <3>3, <3>4
    <2>2. CASE c # <<>>
      <3>1. 1 \in 1 .. l
        BY <1>1, <2>2, RowOf
      <3>2. \E e \in AllItems : e.text = SubSeq(doc, st[c[1]], en[c[l]]) /\ e.items = SubSeq(v, 1, l) /\ en[c[l]] <= Len(doc)
        <4>1. c = Kids(nodes, i) /\ l = Len(c) /\ v = Valued(f, c) /\ AllStand(f, st, en, c)
          BY DEF AllStand
        <4> HIDE DEF c, l, v
        <4>2. ItemsRead(st, en, c, v, 1)
          BY <3>1, <4>1, ItemsFollow
        <4> QED
          BY <4>1, <4>2 DEF ItemsRead
      <3>3. SubSeq(v, 1, l) = v
        <4>1. Len(v) = l /\ v \in Seq({v[k] : k \in 1 .. l})
          BY <1>1, SMTT(30) DEF Valued
        <4> QED
          BY <4>1, SubSeqFull
      <3>4. st[c[1]] = a + 1 /\ d = en[c[l]] + 1
        BY <1>2, <2>2
      <3>5. en[c[l]] = d - 1
        <4>1. l \in 1 .. l /\ c[l] \in 1 .. Len(nodes)
          BY <1>1, <3>1, RowOf
        <4>2. en[c[l]] \in Int
          BY <4>1, Places
        <4> QED
          BY <3>4, <4>2
      <3> HIDE DEF v, a, d, l, c
      <3> QED
        BY <3>2, <3>3, <3>4, <3>5
    <2> QED
      BY <2>1, <2>2
  <1>6. PICK e \in AllItems \cup {NoItems} : e.text = SubSeq(doc, a + 1, d - 1) /\ e.items = v
    BY <1>5
  <1>7. a < d
    <2>1. CASE c = <<>>
      BY <1>1, <1>2, <2>1
    <2>2. CASE c # <<>>
      <3>1. l \in 1 .. l /\ 1 \in 1 .. l
        BY <1>1, <2>2, RowOf
      <3>2. a # d
        <4>1. Mark("[") # Mark("]")
          BY DEF Mark
        <4> QED
          BY <1>2, <1>3, <4>1
      <3> HIDE DEF a, d
      <3> QED
        BY <1>1, <1>2, <3>2
    <2> QED
      BY <2>1, <2>2
  <1> DEFINE x == ArrayOf(e)
  <1>8. x \in AllValues /\ x.value = Array(v)
    BY <1>6, EnclosedStands DEF ArrayOf
  <1>9. x.text = SubSeq(doc, a, d)
    <2>1. x.text = <<Mark("[")>> \o e.text \o <<Mark("]")>>
      BY TextsOf DEF Enclose
    <2>2. SubSeq(doc, a, d) = <<doc[a]>> \o SubSeq(doc, a + 1, d - 1) \o <<doc[d]>>
      BY <1>1, <1>2, <1>7, Pieces
    <2> HIDE DEF x, a, d
    <2> QED
      BY <1>2, <1>3, <1>6, <2>1, <2>2
  <1> HIDE DEF x
  <1> QED
    BY <1>4, <1>8, <1>9 DEF Stands

---------------------------------------------------------------------------
(* Objects.                                                                *)

\* The key at place m of a row and the value behind it are a pair, which ends
\* at token y, with what f has for the value unless it is skipped.
PairRead(f, st, c, m, y) ==
  \E v \in AllValues :
    /\ KeyName(c[m]) \in Name
    /\ Pair(KeyName(c[m]), v).text = SubSeq(doc, st[c[m]], y)
    /\ ~ Lost(nodes, c[m]) => v.value = f[c[m + 1]]

(* A key and the value behind it are a pair.                               *)
LEMMA PairFollows ==
  ASSUME NEW st, NEW en, Whole(st, en), NEW f, NEW i \in ObjectsIn(nodes),
         NEW c, c = Kids(nodes, i), AllStand(f, st, en, c), NEW m \in OddFrom(c, 1)
  PROVE  /\ m + 1 \in 1 .. Len(c)
         /\ PairRead(f, st, c, m, en[c[m + 1]])
         /\ st[c[m]] \in 1 .. Len(doc) /\ en[c[m + 1]] \in st[c[m]] .. Len(doc)
  <1> DEFINE l == Len(c)
             k == c[m]
             w == c[m + 1]
             t == nodes[k].token
             x == st[k]
             y == en[w]
             n == Len(doc)
  <1>0. i \in 1 .. Len(nodes) /\ nodes[i].token.type = "{"
    BY DEF ObjectsIn
  <1>1. /\ i \in 1 .. Len(nodes) /\ m \in 1 .. l /\ m % 2 = 1
        /\ LinksOK /\ doc \in AnyWord /\ n \in Nat /\ Len(nodes) \in Nat
    <2>1. LinksOK /\ doc \in AnyWord
      BY DEF Whole
    <2>2. n \in Nat
      BY <2>1 DEF AnyWord
    <2>3. Len(nodes) \in Nat
      BY <2>1 DEF LinksOK, TreeOK
    <2>4. m \in 1 .. l /\ m % 2 = 1
      BY DEF OddFrom
    <2> QED
      BY <1>0, <2>1, <2>2, <2>3, <2>4
  <1>2. l \in Nat /\ c \in Seq(1 .. Len(nodes)) /\ \A j \in 1 .. l : c[j] \in 1 .. Len(nodes)
    BY <1>1, KidsHere
  <1>3. /\ m + 1 \in 1 .. l
        /\ Lost(nodes, w) <=> Lost(nodes, k)
        /\ t.type = "string"
    <2>1. m \in 1 .. Len(c) /\ m % 2 = 1 /\ LinksOK
      BY <1>1
    <2>2. /\ c[m] \in KeysIn(nodes, i) /\ m + 1 \in 1 .. Len(c) /\ Sibling(c[m]) = c[m + 1]
          /\ Lost(nodes, c[m + 1]) <=> Lost(nodes, c[m])
          /\ nodes[c[m]].token.type = "string"
          /\ Lost(nodes, c[m]) <=> HadBefore(nodes, i, c[m])
      BY <2>1, BehindKey
    <2> QED
      BY <2>2
  <1>4. k \in 1 .. Len(nodes) /\ w \in 1 .. Len(nodes)
    BY <1>1, <1>2, <1>3
  <1>5. /\ x \in 1 .. n /\ doc[x] = t
        /\ st[w] \in 1 .. n /\ y \in st[w] .. n
    BY <1>4, Places
  <1>6. t \in Token /\ t.type \notin Openers
    <2>1. TypesOK(nodes)
      BY <1>1 DEF LinksOK
    <2>2. t.type = "string" /\ "string" \notin Openers
      BY <1>3 DEF Openers
    <2> QED
      BY <1>4, <2>1, <2>2 DEF TypesOK
  <1>7. en[k] = x
    <2>1. Span(doc, Len(doc), nodes, {}, st, en, k)
      BY <1>4 DEF Whole, Spans
    <2>2. EndSpan(doc, t.type, st[k], en[k], Kids(nodes, k), {}, en)
      BY <2>1 DEF Span
    <2> HIDE DEF t, k
    <2> QED
      BY <1>6, <2>2 DEF EndSpan, x
  <1>8. doc[x + 1] = Mark(":") /\ st[w] = x + 2
    <2>1. ChildSpans(doc, nodes[i].token.type, st[i], c, {}, st, en)
      BY <1>1, ChildrenPlaced
    <2>2. Separator(nodes[i].token.type, m) = ":"
      BY <1>0, <1>1 DEF Separator
    <2>3. m \in 1 .. l - 1
      <3>1. l \in Nat /\ m \in 1 .. l /\ m + 1 \in 1 .. l
        BY <1>1, <1>2, <1>3
      <3> HIDE DEF l
      <3> QED
        BY <3>1
    <2>4. doc[en[k] + 1] = Mark(Separator(nodes[i].token.type, m)) /\ st[w] = en[k] + 2
      BY <2>1, <2>3 DEF ChildSpans
    <2> QED
      BY <1>7, <2>2, <2>4
  <1>9. t = String(KeyName(k)) /\ KeyName(k) \in Name
    <2>1. PICK s \in Name : t = String(s)
      BY <1>3, <1>6, LeafTokens
    <2>2. t.name = s
      BY <2>1 DEF String
    <2> QED
      BY <2>1, <2>2 DEF KeyName
  <1>10. PICK v \in AllValues : v.text = SubSeq(doc, st[w], en[w]) /\ (~ Lost(nodes, w) => v.value = f[w])
    <2>1. Stands(f, st, en, w)
      BY <1>3 DEF AllStand
    <2> QED
      BY <2>1 DEF Stands
  <1> HIDE DEF x, y, t, n
  <1>11. y \in x .. n /\ x + 2 <= y
    <2>1. n \in Nat /\ x \in 1 .. n /\ x + 2 \in 1 .. n /\ y \in x + 2 .. n
      BY <1>1, <1>5, <1>8, Zenon
    <2> QED
      BY <2>1
  <1>12. SubSeq(doc, x, y) = <<doc[x], doc[x + 1]>> \o SubSeq(doc, x + 2, y)
    <2>1. x \in 1 .. Len(doc) /\ y \in x .. Len(doc)
      BY <1>5, <1>11 DEF n
    <2> QED
      BY <1>1, <1>11, <2>1, Pieces
  <1>13. Pair(KeyName(k), v).text = SubSeq(doc, x, y)
    <2>1. Pair(KeyName(k), v).text = <<String(KeyName(k)), Mark(":")>> \o v.text
      BY TextsOf DEF Labelled
    <2>2. v.text = SubSeq(doc, x + 2, y)
      BY <1>8, <1>10 DEF y
    <2>3. doc[x] = String(KeyName(k)) /\ doc[x + 1] = Mark(":")
      BY <1>5, <1>8, <1>9, Zenon
    <2> DEFINE z == Pair(KeyName(k), v).text
    <2> HIDE DEF z
    <2>4. z = <<String(KeyName(k)), Mark(":")>> \o v.text
      BY <2>1 DEF z
    <2>5. z = SubSeq(doc, x, y)
      BY <1>12, <2>2, <2>3, <2>4, Zenon
    <2> QED
      BY <2>5 DEF z
  <1>14. ~ Lost(nodes, k) => v.value = f[w]
    BY <1>3, <1>10
  <1>15. PairRead(f, st, c, m, y)
    <2> DEFINE a == KeyName(k)
    <2>1. a \in Name /\ Pair(a, v).text = SubSeq(doc, st[k], y) /\ (~ Lost(nodes, k) => v.value = f[w])
      BY <1>9, <1>13, <1>14 DEF x
    <2> QED
      BY <2>1, Zenon DEF PairRead
  <1> QED
    BY <1>3, <1>5, <1>11, <1>15 DEF x, y, n

\* The pairs of row c from place m on are members of a map.
MembersRead(f, st, en, c, m) ==
  \E e \in AllMembers :
    /\ e.text = SubSeq(doc, st[c[m]], en[c[Len(c)]])
    /\ st[c[m]] <= en[c[Len(c)]] /\ en[c[Len(c)]] <= Len(doc)
    /\ MapFrom(e.map, f, c, m)

(* Of an object whose children stand for their values, the pairs from any  *)
(* on are members.                                                         *)
LEMMA MembersFollow ==
  ASSUME NEW st, NEW en, Whole(st, en), Convertible, NEW f, NEW i \in ObjectsIn(nodes),
         NEW c, c = Kids(nodes, i), AllStand(f, st, en, c), NEW m \in OddFrom(c, 1)
  PROVE  MembersRead(f, st, en, c, m)
  <1> DEFINE l == Len(c)
             T == {j \in OddFrom(c, 1) : ~ MembersRead(f, st, en, c, j)}
  <1>0. i \in 1 .. Len(nodes) /\ nodes[i].token.type = "{"
    BY DEF ObjectsIn
  <1>1. LinksOK /\ doc \in AnyWord /\ Len(doc) \in Nat /\ i \in 1 .. Len(nodes)
    <2>1. LinksOK /\ doc \in AnyWord
      BY DEF Whole
    <2>2. Len(doc) \in Nat
      BY <2>1 DEF AnyWord
    <2> QED
      BY <1>0, <2>1, <2>2
  <1>2. l \in Nat /\ l % 2 = 0 /\ \A j \in 1 .. l : c[j] \in 1 .. Len(nodes)
    <2>1. l \in Nat /\ \A j \in 1 .. l : c[j] \in 1 .. Len(nodes)
      BY <1>1, KidsHere
    <2>2. l % 2 = 0
      BY <1>1 DEF LinksOK
    <2> QED
      BY <2>1, <2>2
  <1>3. \A j \in OddFrom(c, 1) : j \in 1 .. l /\ j % 2 = 1
    BY DEF OddFrom
  <1> SUFFICES ASSUME T # {} PROVE FALSE
    OBVIOUS
  <1>4. PICK j \in T : \A k \in T : k <= j
    <2>1. T \subseteq 0 .. l
      BY <1>2, <1>3
    <2> HIDE DEF T
    <2> QED
      BY <1>2, <2>1, GreatestNat
  <1>5. j \in OddFrom(c, 1) /\ ~ MembersRead(f, st, en, c, j) /\ j \in 1 .. l /\ j % 2 = 1
    BY <1>3, <1>4
  <1>6. /\ j + 1 \in 1 .. l
        /\ PairRead(f, st, c, j, en[c[j + 1]])
        /\ st[c[j]] \in 1 .. Len(doc) /\ en[c[j + 1]] \in st[c[j]] .. Len(doc)
    BY <1>5, PairFollows
  <1> DEFINE n == KeyName(c[j])
             a == st[c[j]]
             b == en[c[j + 1]]
             d == en[c[l]]
  <1>7. PICK v \in AllValues :
          /\ n \in Name /\ Pair(n, v).text = SubSeq(doc, a, b)
          /\ ~ Lost(nodes, c[j]) => v.value = f[c[j + 1]]
    BY <1>6 DEF PairRead
  <1> DEFINE p == Pair(n, v)
  <1>8. p.map = OneName(n, v.value) /\ p \in AllMembers
    BY <1>7, MembersStand DEF Pair
  <1>9. /\ j + 1 = Len(c) => MapFrom(OneName(n, v.value), f, c, j)
        /\ \A g : MapFrom(g, f, c, j + 2) => MapFrom(Overlaid(OneName(n, v.value), g), f, c, j)
    <2>1. i \in ObjectsIn(nodes) /\ j \in OddFrom(c, 1) /\ (~ Lost(nodes, c[j]) => v.value = f[c[j + 1]])
      BY <1>5, <1>7
    <2> QED
      BY <1>1, <2>1, MapGrows, Zenon
  <1> HIDE DEF n
  <1>10. CASE j + 1 = l
    <2>1. p.text = SubSeq(doc, a, d) /\ a <= d /\ d <= Len(doc)
      <3>1. p.text = SubSeq(doc, a, b) /\ a \in 1 .. Len(doc) /\ b \in a .. Len(doc) /\ b = d
        BY <1>6, <1>7, <1>10
      <3> HIDE DEF p, a, b, d
      <3>2. a <= d /\ d <= Len(doc)
        BY <1>1, <3>1, RangesNest
      <3> QED
        BY <3>1, <3>2
    <2>2. MapFrom(p.map, f, c, j)
      BY <1>8, <1>9, <1>10
    <2> HIDE DEF p
    <2>3. MembersRead(f, st, en, c, j)
      BY <1>8, <2>1, <2>2 DEF MembersRead
    <2> QED
      BY <1>5, <2>3
  <1>11. CASE j + 1 # l
    <2>1. j + 2 \in OddFrom(c, 1) /\ j + 2 \in 1 .. l /\ j + 1 \in 1 .. l - 1 /\ (j + 1) + 1 = j + 2 /\ ~ (j + 2 <= j)
      <3>1. j + 2 \in 1 .. l /\ (j + 2) % 2 = 1 /\ j + 1 \in 1 .. l - 1 /\ (j + 1) + 1 = j + 2 /\ ~ (j + 2 <= j)
        BY <1>2, <1>5, <1>6, <1>11, SMTT(30)
      <3> QED
        BY <3>1 DEF OddFrom
    <2>2. MembersRead(f, st, en, c, j + 2)
      <3> HIDE DEF T
      <3>1. j + 2 \notin T
        BY <1>4, <2>1
      <3> QED
        BY <2>1, <3>1 DEF T
    <2>3. PICK e \in AllMembers :
            /\ e.text = SubSeq(doc, st[c[j + 2]], d)
            /\ st[c[j + 2]] <= d /\ d <= Len(doc)
            /\ MapFrom(e.map, f, c, j + 2)
      BY <2>2 DEF MembersRead
    <2>4. doc[b + 1] = Mark(",") /\ st[c[j + 2]] = b + 2
      <3>1. ChildSpans(doc, nodes[i].token.type, st[i], c, {}, st, en)
        BY <1>1, ChildrenPlaced
      <3>2. Separator(nodes[i].token.type, j + 1) = ","
        <4>1. (j + 1) % 2 # 1
          BY <1>2, <1>5
        <4> QED
          BY <4>1 DEF Separator
      <3>3. doc[b + 1] = Mark(Separator(nodes[i].token.type, j + 1)) /\ st[c[(j + 1) + 1]] = b + 2
        BY <2>1, <3>1 DEF ChildSpans
      <3> QED
        BY <2>1, <3>2, <3>3
    <2>5. a \in 1 .. Len(doc) /\ b \in a .. Len(doc) /\ d \in 1 .. Len(doc)
      <3>1. l \in 1 .. l
        BY <1>2, <1>5
      <3>2. st[c[l]] \in 1 .. Len(doc) /\ d \in st[c[l]] .. Len(doc)
        BY <1>2, <3>1, Places
      <3> HIDE DEF d
      <3>3. d \in 1 .. Len(doc)
        BY <1>1, <3>2, RangesNest
      <3> QED
        BY <1>6, <3>3
    <2>6. e.text = SubSeq(doc, b + 2, d) /\ b + 2 <= d
      BY <2>3, <2>4
    <2> HIDE DEF a, b, d
    <2>7. b \in a .. d /\ d \in a .. Len(doc) /\ a <= d /\ d <= Len(doc)
      <3>1. a \in 1 .. Len(doc) /\ b \in a .. Len(doc) /\ b + 2 <= d /\ d \in 1 .. Len(doc)
        BY <2>5, <2>6, Zenon
      <3> DEFINE z == Len(doc)
      <3>2. z \in Nat
        BY <1>1
      <3> HIDE DEF z
      <3>3. a \in 1 .. z /\ b \in a .. z /\ b + 2 <= d /\ d \in 1 .. z
        BY <3>1 DEF z
      <3>4. b \in a .. d /\ d \in a .. z /\ a <= d /\ d <= z
        BY <3>2, <3>3
      <3> QED
        BY <3>4 DEF z
    <2>8. SubSeq(doc, a, d) = SubSeq(doc, a, b) \o <<doc[b + 1]>> \o SubSeq(doc, b + 2, d)
      BY <1>1, <2>5, <2>6, <2>7, Pieces
    <2> DEFINE x == MoreMembers(p, e)
    <2>9. x.text = SubSeq(doc, a, d)
      <3>1. x.text = p.text \o <<Mark(",")>> \o e.text
        BY TextsOf DEF Listed
      <3>2. p.text = SubSeq(doc, a, b)
        BY <1>7 DEF a, b
      <3> HIDE DEF x, p
      <3> QED
        BY <2>4, <2>6, <2>8, <3>1, <3>2
    <2>10. MapFrom(x.map, f, c, j)
      <3>1. x.map = Overlaid(p.map, e.map)
        BY DEF MoreMembers
      <3> HIDE DEF x, p
      <3> QED
        BY <1>8, <1>9, <2>3, <3>1
    <2>11. x \in AllMembers
      BY <1>7, <2>3, MembersStand
    <2> HIDE DEF x
    <2>12. MembersRead(f, st, en, c, j)
      BY <2>7, <2>9, <2>10, <2>11 DEF a, d, MembersRead
    <2> QED
      BY <1>5, <2>12
  <1> QED
    BY <1>10, <1>11

\* What is between the tokens of a node are the members of an object.
InBraces(f, i, a, d) ==
  \E e \in AllMembers \cup {NoMembers} :
    e.text = SubSeq(doc, a + 1, d - 1) /\ e.map = MapOf(f, KeysAt(i))

\* And these tokens are braces.
Braced(f, i, a, d) ==
  /\ InBraces(f, i, a, d)
  /\ a \in 1 .. Len(doc) /\ d \in a .. Len(doc)
  /\ doc[a] = Mark("{") /\ doc[d] = Mark("}")

(* The members of an object.                                               *)
LEMMA ObjectInner ==
  ASSUME NEW st, NEW en, Whole(st, en), Convertible, NEW f, NEW i \in ObjectsIn(nodes),
         AllStand(f, st, en, Kids(nodes, i))
  PROVE  Braced(f, i, st[i], en[i])
  <1> DEFINE c == Kids(nodes, i)
             l == Len(c)
             a == st[i]
             d == en[i]
             n == Len(doc)
  <1>0. i \in 1 .. Len(nodes) /\ nodes[i].token.type = "{"
    BY DEF ObjectsIn
  <1>1. LinksOK /\ doc \in AnyWord /\ n \in Nat /\ l \in Nat /\ c \in Seq(1 .. Len(nodes)) /\ Len(nodes) \in Nat
    <2>1. LinksOK /\ doc \in AnyWord
      BY DEF Whole
    <2>2. n \in Nat
      BY <2>1 DEF AnyWord
    <2> QED
      BY <1>0, <2>1, <2>2, KidsHere
  <1>2. a \in 1 .. n /\ d \in a .. n /\ doc[a] = nodes[i].token
    BY <1>0, Places
  <1>3. Span(doc, n, nodes, {}, st, en, i)
    BY <1>0 DEF Whole, Spans
  <1>4. ChildSpans(doc, nodes[i].token.type, a, c, {}, st, en)
    BY <1>0, ChildrenPlaced
  <1>5. EndSpan(doc, nodes[i].token.type, a, d, c, {}, en)
    BY <1>3 DEF Span
  <1>6. c # <<>> => st[c[1]] = a + 1
    BY <1>4 DEF ChildSpans
  <1>7. /\ doc[d] = Mark("}")
        /\ c = <<>> => d = a + 1
        /\ c # <<>> => d = en[c[l]] + 1
    <2>1. Closing("{") = "}" /\ "{" \in Openers
      BY DEF Closing, Openers
    <2> HIDE DEF c, a, d
    <2> QED
      BY <1>0, <1>5, <2>1 DEF EndSpan
  <1>8. doc[a] = Mark("{")
    <2>1. "{" \in Punctuation
      BY DEF Punctuation
    <2>2. nodes[i].token \in Token
      BY <1>0, <1>1 DEF LinksOK, TypesOK
    <2> QED
      BY <1>0, <1>2, <2>1, <2>2, MarkOf
  <1>9. Maps(MapOf(f, KeysAt(i)), f, KeysKept(i))
    BY <1>1, ObjectMap, Zenon
  <1>10. \A g : MapFrom(g, f, c, 1) => g = MapOf(f, KeysAt(i))
    <2> TAKE g
    <2> HAVE MapFrom(g, f, c, 1)
    <2>1. Maps(g, f, KeysKept(i))
      BY <1>1, MapOfAll
    <2> QED
      BY <1>9, <2>1, MapsAgree, Zenon
  <1>11. InBraces(f, i, a, d)
    <2>1. CASE c = <<>>
      <3>1. l = 0
        BY <2>1
      <3>2. OddFrom(c, 1) = {}
        <4> HIDE DEF c
        <4> QED
          BY <3>1 DEF OddFrom
      <3>3. DOMAIN EmptyMap = {} /\ EmptyMap = [x \in DOMAIN EmptyMap |-> EmptyMap[x]]
        BY DEF EmptyMap
      <3> HIDE DEF c
      <3>4. MapFrom(EmptyMap, f, c, 1)
        BY <3>2, <3>3 DEF MapFrom
      <3>5. NoMembers.map = MapOf(f, KeysAt(i))
        BY <1>10, <3>4 DEF NoMembers
      <3>6. SubSeq(doc, a + 1, a) = <<>>
        <4>1. a \in a .. Len(doc)
          BY <1>1, <1>2
        <4> QED
          BY <1>1, <1>2, <4>1, Pieces
      <3>7. d - 1 = a
        <4>1. a \in 1 .. n /\ d = a + 1
          BY <1>2, <1>7, <2>1, Zenon
        <4> HIDE DEF a, d
        <4> QED
          BY <1>1, <4>1
      <3>8. NoMembers.text = SubSeq(doc, a + 1, d - 1)
        BY <3>6, <3>7 DEF NoMembers
      <3> QED
        BY <3>5, <3>8 DEF InBraces
    <2>2. CASE c # <<>>
      <3>1. 1 \in 1 .. l /\ l \in 1 .. l
        BY <1>1, <2>2, RowOf
      <3>2. 1 \in OddFrom(c, 1)
        <4> HIDE DEF c
        <4> QED
          BY <3>1 DEF OddFrom
      <3>3. MembersRead(f, st, en, c, 1)
        BY <3>2, MembersFollow
      <3>4. PICK e \in AllMembers : e.text = SubSeq(doc, st[c[1]], en[c[l]]) /\ MapFrom(e.map, f, c, 1)
        BY <3>3 DEF MembersRead
      <3>5. en[c[l]] = d - 1
        <4>1. c[l] \in 1 .. Len(nodes)
          BY <1>1, <3>1, RowOf
        <4>2. st[c[l]] \in 1 .. n /\ en[c[l]] \in st[c[l]] .. n
          BY <4>1, Places
        <4> DEFINE x == st[c[l]]  y == en[c[l]]
        <4>3. x \in 1 .. n /\ y \in x .. n /\ d = y + 1
          BY <1>7, <2>2, <4>2
        <4> HIDE DEF x, y
        <4>4. y = d - 1
          BY <1>1, <4>3
        <4> QED
          BY <4>4 DEF y
      <3>6. e.text = SubSeq(doc, a + 1, d - 1)
        BY <1>6, <2>2, <3>4, <3>5, Zenon
      <3>7. e.map = MapOf(f, KeysAt(i))
        BY <1>10, <3>4
      <3> QED
        BY <3>6, <3>7 DEF InBraces
    <2> QED
      BY <2>1, <2>2
  <1> QED
    BY <1>2, <1>7, <1>8, <1>11 DEF Braced

(* An object stands for its pairs.                                         *)
LEMMA ObjectRead ==
  ASSUME NEW st, NEW en, Whole(st, en), Convertible, NEW f, NEW i \in ObjectsIn(nodes), f[i] = ValueAt(f, i),
         AllStand(f, st, en, Kids(nodes, i))
  PROVE  Stands(f, st, en, i)
  <1> DEFINE a == st[i]
             d == en[i]
             g == MapOf(f, KeysAt(i))
  <1>0. i \in 1 .. Len(nodes) /\ nodes[i].token.type = "{"
    BY DEF ObjectsIn
  <1>1. /\ InBraces(f, i, a, d)
        /\ a \in 1 .. Len(doc) /\ d \in a .. Len(doc)
        /\ doc[a] = Mark("{") /\ doc[d] = Mark("}")
    <2>1. i \in ObjectsIn(nodes) /\ AllStand(f, st, en, Kids(nodes, i))
      OBVIOUS
    <2>2. Braced(f, i, a, d)
      BY <2>1, ObjectInner, Zenon
    <2> QED
      BY <2>2 DEF Braced
  <1>2. LinksOK /\ doc \in AnyWord
    BY DEF Whole
  <1>3. Len(doc) \in Nat
    BY <1>2 DEF AnyWord
  <1>4. ~ Lost(nodes, i) => f[i] = Object(g)
    <2>1. nodes[i].type = KindOf("{") \/ nodes[i].type = "SKIPPED"
      BY <1>0, <1>2 DEF LinksOK, TypesOK
    <2>2. ~ Lost(nodes, i) => nodes[i].type = "OBJECT"
      BY <2>1 DEF Lost, KindOf
    <2>3. MapOf(f, Ordered(nodes[i].keyTree)) = g
      BY ReadingsAre DEF KeysAt
    <2>0. ~ Overruns(i)
      BY ReadingsAre DEF Convertible, KeysFit
    <2>4. nodes[i].type = "OBJECT" => ValueAt(f, i) = Object(MapOf(f, Ordered(nodes[i].keyTree)))
      BY <2>0, Zenon DEF ValueAt
    <2> QED
      BY <2>2, <2>3, <2>4
  <1>5. PICK e \in AllMembers \cup {NoMembers} : e.text = SubSeq(doc, a + 1, d - 1) /\ e.map = g
    BY <1>1 DEF InBraces
  <1>6. a < d
    <2>1. Mark("{") # Mark("}")
      BY DEF Mark
    <2>2. a # d
      BY <1>1, <2>1
    <2>3. a \in 1 .. Len(doc) /\ d \in a .. Len(doc)
      BY <1>1
    <2> HIDE DEF a, d
    <2> QED
      BY <1>3, <2>2, <2>3
  <1> DEFINE x == ObjectOf(e)
  <1>7. x \in AllValues /\ x.value = Object(g)
    BY <1>5, EnclosedStands DEF ObjectOf
  <1>8. x.text = SubSeq(doc, a, d)
    <2>1. x.text = <<Mark("{")>> \o e.text \o <<Mark("}")>>
      BY TextsOf DEF Enclose
    <2>2. SubSeq(doc, a, d) = <<doc[a]>> \o SubSeq(doc, a + 1, d - 1) \o <<doc[d]>>
      BY <1>1, <1>2, <1>6, Pieces
    <2> HIDE DEF x, a, d, g
    <2> QED
      BY <1>1, <1>5, <2>1, <2>2
  <1> HIDE DEF x, g
  <1> QED
    BY <1>4, <1>7, <1>8 DEF Stands

(* And so does every node.                                                 *)
LEMMA AllRead ==
  ASSUME NEW st, NEW en, Whole(st, en), Convertible, NEW f,
         \A i \in 1 .. Len(nodes) : f[i] = ValueAt(f, i)
  PROVE  \A i \in 1 .. Len(nodes) : Stands(f, st, en, i)
  <1> DEFINE n == Len(nodes)
             T == {i \in 1 .. n : ~ Stands(f, st, en, i)}
  <1>1. LinksOK /\ n \in Nat
    <2>1. LinksOK
      BY DEF Whole
    <2> QED
      BY <2>1 DEF LinksOK, TreeOK
  <1> SUFFICES ASSUME T # {} PROVE FALSE
    OBVIOUS
  <1>2. PICK i \in T : \A k \in T : k <= i
    <2>1. T \subseteq 0 .. n
      BY <1>1
    <2> HIDE DEF T
    <2> QED
      BY <1>1, <2>1, GreatestNat
  <1>3. i \in 1 .. n /\ ~ Stands(f, st, en, i)
    BY <1>2
  <1> DEFINE c == Kids(nodes, i)
  <1>4. AllStand(f, st, en, c)
    <2>1. ASSUME NEW m \in 1 .. Len(c) PROVE Stands(f, st, en, c[m])
      <3>1. c[m] \in i + 1 .. n /\ c[m] \in 1 .. n
        BY <1>1, <1>3, KidsHere
      <3> DEFINE k == c[m]
      <3>2. k \in i + 1 .. n /\ k \in 1 .. n
        BY <3>1
      <3> HIDE DEF k, T
      <3>3. ~ (k <= i)
        BY <1>1, <1>3, <3>2
      <3>4. k \notin T
        BY <1>2, <3>3
      <3>5. Stands(f, st, en, k)
        BY <3>2, <3>4 DEF T
      <3> QED
        BY <3>5 DEF k
    <2> QED
      BY <2>1 DEF AllStand
  <1>5. nodes[i].token.type \in NodeTypes /\ f[i] = ValueAt(f, i)
    BY <1>1, <1>3 DEF LinksOK, TypesOK
  <1>6. CASE nodes[i].token.type = "{"
    <2>1. i \in ObjectsIn(nodes)
      BY <1>3, <1>6 DEF ObjectsIn
    <2> QED
      BY <1>3, <1>4, <1>5, <2>1, ObjectRead
  <1>7. CASE nodes[i].token.type = "["
    BY <1>3, <1>4, <1>5, <1>7, ArrayRead DEF AllStand
  <1>8. CASE nodes[i].token.type \notin Openers
    BY <1>3, <1>5, <1>8, LeafRead
  <1> QED
    BY <1>6, <1>7, <1>8 DEF Openers

---------------------------------------------------------------------------
(* The value of a text that was accepted.                                  *)

(* The AST of an accepted text is one read to its end.                     *)
LEMMA AcceptedWhole ==
  ASSUME ParseInv, SpanInv, Accepted
  PROVE  \E st, en : /\ Whole(st, en) /\ 1 \in 1 .. Len(nodes) /\ ~ Lost(nodes, 1)
                     /\ st[1] = 1 /\ en[1] = Len(doc)
  <1>1. /\ controls = <<>> /\ Top(controls) = "none"
        /\ doc \in AnyWord /\ Len(doc) \in Nat /\ pos = Len(doc) + 1
    BY DEF ParseInv, ParserInv, StatusOK, TextOK, Accepted, Top, AnyWord
  <1>2. Made = Len(doc)
    <2>1. "none" \notin Openers
      BY DEF Openers
    <2> QED
      BY <1>1, <2>1 DEF Made
  <1>3. scopes = <<>>
    <2>1. Served(controls, nodes, scopes)
      BY ServedNow DEF ParseInv
    <2>2. "none" \in Outside \cup {"RULE_JSON"}
      BY DEF Outside
    <2>3. Top(controls) \in Outside \cup {"RULE_JSON"} => scopes = <<>>
      BY <2>1, TopMeans
    <2> QED
      BY <1>1, <2>2, <2>3
  <1>4. Len(nodes) \in Nat /\ Len(nodes) # 0
    <2>1. Len(nodes) \in Nat
      BY DEF ParseInv, ParserInv, TreeOK
    <2>2. Len(nodes) = 0 => Top(controls) \in Firsts
      BY DEF ParseInv, ParserInv, Balanced
    <2>3. "none" \notin Firsts
      BY DEF Firsts
    <2> QED
      BY <1>1, <2>1, <2>2, <2>3
  <1>5. PICK st, en : ReadAll(doc, Len(doc), nodes, <<>>, "none", st, en)
    BY <1>1, <1>2, <1>3 DEF SpanInv
  <1>6. OpenNodes(<<>>, "none") = {}
    BY DEF OpenNodes
  <1>7. Spans(doc, Len(doc), nodes, {}, st, en) /\ st[1] = 1 /\ en[1] = Len(doc)
    BY <1>4, <1>5, <1>6 DEF ReadAll, ReadOutside
  <1>8. 1 \in 1 .. Len(nodes)
    BY <1>4
  <1>9. TypesOK(nodes) /\ TreeOK(nodes, <<>>) /\ KidsOK(nodes, <<>>) /\ PoolOK(keyTree)
    BY <1>3 DEF SpanInv, ParseInv, ParserInv, KeysInv
  <1>10. \A o \in ObjectsIn(nodes) : ObjectOK(nodes, keyTree, o) /\ Len(Kids(nodes, o)) % 2 = 0
    <2> TAKE o \in ObjectsIn(nodes)
    <2>1. ObjectOK(nodes, keyTree, o)
      BY DEF ParseInv, KeysInv
    <2>2. o \in 1 .. Len(nodes) /\ nodes[o].token.type = "{"
      BY DEF ObjectsIn
    <2>3. EndSpan(doc, "{", st[o], en[o], Kids(nodes, o), {}, en)
      BY <1>7, <2>2 DEF Spans, Span
    <2> DEFINE c == Kids(nodes, o)
    <2> HIDE DEF c
    <2>4. EndSpan(doc, "{", st[o], en[o], c, {}, en)
      BY <2>3 DEF c
    <2>5. "{" \in Openers
      BY DEF Openers
    <2>6. Len(c) % 2 = 0
      BY <2>4, <2>5 DEF EndSpan
    <2> QED
      BY <2>1, <2>6 DEF c
  <1>11. Whole(st, en)
    BY <1>1, <1>7, <1>9, <1>10 DEF Whole, LinksOK
  <1>12. ~ Lost(nodes, 1)
    <2>1. nodes[1].type = KindOf(nodes[1].token.type) \/ nodes[1].parent \in ObjectsIn(nodes)
      BY <1>8, <1>9 DEF TypesOK
    <2>2. nodes[1].parent = 0
      <3>1. nodes[1].parent \in 0 .. 1 - 1
        BY <1>8, <1>9 DEF TreeOK
      <3> QED
        BY <3>1
    <2>3. 0 \notin ObjectsIn(nodes)
      BY DEF ObjectsIn
    <2>4. KindOf(nodes[1].token.type) # "SKIPPED"
      BY DEF KindOf
    <2> QED
      BY <2>1, <2>2, <2>3, <2>4 DEF Lost
  <1> QED
    BY <1>7, <1>8, <1>11, <1>12

\* The value made from the AST of a text is one the grammar gives the text.
ValueGiven ==
  Accepted /\ Convertible =>
    \E n \in Nat : \E d \in Upto[n].values : d.text = doc /\ ToValue(1) = d.value

(* So it is when the text is accepted.                                     *)
LEMMA ValueOfAccepted ==
  ASSUME ParseInv, SpanInv
  PROVE  ValueGiven
  <1> SUFFICES ASSUME Accepted, Convertible
               PROVE  \E n \in Nat : \E d \in Upto[n].values : d.text = doc /\ ToValue(1) = d.value
    BY DEF ValueGiven
  <1>1. PICK st, en : /\ Whole(st, en) /\ 1 \in 1 .. Len(nodes) /\ ~ Lost(nodes, 1)
                      /\ st[1] = 1 /\ en[1] = Len(doc)
    BY AcceptedWhole
  <1>2. PICK f : \A i \in 1 .. Len(nodes) : f[i] = ValueAt(f, i) /\ ToValue(i) = f[i]
    BY <1>1, ToValueIs DEF Whole
  <1>3. Stands(f, st, en, 1)
    BY <1>1, <1>2, AllRead
  <1>4. PICK d \in AllValues : d.text = SubSeq(doc, 1, Len(doc)) /\ d.value = f[1]
    BY <1>1, <1>3 DEF Stands
  <1>5. SubSeq(doc, 1, Len(doc)) = doc
    <2>1. doc \in Seq(AnyToken)
      BY <1>1 DEF Whole, AnyWord
    <2> QED
      BY <2>1, SubSeqFull
  <1>6. d.text = doc /\ ToValue(1) = d.value
    BY <1>1, <1>2, <1>4, <1>5
  <1> QED
    BY <1>4, <1>6 DEF AllValues

(* ast_to_value gives an accepted text the value the grammar gives it, if  *)
(* no key is left out of a tree (parser.c:162), no object has more keys    *)
(* than the conversion has room for (parser.c:681) and none a long name    *)
(* twice: for all documents, names and limits, and however the names are   *)
(* hashed.                                                                 *)
THEOREM ValuesFollowTheGrammar ==
  ASSUME \A o, n \in Nat : Hash(<<o, n>>) \in Nat
  PROVE  ReadersSpec => []ValueGiven
  <1>0. HashOK
    BY DEF HashOK
  <1>1. ReadersSpec => [](ParseInv /\ SpanInv)
    BY <1>0, SpansAlways
  <1>2. ParseInv /\ SpanInv => ValueGiven
    BY ValueOfAccepted
  <1> QED
    BY <1>1, <1>2, PTL

\* What documents mean to the grammar is among the meanings.
MeaningsKnown == \A n \in Nat : \A d \in Upto[n].values : d.text \in Document => d \in Meanings

(* The value a run compares with, when the meanings have those of all      *)
(* documents.                                                              *)
THEOREM ValueIsRead ==
  ASSUME \A o, n \in Nat : Hash(<<o, n>>) \in Nat, MeaningsKnown
  PROVE  ReadersSpec => []ValueRead
  <1>1. VerdictInv /\ ValueGiven => ValueRead
    BY DEF VerdictInv, ValueGiven, ValueRead, MeaningsKnown
  <1> QED
    BY <1>1, VerdictAlways, ValuesFollowTheGrammar, PTL
=============================================================================
