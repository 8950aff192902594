---------------------------- MODULE JsonGrammar -----------------------------
(***************************************************************************)
(* JSON texts as sequences of tokens, and the values they stand for: the   *)
(* language RFC 8259 defines, written down as sets and with no parser in   *)
(* mind.  It is what src/src/parser/parser.c is checked against.           *)
(*                                                                         *)
(* When a name occurs twice in an object its first value counts.           *)
(***************************************************************************)
EXTENDS Integers, Sequences, FiniteSets, TLC

CONSTANT Name   \* the contents of strings, numbered in alphabetical order

ASSUME NameAssumption == Name \subseteq Nat \ {0}

Punctuation == {"{", "}", "[", "]", ":", ","}

Mark(type) == [type |-> type, name |-> 0]
String(n)  == [type |-> "string", name |-> n]

\* Numbers, true, false and null are all the same to a parser.
Scalar == Mark("scalar")

Token == {Mark(type) : type \in Punctuation} \cup {Scalar} \cup {String(n) : n \in Name}

\* Values.  Those of different kinds have different fields.
NumberValue(n)  == [number |-> n]
LiteralValue(l) == [literal |-> l]
ScalarValue     == NumberValue(0)
StringValue(n)  == [string |-> n]
Array(items)    == [items |-> items]
Object(map)     == [map |-> map]

EmptyMap == [n \in {} |-> 0]

\* A map of one pair, and that of two maps: what both have counts as in the first.
OneName(n, v)  == [m \in {n} |-> v]
Overlaid(f, g) == [n \in DOMAIN f \cup DOMAIN g |-> IF n \in DOMAIN f THEN f[n] ELSE g[n]]

Leaves == {[text |-> <<Scalar>>, value |-> ScalarValue]} \cup
          {[text |-> <<String(n)>>, value |-> StringValue(n)] : n \in Name}

Enclose(open, text, close) == <<Mark(open)>> \o text \o <<Mark(close)>>

\* What texts, with their values, are made of smaller ones.
ArrayOf(e)       == [text |-> Enclose("[", e.text, "]"), value |-> Array(e.items)]
ObjectOf(e)      == [text |-> Enclose("{", e.text, "}"), value |-> Object(e.map)]
OneItem(v)       == [text |-> v.text, items |-> <<v.value>>]
MoreItems(v, e)  == [text |-> v.text \o <<Mark(",")>> \o e.text, items |-> <<v.value>> \o e.items]
Pair(n, v)       == [text |-> <<String(n), Mark(":")>> \o v.text, map |-> OneName(n, v.value)]
MoreMembers(p, e) == [text |-> p.text \o <<Mark(",")>> \o e.text, map |-> Overlaid(p.map, e.map)]
NoItems          == [text |-> <<>>, items |-> <<>>]
NoMembers        == [text |-> <<>>, map |-> EmptyMap]

Short(texts, most) == {e \in texts : Len(e.text) <= most}

(* Of at most `size` tokens: the values, the lists of values separated by  *)
(* commas, the members, and the lists of them, made from `less`, those of  *)
(* a token less.  A member takes two tokens more than its value.           *)
ValuesFrom(size, less) ==
  Leaves \cup
    (IF size < 2 THEN {}
     ELSE {ArrayOf(e) : e \in Short(less.items, size - 2) \cup {NoItems}} \cup
          {ObjectOf(e) : e \in Short(less.members, size - 2) \cup {NoMembers}})

ItemsFrom(size, values, less) ==
  {OneItem(v) : v \in values} \cup
  UNION {{MoreItems(v, e) : e \in Short(less.items, size - 1 - Len(v.text))} : v \in values}

PairsFrom(size, values) == {Pair(n, v) : n \in Name, v \in Short(values, size - 2)}

MembersFrom(size, pairs, less) ==
  pairs \cup UNION {{MoreMembers(p, e) : e \in Short(less.members, size - 1 - Len(p.text))} : p \in pairs}

Larger(size, less) ==
  LET values == ValuesFrom(size, less) IN
    [values  |-> values,
     items   |-> ItemsFrom(size, values, less),
     members |-> MembersFrom(size, PairsFrom(size, values), less)]

NoTexts == [values |-> {}, items |-> {}, members |-> {}]

Upto[size \in Nat] == IF size = 0 THEN NoTexts ELSE Larger(size, Upto[size - 1])

\* The texts of at most `size` tokens, with their values.
Json(size) == Upto[size].values

(* The objects of n members whose values are from a set, larger than Json  *)
(* has them.                                                               *)
Wide(n, values) ==
  LET members[k \in 1 .. n] ==
        LET pairs == {Pair(name, v) : name \in Name, v \in values}
        IN  IF k = 1 THEN pairs ELSE {MoreMembers(p, e) : p \in pairs, e \in members[k - 1]}
  IN  {ObjectOf(e) : e \in members[n]}

\* What becomes of a text when one token is dropped, replaced or put in.
Neighbours(text) ==
  {SubSeq(text, 1, i - 1) \o SubSeq(text, i + 1, Len(text)) : i \in 1 .. Len(text)} \cup
  {[text EXCEPT ![i] = t] : i \in 1 .. Len(text), t \in Token} \cup
  {SubSeq(text, 1, i) \o <<t>> \o SubSeq(text, i + 1, Len(text)) : i \in 0 .. Len(text), t \in Token}
=============================================================================
