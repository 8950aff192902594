---------------------------- MODULE MCValidator -----------------------------
(***************************************************************************)
(* The compiler and the machine on small schemas and documents: every      *)
(* keyword alone, every pair of keywords, schemas two and three deep, and  *)
(* schemas that no standard allows; names written with escapes, limits no  *)
(* int32_t holds and parts deeper than the paths of items reach.           *)
(***************************************************************************)
EXTENDS Validator

\* "escaped" is the name "a" written with a \u escape.
MCMeans == [n \in {"a", "b", "ab", "escaped"} |-> IF n = "escaped" THEN "a" ELSE n]
MCSize  == [n \in DOMAIN MCMeans |-> CASE n = "escaped" -> 6 [] n = "ab" -> 2 [] OTHER -> 1]

\* The pattern "starts-a" and one that does not compile.
MCMatching   == {<<"starts-a", "a">>, <<"starts-a", "ab">>, <<"any", "a">>, <<"any", "b">>, <<"any", "ab">>}
MCBroken     == {"broken"}
MCConforming == {<<"known", "a">>} \cup {<<"unknown", n>> : n \in DOMAIN MCSize}

---------------------------------------------------------------------------
(* Documents.                                                              *)

Scalars ==
  {[null |-> TRUE], [bool |-> TRUE]} \cup {[number |-> h] : h \in 1 .. 4}
  \cup {[string |-> n] : n \in DOMAIN MCSize}

Member(n, v) == [name |-> n, value |-> v]
One     == [number |-> 2]
Two     == [number |-> 4]
A       == [string |-> "a"]
Escaped == [string |-> "escaped"]

Ab == [members |-> <<Member("a", One), Member("b", A)>>]
Ba == [members |-> <<Member("b", A), Member("a", One)>>]

Arrays ==
  {[items |-> s] : s \in {<<>>, <<One>>, <<A>>, <<One, A>>, <<A, One>>, <<Two, Two>>, <<Ab, Ba>>,
                          <<Ab, [members |-> <<Member("a", One)>>]>>, <<A, Escaped>>}}
  \cup {[items |-> <<One, [items |-> <<Ab, [items |-> <<Two, [number |-> 1], Ab>>]>>]>>]}

Objects ==
  {Ab, Ba} \cup {[members |-> s] : s \in {<<>>, <<Member("a", One)>>, <<Member("b", One)>>,
      <<Member("ab", A)>>, <<Member("a", Two), Member("ab", One)>>,
      <<Member("a", [items |-> <<One, A>>])>>,
      <<Member("escaped", Two), Member("b", Escaped)>>}}

Documents == Scalars \cup Arrays \cup Objects

---------------------------------------------------------------------------
(* Schemas.                                                                *)

Yes == [accept |-> TRUE]
No  == [accept |-> FALSE]
Only(p) == [keywords |-> <<p>>]

K(k, n)     == [keyword |-> k, number |-> n]
KName(k, n) == [keyword |-> k, name |-> n]
KType(ts)   == [keyword |-> "type", types |-> ts]
Need(names) == [keyword |-> "required", names |-> names]
Unique(b)   == [keyword |-> "uniqueItems", flag |-> b]
Sub(k, s)   == [keyword |-> k, schema |-> s]
List(k, ss) == [keyword |-> k, schemas |-> ss]
Table(k, rs) == [keyword |-> k, members |-> rs]
Rule(n, s)  == [name |-> n, schema |-> s]

Text  == Only(KType({"string"}))
Big   == Only(K("minimum", 2))

Simple ==
  {K("minimum", 3), K("maximum", 3), K("exclusiveMinimum", 2), K("exclusiveMaximum", 4),
   K("multipleOf", 2), K("minLength", 4), K("maxLength", 2), K("minItems", 4), K("maxItems", 2),
   K("minProperties", 2), K("maxProperties", 2), KName("pattern", "starts-a"),
   KName("format", "known"), KName("format", "unknown"), KType({"integer", "array"}),
   KType({"number", "object"}), KType({"null", "boolean"}), Unique(TRUE), Unique(FALSE),
   Need(<<"a", "b">>)}

Parts1 == {Yes, No, Text, Big}

Compound ==
  {Sub(k, s) : k \in {"items", "contains", "not", "propertyNames", "additionalProperties"}, s \in Parts1}
  \cup {List(k, <<s, t>>) : k \in Lists, s \in {No, Text}, t \in {Yes, Big}}
  \cup {Table("properties", <<Rule("a", s)>>) : s \in {No, Text}}
  \cup {Table("properties", <<Rule("b", Text), Rule("a", Big)>>)}
  \cup {Table("patternProperties", <<Rule("starts-a", s)>>) : s \in {No, Big}}

Branches ==
  {[keywords |-> b] : b \in
     {<<Sub("if", Text), Sub("then", Only(K("minLength", 4)))>>,
      <<Sub("if", Big), Sub("else", No)>>,
      <<Sub("then", No), Sub("if", Text), Sub("else", Big)>>,
      <<Sub("then", No)>>, <<Sub("else", Text), Sub("then", Yes)>>}}

Rules2 ==
  {[keywords |-> <<Table("properties", <<Rule("a", s)>>), Table("patternProperties", <<Rule("starts-a", t)>>),
                   Sub("additionalProperties", u)>>] : s, t \in {Yes, Text, Big}, u \in Parts1}

Deep ==
  {Only(Sub(k, s)) : k \in {"items", "contains", "not", "additionalProperties"}, s \in
     {Only(p) : p \in {q \in Compound : q.keyword \in {"items", "properties", "anyOf", "not", "contains"}}}}
  \cup {[keywords |-> <<List(k, <<Only(Sub("not", Text)), Only(Sub("items", Big))>>), K("minItems", 2)>>] : k \in Lists}
  \cup {Only(Sub("items", Only(Sub("items", Only(p))))) : p \in
     {Sub("items", Big), Sub("additionalProperties", Text), Sub("contains", Text),
      Sub("items", Only(Sub("propertyNames", Text))), Sub("items", Only(Sub("propertyNames", No)))}}

\* Limits that are no int32_t, or become another.
Limits == {Only(K(k, h)) : k \in Counts, h \in {2 * MaxInt32, 2 * MaxInt32 + 2, -2, -40, 3}}

Pairs == {[keywords |-> <<p, q>>] : p \in Simple, q \in Simple \cup Compound}

Odd ==
  {[keywords |-> ps] : ps \in
     {<<Need(<<>>)>>, <<Need(<<>>), Sub("not", Text)>>, <<Sub("items", Big), Need(<<>>)>>,
      <<K("minimum", 2), K("minimum", 3), Sub("not", Text)>>,
      <<Unique(TRUE), Unique(FALSE), Sub("not", Text)>>, <<Sub("not", Text), Sub("not", Big)>>,
      <<Sub("not", [other |-> 1])>>, <<List("anyOf", <<[other |-> 1], Text>>)>>,
      <<Table("properties", <<Rule("a", [other |-> 1])>>), Sub("additionalProperties", No)>>,
      <<Sub("additionalProperties", [other |-> 1])>>,
      <<Sub("additionalProperties", No), Sub("additionalProperties", Text)>>,
      <<Table("patternProperties", <<Rule("broken", Yes), Rule("starts-a", No)>>)>>,
      <<Table("patternProperties", <<Rule("starts-a", No), Rule("broken", Yes)>>)>>,
      <<KName("pattern", "broken")>>}}

Distinct(s) == \A i, j \in DOMAIN s.keywords : s.keywords[i].keyword = s.keywords[j].keyword => i = j

Schemas == {Yes, No} \cup {Only(p) : p \in Simple \cup Compound} \cup Branches \cup Rules2 \cup Deep \cup Limits
           \cup Odd \cup {s \in Pairs : Distinct(s)}

MCSchema   == Schemas
MCDocument == Documents
=============================================================================
