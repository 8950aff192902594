----------------------------- MODULE JsonSchema -----------------------------
(***************************************************************************)
(* The meaning of JSON Schema's keywords as README.md lists them: which    *)
(* values are valid, said by quantifiers over their parts and with no      *)
(* machine in mind.  The compiler and the machine of src/src/validation    *)
(* are checked against it.                                                 *)
(*                                                                         *)
(* A value is one of                                                       *)
(*   [null], [bool], [number], [string], [items], [members]                *)
(* where a number counts halves, from 0 in a value, a string is a name,    *)
(* items is a sequence of values and members one of [name, value] with     *)
(* distinct names.                                                         *)
(*                                                                         *)
(* A schema is [accept |-> TRUE or FALSE], or [keywords |-> sequence] of   *)
(* records [keyword, ...] with what the keyword needs: number, types,      *)
(* name, names, flag, schema, schemas, or members of [name, schema].       *)
(* [other] is what is no schema but stands where one should.               *)
(***************************************************************************)
EXTENDS Integers, Sequences, FiniteSets, SequencesExt

CONSTANTS
  Size,        \* the length of each name
  Matching,    \* the pairs <<pattern, name>> that match
  Broken,      \* the patterns no regular expression
  Conforming   \* the pairs <<format, name>> that conform

Is(kind, v) == kind \in DOMAIN v

TypesOf(v) ==
  CASE Is("null", v) -> {"null"}
    [] Is("bool", v) -> {"boolean"}
    [] Is("number", v) -> IF v.number % 2 = 0 THEN {"number", "integer"} ELSE {"number"}
    [] Is("string", v) -> {"string"}
    [] Is("items", v) -> {"array"}
    [] Is("members", v) -> {"object"}

NamesIn(members) == {members[i].name : i \in DOMAIN members}

\* Objects with the same members are equal in whatever order.
RECURSIVE Plain(_)
Plain(v) ==
  CASE Is("items", v) -> [items |-> [i \in DOMAIN v.items |-> Plain(v.items[i])]]
    [] Is("members", v) ->
         [members |-> [n \in NamesIn(v.members) |->
            Plain((CHOOSE m \in ToSet(v.members) : m.name = n).value)]]
    [] OTHER -> v

Keywords(s) == {s.keywords[i].keyword : i \in DOMAIN s.keywords}
Pair(s, k)  == s.keywords[CHOOSE i \in DOMAIN s.keywords : s.keywords[i].keyword = k]

\* The members of v a keyword of s names, and those a pattern of s matches.
Named(s, m) == "properties" \in Keywords(s) /\ m.name \in NamesIn(Pair(s, "properties").members)
Patterned(s, m) ==
  /\ "patternProperties" \in Keywords(s)
  /\ \E r \in ToSet(Pair(s, "patternProperties").members) : <<r.name, m.name>> \in Matching

RECURSIVE Valid(_, _)

\* Whether v meets keyword p of schema s.
Meets(s, p, v) ==
  CASE p.keyword = "type" -> TypesOf(v) \cap p.types # {}
    [] p.keyword = "minimum" -> Is("number", v) => v.number >= p.number
    [] p.keyword = "maximum" -> Is("number", v) => v.number <= p.number
    [] p.keyword = "exclusiveMinimum" -> Is("number", v) => v.number > p.number
    [] p.keyword = "exclusiveMaximum" -> Is("number", v) => v.number < p.number
    [] p.keyword = "multipleOf" -> Is("number", v) => \E k \in -v.number .. v.number : v.number = k * p.number
    [] p.keyword = "minLength" -> Is("string", v) => 2 * Size[v.string] >= p.number
    [] p.keyword = "maxLength" -> Is("string", v) => 2 * Size[v.string] <= p.number
    [] p.keyword = "pattern" -> Is("string", v) => <<p.name, v.string>> \in Matching
    [] p.keyword = "format" -> Is("string", v) => <<p.name, v.string>> \in Conforming
    [] p.keyword = "minItems" -> Is("items", v) => 2 * Len(v.items) >= p.number
    [] p.keyword = "maxItems" -> Is("items", v) => 2 * Len(v.items) <= p.number
    [] p.keyword = "uniqueItems" ->
         Is("items", v) /\ p.flag =>
           \A i, j \in DOMAIN v.items : Plain(v.items[i]) = Plain(v.items[j]) => i = j
    [] p.keyword = "items" -> Is("items", v) => \A i \in DOMAIN v.items : Valid(p.schema, v.items[i])
    [] p.keyword = "contains" -> Is("items", v) => \E i \in DOMAIN v.items : Valid(p.schema, v.items[i])
    [] p.keyword = "minProperties" -> Is("members", v) => 2 * Len(v.members) >= p.number
    [] p.keyword = "maxProperties" -> Is("members", v) => 2 * Len(v.members) <= p.number
    [] p.keyword = "required" -> Is("members", v) => ToSet(p.names) \subseteq NamesIn(v.members)
    [] p.keyword = "propertyNames" ->
         Is("members", v) => \A n \in NamesIn(v.members) : Valid(p.schema, [string |-> n])
    [] p.keyword = "properties" ->
         Is("members", v) => \A m \in ToSet(v.members), r \in ToSet(p.members) :
           m.name = r.name => Valid(r.schema, m.value)
    [] p.keyword = "patternProperties" ->
         Is("members", v) => \A m \in ToSet(v.members), r \in ToSet(p.members) :
           <<r.name, m.name>> \in Matching => Valid(r.schema, m.value)
    [] p.keyword = "additionalProperties" ->
         Is("members", v) => \A m \in ToSet(v.members) :
           Named(s, m) \/ Patterned(s, m) \/ Valid(p.schema, m.value)
    [] p.keyword = "not" -> ~Valid(p.schema, v)
    [] p.keyword = "allOf" -> \A t \in ToSet(p.schemas) : Valid(t, v)
    [] p.keyword = "anyOf" -> \E t \in ToSet(p.schemas) : Valid(t, v)
    [] p.keyword = "oneOf" -> Cardinality({i \in DOMAIN p.schemas : Valid(p.schemas[i], v)}) = 1
    [] p.keyword = "if" ->
         LET branch == IF Valid(p.schema, v) THEN "then" ELSE "else"
         IN  branch \in Keywords(s) => Valid(Pair(s, branch).schema, v)
    [] OTHER -> TRUE

Valid(s, v) ==
  IF "accept" \in DOMAIN s THEN s.accept ELSE \A p \in ToSet(s.keywords) : Meets(s, p, v)
=============================================================================
