------------------------------- MODULE Schema -------------------------------
(***************************************************************************)
(* The schema compiler, src/src/validation/schema.c.  It walks the AST of  *)
(* a schema twice: calculate_schema_size gives every subschema an offset,  *)
(* serialize_schema_direct writes the code with those offsets in it.       *)
(* Nothing but the agreement of the two walks makes an offset the address  *)
(* of the code it is meant for.                                            *)
(*                                                                         *)
(* Both walks visit the subschemas in one order, parents first; a          *)
(* subschema is known by its number in that order.  Code maps the address  *)
(* of an instruction to [op, bytes, arg, at], arg being the keyword's      *)
(* record and `at` its offsets; strings stay in arg and not in a pool.     *)
(***************************************************************************)
EXTENDS JsonSchema

CONSTANT MaxInt32   \* INT32_MAX, scaled

Header   == 16
NoOffset == -1   \* the (uint32_t)-1 of a part without code

IsObject(s)     == "keywords" \in DOMAIN s
IsSubschema(s)  == IsObject(s) \/ "accept" \in DOMAIN s

FirstOf(s, k) == SelectInSeq(s.keywords, LAMBDA p : p.keyword = k)
LastOf(s, k)  == SelectLastInSeq(s.keywords, LAMBDA p : p.keyword = k)

\* A keyword its object has already: the parser marked its nodes.
Skipped(s, i) == FirstOf(s, s.keywords[i].keyword) < i

Total(seq) == FoldLeft(LAMBDA sum, n : sum + n, 0, seq)

---------------------------------------------------------------------------
(* The order of the walks.                                                 *)

Parts(p) ==
  CASE "schema" \in DOMAIN p -> <<p.schema>>
    [] "schemas" \in DOMAIN p -> p.schemas
    [] "members" \in DOMAIN p -> [j \in DOMAIN p.members |-> p.members[j].schema]
    [] OTHER -> <<>>

(* Whether visit_subschemas visits part j of keyword i of s.               *)
IsVisited(s, i, j) ==
  LET p == s.keywords[i]
      part == Parts(p)[j]
  IN  /\ ~Skipped(s, i)
      /\ CASE p.keyword \in {"then", "else"} -> "if" \in Keywords(s) /\ IsSubschema(part)
           [] p.keyword \in {"properties", "patternProperties"} -> TRUE
           [] p.keyword = "additionalProperties" -> IsObject(part) \/ part = [accept |-> TRUE]
           [] OTHER -> IsSubschema(part)

Visits(s) ==
  IF ~IsObject(s) THEN <<>>
  ELSE FlattenSeq([i \in DOMAIN s.keywords |->
         SelectSeq([j \in DOMAIN Parts(s.keywords[i]) |-> <<i, j>>],
                   LAMBDA visit : IsVisited(s, visit[1], visit[2]))])

Visited(s, visit) == Parts(s.keywords[visit[1]])[visit[2]]

RECURSIVE Walk(_)
Walk(s) == <<s>> \o FlattenSeq([q \in DOMAIN Visits(s) |-> Walk(Visited(s, Visits(s)[q]))])

---------------------------------------------------------------------------
(* The first walk: sizes and offsets.                                      *)

Doubles == {"minimum", "maximum", "multipleOf", "exclusiveMinimum", "exclusiveMaximum"}
Counts  == {"minProperties", "maxProperties", "minLength", "maxLength", "minItems", "maxItems"}
Strings == {"pattern", "format"}
Singles == {"items", "contains", "not", "propertyNames"}
Lists   == {"allOf", "anyOf", "oneOf"}

\* Without the offset of `else`.
\* base_size in the table of keywords.
BaseSize(k) ==
  CASE k \in Doubles -> 9
    [] k \in Strings -> 9
    [] k = "uniqueItems" -> 1
    [] k = "if" -> 13
    [] OTHER -> 5

SizeOf(s, i) ==
  LET p == s.keywords[i] IN
  CASE p.keyword \in Doubles \cup Counts \cup Strings \cup {"type"} -> BaseSize(p.keyword)
    [] p.keyword = "uniqueItems" /\ ~Skipped(s, i) /\ p.flag -> BaseSize(p.keyword)
    [] p.keyword \in Singles \cup {"if"} /\ ~Skipped(s, i) /\ IsSubschema(p.schema) -> BaseSize(p.keyword)
    [] p.keyword \in Lists /\ ~Skipped(s, i) -> BaseSize(p.keyword) + 4 * Len(p.schemas)
    [] p.keyword = "required" /\ ~Skipped(s, i) -> BaseSize(p.keyword) + 8 * Len(p.names)
    [] OTHER -> 0

\* The properties and the patterns of s, which share an instruction.
Rules(s, k) == IF k \in Keywords(s) THEN s.keywords[FirstOf(s, k)].members ELSE <<>>

RuleCount(s) == Len(Rules(s, "properties")) + Len(Rules(s, "patternProperties"))

HasRules(s) == RuleCount(s) > 0 \/ "additionalProperties" \in Keywords(s)

OwnSize(s) ==
  IF ~IsObject(s) THEN 1
  ELSE Total([i \in DOMAIN s.keywords |-> SizeOf(s, i)])
       + (IF HasRules(s) THEN 13 + 12 * RuleCount(s) ELSE 0) + 1

Offset(walk, n) == Header + Total([m \in 1 .. n - 1 |-> OwnSize(walk[m])])

(* The number of the part that the n-th schema visits as `visit`.          *)
NumberOf(walk, n, visit) ==
  LET s == walk[n]
      before == {q \in DOMAIN Visits(s) : \E r \in DOMAIN Visits(s) : Visits(s)[r] = visit /\ q < r}
  IN  n + 1 + Total([q \in 1 .. Cardinality(before) |-> Len(Walk(Visited(s, Visits(s)[q])))])

OffsetOf(walk, n, visit) ==
  IF visit \in ToSet(Visits(walk[n])) THEN Offset(walk, NumberOf(walk, n, visit)) ELSE NoOffset

---------------------------------------------------------------------------
(* The second walk: code.                                                  *)

Order == <<"type", "minimum", "maximum", "multipleOf", "exclusiveMinimum", "exclusiveMaximum",
           "pattern", "minProperties", "maxProperties", "uniqueItems", "minLength", "maxLength",
           "minItems", "maxItems", "items", "contains", "not", "allOf", "anyOf", "oneOf", "if",
           "propertyNames", "format", "required", "properties">>

(* The keyword the code is made from: a number or a string is read from    *)
(* its token, so that the last counts; of all others the first, which is   *)
(* not skipped.                                                            *)
Read(s, k) ==
  s.keywords[IF k \in Doubles \cup Counts \cup Strings \cup {"uniqueItems"} THEN LastOf(s, k) ELSE FirstOf(s, k)]

IsEmitted(s, k) ==
  IF k = "properties" THEN HasRules(s)
  ELSE /\ k \in Keywords(s)
       /\ CASE k \in Singles \cup {"if"} -> IsSubschema(Read(s, k).schema)
            [] k = "uniqueItems" -> Read(s, k).flag /\ FirstOf(s, k) = LastOf(s, k)
            [] k = "required" -> Read(s, k).names # <<>>
            [] OTHER -> TRUE

\* What is written after the opcode, with emit_uint32, emit_int32 and emit_double.
OperandBytes(s, k) ==
  CASE k \in Doubles -> 8
    [] k = "uniqueItems" -> 0
    [] k \in Strings -> 4 + 4
    [] k \in Lists -> 4 + 4 * Len(Read(s, k).schemas)
    [] k = "if" -> 4 + 4 + 4
    [] k = "required" -> 4 + (4 + 4) * Len(Read(s, k).names)
    [] k = "properties" -> 4 + 4 + 4 + (4 + 4 + 4) * RuleCount(s)
    [] OTHER -> 4

PartOffsets(walk, n, k) ==
  IF k \notin Keywords(walk[n]) THEN <<>>
  ELSE [j \in DOMAIN Parts(Read(walk[n], k)) |-> OffsetOf(walk, n, <<FirstOf(walk[n], k), j>>)]

Branch(walk, n, k) ==
  IF k \in Keywords(walk[n]) THEN OffsetOf(walk, n, <<FirstOf(walk[n], k), 1>>) ELSE NoOffset

RuleOffsets(walk, n, k) ==
  [j \in DOMAIN Rules(walk[n], k) |->
     [name |-> Rules(walk[n], k)[j].name, at |-> PartOffsets(walk, n, k)[j]]]

\* add_rule: -1 everything is allowed, -2 nothing, else an offset.
Forbidden == -2
Additional(walk, n) ==
  LET k == "additionalProperties" IN
  IF k \notin Keywords(walk[n]) \/ FirstOf(walk[n], k) # LastOf(walk[n], k) THEN NoOffset
  ELSE IF Read(walk[n], k).schema = [accept |-> FALSE] THEN Forbidden
  ELSE OffsetOf(walk, n, <<FirstOf(walk[n], k), 1>>)

(* (int32_t)parse_number: the fraction goes, and a number that no int32_t  *)
(* can hold, which C leaves undefined, becomes the lowest one (x86-64) or, *)
(* when it is too large, the highest (AArch64): `tooLarge`.                *)
ToInt32(halves, tooLarge) ==
  LET whole == IF halves < 0 THEN -((-halves) \div 2) ELSE halves \div 2 IN
  IF whole > MaxInt32 THEN tooLarge ELSE IF whole < -MaxInt32 - 1 THEN -MaxInt32 - 1 ELSE whole

Instruction(walk, n, k, tooLarge) ==
  LET s == walk[n] IN
  [op    |-> k,
   bytes |-> 1 + OperandBytes(s, k),
   arg   |-> IF k = "properties" THEN [rules |-> RuleOffsets(walk, n, "properties"),
                                       patterns |-> RuleOffsets(walk, n, "patternProperties"),
                                       additional |-> Additional(walk, n)]
             ELSE IF k \in Counts THEN [Read(s, k) EXCEPT !.number = ToInt32(@, tooLarge)]
             ELSE Read(s, k),
   at    |-> IF k = "if" THEN <<Branch(walk, n, "if"), Branch(walk, n, "then"), Branch(walk, n, "else")>>
             ELSE PartOffsets(walk, n, k)]

Stop(op) == [op |-> op, bytes |-> 1, arg |-> [none |-> TRUE], at |-> <<>>]

Emitted(walk, n, tooLarge) ==
  LET s == walk[n] IN
  IF s = [accept |-> FALSE] THEN <<Stop("FAIL")>>
  ELSE IF ~IsObject(s) THEN <<Stop("END")>>
  ELSE LET ops == SelectSeq(Order, LAMBDA k : IsEmitted(s, k))
       IN  [q \in DOMAIN ops |-> Instruction(walk, n, ops[q], tooLarge)] \o <<Stop("END")>>

(* serialize_schema_direct from the root: the code, one schema's after the *)
(* other's.                                                                *)
Serialized(walk, tooLarge) ==
  LET all == FlattenSeq([n \in DOMAIN walk |-> Emitted(walk, n, tooLarge)])
      at[q \in 1 .. Len(all)] == IF q = 1 THEN Header ELSE at[q - 1] + all[q - 1].bytes
  IN  [a \in {at[q] : q \in 1 .. Len(all)} |-> all[CHOOSE q \in 1 .. Len(all) : at[q] = a]]

=============================================================================
