----------------------------- MODULE Validator ------------------------------
(***************************************************************************)
(* The machine that runs a compiled schema over a parsed document:         *)
(* validate_bytecode (src/src/validation/validate.c) and the handlers of   *)
(* its instructions (validate_opcodes.c).                                  *)
(*                                                                         *)
(* The handlers of compound instructions call validate_bytecode again; a   *)
(* frame is one such call: its program counter, the node it is about with  *)
(* the path reported for it, what the calls of its current instruction     *)
(* returned so far, and the error of the last that failed.                 *)
(*                                                                         *)
(* The nodes of a document hold strings and keys as they are written, with *)
(* escapes or without: a document is a value whose names are spellings.    *)
(* Some handlers take a string for what it means and some as it is written.*)
(***************************************************************************)
EXTENDS Schema

CONSTANTS
  Schema,     \* the schemas to compile
  Document,   \* the documents to validate, with spellings for names
  Means,      \* the name each spelling means, a name being its own
  ItemPath    \* what fits in handle_items' item_path[64], in steps of a path

ASSUME ItemPathAssumption == ItemPath \in Nat \ {0}

VARIABLES
  schema,  \* what was compiled
  code,    \* Jsonv_Schema.bytecode
  root,    \* the document
  frames,  \* the calls of validate_bytecode, innermost last
  result,  \* "none", "compiled", "running", "valid", "invalid" or "wild"
  error    \* Jsonv_Context.last_error

validatorVars == <<schema, code, root, frames, result, error>>

NoError == [op |-> "none", path |-> <<>>]

Top    == Last(frames)
Instr  == code[Top.pc]

---------------------------------------------------------------------------
(* Instructions that look at one node.                                     *)

Assertions == {"type", "pattern", "uniqueItems", "format", "required"} \cup Doubles \cup Counts

(* ast_nodes_equal: strings and keys are compared as they are written.     *)
RECURSIVE Equal(_, _)
Equal(v, w) ==
  CASE Is("items", v) /\ Is("items", w) ->
         /\ Len(v.items) = Len(w.items)
         /\ \A i \in DOMAIN v.items : Equal(v.items[i], w.items[i])
    [] Is("members", v) /\ Is("members", w) ->
         /\ Len(v.members) = Len(w.members)
         /\ \A m \in ToSet(v.members) : \E n \in ToSet(w.members) :
              m.name = n.name /\ Equal(m.value, n.value)
    [] OTHER -> v = w

HasType(types, v) ==
  \/ Is("null", v) /\ "null" \in types
  \/ Is("bool", v) /\ "boolean" \in types
  \/ Is("number", v) /\ ("number" \in types \/ ("integer" \in types /\ v.number % 2 = 0))
  \/ Is("string", v) /\ "string" \in types
  \/ Is("items", v) /\ "array" \in types
  \/ Is("members", v) /\ "object" \in types

InRange(op, number, bound) ==
  CASE op = "minimum" -> ~(number < bound)
    [] op = "maximum" -> ~(number > bound)
    [] op = "exclusiveMinimum" -> ~(number <= bound)
    [] op = "exclusiveMaximum" -> ~(number >= bound)
    [] op = "multipleOf" -> number % bound = 0

\* What each of Counts is about, and how many of it a node has.
Counted(op) ==
  CASE op \in {"minLength", "maxLength"} -> "string"
    [] op \in {"minItems", "maxItems"} -> "items"
    [] op \in {"minProperties", "maxProperties"} -> "members"

Count(v) ==
  CASE Is("string", v) -> Size[v.string]
    [] Is("items", v) -> Len(v.items)
    [] Is("members", v) -> Len(v.members)

\* A length is compared with (size_t)limit: a limit below 0 is above every length.
Enough(op, count, limit) ==
  CASE op = "minLength" -> ~(limit < 0 \/ count < limit)
    [] op = "maxLength" -> limit < 0 \/ ~(count > limit)
    [] op \in {"minItems", "minProperties"} -> ~(count < limit)
    [] op \in {"maxItems", "maxProperties"} -> ~(count > limit)

\* A format is compared with the string as it is written.
Fits(op, name, string) ==
  IF op = "pattern" THEN name \notin Broken /\ <<name, Means[string]>> \in Matching
  ELSE <<name, string>> \in Conforming

\* find_property.
HasRequired(names, v) ==
  \A i \in DOMAIN names : \E m \in ToSet(v.members) : Means[m.name] = names[i]

HasUniqueItems(v) ==
  \A i, j \in DOMAIN v.items : i < j => ~Equal(v.items[i], v.items[j])

Holds(ins, v) ==
  CASE ins.op = "type" -> HasType(ins.arg.types, v)
    [] ins.op \in Doubles -> Is("number", v) => InRange(ins.op, v.number, ins.arg.number)
    [] ins.op \in Counts -> Is(Counted(ins.op), v) => Enough(ins.op, Count(v), ins.arg.number)
    [] ins.op \in Strings -> Is("string", v) => Fits(ins.op, ins.arg.name, v.string)
    [] ins.op = "required" -> Is("members", v) => HasRequired(ins.arg.names, v)
    [] ins.op = "uniqueItems" -> Is("items", v) => HasUniqueItems(v)

\* What is reported; too many items are reported as too few.
ErrorOf(ins) ==
  CASE ins.op = "maxItems" -> "minItems"
    [] ins.op = "pattern" /\ ins.arg.name \in Broken -> "regex"
    [] OTHER -> ins.op

---------------------------------------------------------------------------
(* Instructions that call validate_bytecode.                               *)

CallOf(at, value, path) == [at |-> at, value |-> value, path |-> path]

\* A pattern that does not compile, as the offset of a call that fails.
NotCompiled == -3

\* What snprintf leaves of a path in item_path.
Cut(path) == IF Len(path) > ItemPath THEN SubSeq(path, 1, ItemPath) ELSE path

ItemCalls(ins, v, path) ==
  IF ~Is("items", v) THEN <<>>
  ELSE [i \in DOMAIN v.items |-> CallOf(ins.at[1], v.items[i], Cut(Append(path, [index |-> i - 1])))]

\* contains reports the path of the array.
ContainsCalls(ins, v, path) ==
  IF ~Is("items", v) THEN <<>>
  ELSE [i \in DOMAIN v.items |-> CallOf(ins.at[1], v.items[i], path)]

\* The key's own node, and its spelling in the path.
NameCalls(ins, v, path) ==
  IF ~Is("members", v) THEN <<>>
  ELSE [i \in DOMAIN v.members |->
          CallOf(ins.at[1], [string |-> v.members[i].name], Append(path, [name |-> v.members[i].name]))]

(* handle_properties, for one member: the first property of that name,     *)
(* every pattern up to one that does not compile, and the additional rule  *)
(* when nothing matched.                                                   *)
MemberCalls(arg, m, path) ==
  LET name == Means[m.name]
      below == Append(path, [name |-> name])
      call(at) == CallOf(at, m.value, below)
      named == SelectInSeq(arg.rules, LAMBDA r : r.name = name)
      broken == SelectInSeq(arg.patterns, LAMBDA r : r.name \in Broken)
      tried == IF broken = 0 THEN arg.patterns ELSE SubSeq(arg.patterns, 1, broken - 1)
      patterns == SelectSeq(tried, LAMBDA r : <<r.name, name>> \in Matching)
      direct == IF named = 0 THEN <<>> ELSE <<call(arg.rules[named].at)>>
      matched == direct \o [q \in DOMAIN patterns |-> call(patterns[q].at)]
  IN  IF broken # 0 THEN Append(matched, CallOf(NotCompiled, m.value, path))
      ELSE IF matched = <<>> /\ arg.additional # NoOffset THEN <<call(arg.additional)>>
      ELSE matched

PropertyCalls(ins, v, path) ==
  IF ~Is("members", v) THEN <<>>
  ELSE FlattenSeq([i \in DOMAIN v.members |-> MemberCalls(ins.arg, v.members[i], path)])

BranchCalls(ins, v, path, results) ==
  LET branch == IF results[1] THEN ins.at[2] ELSE ins.at[3]
      condition == <<CallOf(ins.at[1], v, path)>>
  IN  IF results = <<>> \/ branch = NoOffset THEN condition
      ELSE Append(condition, CallOf(branch, v, path))

(* The calls an instruction makes, unless one of them settles it.          *)
Calls(ins, v, path, results) ==
  CASE ins.op = "items" -> ItemCalls(ins, v, path)
    [] ins.op = "contains" -> ContainsCalls(ins, v, path)
    [] ins.op = "propertyNames" -> NameCalls(ins, v, path)
    [] ins.op = "properties" -> PropertyCalls(ins, v, path)
    [] ins.op = "if" -> BranchCalls(ins, v, path, results)
    [] OTHER -> [q \in DOMAIN ins.at |-> CallOf(ins.at[q], v, path)]

IsSettled(op, results) ==
  \/ op \in {"items", "propertyNames", "properties", "allOf"} /\ FALSE \in ToSet(results)
  \/ op \in {"contains", "anyOf"} /\ TRUE \in ToSet(results)

Concluded(ins, v, results) ==
  CASE ins.op \in {"items", "propertyNames", "properties", "allOf"} -> FALSE \notin ToSet(results)
    [] ins.op = "contains" -> Is("items", v) => TRUE \in ToSet(results)
    [] ins.op = "anyOf" -> TRUE \in ToSet(results)
    [] ins.op = "not" -> TRUE \notin ToSet(results)
    [] ins.op = "oneOf" -> Cardinality({q \in DOMAIN results : results[q]}) = 1
    [] ins.op = "if" -> Len(results) = 2 => results[2]

\* These leave the error of the call that failed; others report their own.
Passes == {"items", "propertyNames", "properties", "if"}

---------------------------------------------------------------------------
(* The machine.                                                            *)

Frame(call) ==
  [pc |-> call.at, value |-> call.value, path |-> call.path, results |-> <<>>, error |-> NoError]

(* The names of a required list left unread where the node is no object.   *)
Consumed_ObjectsOnly(ins, v) ==
  1 + CASE ins.op \in Doubles -> 8
        [] ins.op \in Strings -> 4 + 4
        [] ins.op \in Lists -> 4 + 4 * Len(ins.at)
        [] ins.op = "if" -> 4 + 4 + 4
        [] ins.op = "required" -> IF Is("members", v) THEN 4 + 8 * Len(ins.arg.names) ELSE 4
        [] ins.op = "properties" -> 4 + 4 + 4 + 12 * Len(ins.arg.rules) + 12 * Len(ins.arg.patterns)
        [] ins.op = "uniqueItems" -> 0
        [] OTHER -> 4

(* What a handler that returns true has read behind the opcode: read_double*)
(* takes eight bytes, read_uint32 and read_int32 four.  Lists, rules and   *)
(* required names come after their number; handle_required reads the names *)
(* of an object one by one and steps over them for any other node.         *)
Consumed(ins, v) ==
  1 + CASE ins.op \in Doubles -> 8
        [] ins.op \in Strings -> 4 + 4
        [] ins.op \in Lists -> 4 + 4 * Len(ins.at)
        [] ins.op = "if" -> 4 + 4 + 4
        [] ins.op = "required" /\ Is("members", v) -> 4 + Total([i \in DOMAIN ins.arg.names |-> 4 + 4])
        [] ins.op = "required" /\ ~Is("members", v) -> 4 + 8 * Len(ins.arg.names)
        [] ins.op = "properties" -> 4 + 4 + 4 + 12 * Len(ins.arg.rules) + 12 * Len(ins.arg.patterns)
        [] ins.op = "uniqueItems" -> 0
        [] OTHER -> 4

(* The operands not consumed.                                              *)
Advance_Nowhere ==
  /\ frames' = [frames EXCEPT ![Len(frames)] = [@ EXCEPT !.results = <<>>, !.error = NoError]]
  /\ UNCHANGED <<result, error>>

Advance ==
  /\ frames' = [frames EXCEPT ![Len(frames)] =
                  [@ EXCEPT !.pc = @ + Consumed(Instr, Top.value), !.results = <<>>, !.error = NoError]]
  /\ UNCHANGED <<result, error>>

(* The first error kept.                                                   *)
Told_First(frame, ok, err) ==
  [frame EXCEPT !.results = Append(@, ok), !.error = IF ok \/ @ # NoError THEN @ ELSE err]

Told(frame, ok, err) ==
  [frame EXCEPT !.results = Append(@, ok), !.error = IF ok THEN @ ELSE err]

(* validate_bytecode returns to the handler that called it, or to          *)
(* jsonv_ctx_validate.                                                     *)
Return(ok, err) ==
  \/ /\ Len(frames) = 1
     /\ frames' = <<>>
     /\ result' = IF ok THEN "valid" ELSE "invalid"
     /\ error' = IF ok THEN error ELSE err
  \/ /\ Len(frames) > 1
     /\ frames' = [Front(frames) EXCEPT ![Len(frames) - 1] = Told(@, ok, err)]
     /\ UNCHANGED <<result, error>>

Report(op) == [op |-> op, path |-> Top.path]

OnCode == result = "running" /\ Top.pc \in DOMAIN code

End  == OnCode /\ Instr.op = "END" /\ Return(TRUE, NoError)
Fail == OnCode /\ Instr.op = "FAIL" /\ Return(FALSE, Report("FAIL"))

Check ==
  /\ OnCode
  /\ Instr.op \in Assertions
  /\ \/ Holds(Instr, Top.value) /\ Advance
     \/ ~Holds(Instr, Top.value) /\ Return(FALSE, Report(ErrorOf(Instr)))

Made    == Calls(Instr, Top.value, Top.path, Top.results)
IsDone  == IsSettled(Instr.op, Top.results) \/ Len(Top.results) = Len(Made)

Call ==
  /\ OnCode
  /\ Instr.op \in Singles \cup Lists \cup {"if", "properties"}
  /\ ~IsDone
  /\ LET call == Made[Len(Top.results) + 1]
         tell(ok, err) == [frames EXCEPT ![Len(frames)] = Told(@, ok, err)]
     IN  frames' = CASE call.at = NoOffset -> tell(TRUE, NoError)
                     [] call.at = Forbidden -> tell(FALSE, [op |-> "additionalProperties", path |-> call.path])
                     [] call.at = NotCompiled -> tell(FALSE, [op |-> "regex", path |-> call.path])
                     [] OTHER -> Append(frames, Frame(call))
  /\ UNCHANGED <<result, error>>

Conclude ==
  /\ OnCode
  /\ Instr.op \in Singles \cup Lists \cup {"if", "properties"}
  /\ IsDone
  /\ \/ Concluded(Instr, Top.value, Top.results) /\ Advance
     \/ /\ ~Concluded(Instr, Top.value, Top.results)
        /\ Return(FALSE, IF Instr.op \in Passes THEN Top.error ELSE Report(Instr.op))

(* The program counter is not at an instruction: whatever byte is there    *)
(* decides the verdict.                                                    *)
RunWild ==
  /\ result = "running"
  /\ Top.pc \notin DOMAIN code
  /\ result' = "wild"
  /\ frames' = <<>>
  /\ UNCHANGED error

Run ==
  /\ End \/ Fail \/ Check \/ Call \/ Conclude \/ RunWild
  /\ UNCHANGED <<schema, code, root>>

Nothing == [null |-> TRUE]

ValidatorInit ==
  /\ schema \in Schema
  /\ root = Nothing
  /\ code = <<>>
  /\ frames = <<>>
  /\ result = "none"
  /\ error = NoError

(* compile_schema.                                                         *)
Compile ==
  /\ result = "none"
  /\ \E tooLarge \in {MaxInt32, -MaxInt32 - 1} : code' = Serialized(Walk(schema), tooLarge)
  /\ result' = "compiled"
  /\ UNCHANGED <<schema, root, frames, error>>

(* jsonv_ctx_validate on a context that holds a document: a schema         *)
(* validates as many as the host likes.                                    *)
Validate ==
  /\ result \notin {"none", "running"}
  /\ root' \in Document
  /\ frames' = <<Frame(CallOf(Header, root', <<>>))>>
  /\ result' = "running"
  /\ error' = NoError
  /\ UNCHANGED <<schema, code>>

ValidatorNext == Compile \/ Validate \/ Run

(* One thread validates, and nothing blocks it before its verdict.         *)
ValidatorSpec == ValidatorInit /\ [][ValidatorNext]_validatorVars /\ WF_validatorVars(Run)

---------------------------------------------------------------------------
(* What the machine must do.                                               *)

ObjectsIn(s) == {t \in ToSet(Walk(s)) : IsObject(t)}

\* No schema below s has a keyword twice or requires an empty list.
IsRegular(s) ==
  \A t \in ObjectsIn(s) :
    /\ \A i \in DOMAIN t.keywords : ~Skipped(t, i)
    /\ \A p \in ToSet(t.keywords) : p.keyword = "required" => p.names # <<>>

\* The limits of Counts that the compiler takes as they are.
IsLimit(halves) == halves % 2 = 0 /\ halves \in 0 .. 2 * MaxInt32

\* Nor has one a part that is no schema, a pattern that does not compile or
\* a limit that is no int32_t.
IsLegal(s) ==
  /\ IsRegular(s)
  /\ \A t \in ObjectsIn(s) : \A p \in ToSet(t.keywords) :
       /\ \A j \in DOMAIN Parts(p) : IsSubschema(Parts(p)[j])
       /\ p.keyword = "pattern" => p.name \notin Broken
       /\ p.keyword = "patternProperties" => NamesIn(p.members) \cap Broken = {}
       /\ p.keyword \in Counts => IsLimit(p.number)

(* The value that a document means.                                        *)
RECURSIVE Meant(_)
Meant(v) ==
  CASE Is("string", v) -> [string |-> Means[v.string]]
    [] Is("items", v) -> [items |-> [i \in DOMAIN v.items |-> Meant(v.items[i])]]
    [] Is("members", v) ->
         [members |-> [i \in DOMAIN v.members |->
            [name |-> Means[v.members[i].name], value |-> Meant(v.members[i].value)]]]
    [] OTHER -> v

(* No name of v is written with an escape, or no schema below s asks what  *)
(* the handlers read off the spelling: its bytes, their number, a format.  *)
ReadsMeaning(s, v) ==
  \/ Meant(v) = v
  \/ \A t \in ObjectsIn(s) : Keywords(t) \cap {"uniqueItems", "minLength", "maxLength", "format"} = {}

(* docs/isa.md:327: the machine reads opcodes only where the compiler      *)
(* wrote one.                                                              *)
StaysOnCode == result # "wild"

(* The machine reads opcodes only where the compiler wrote one: every      *)
(* offset of a regular schema is the address of the code it stands for,    *)
(* and every handler consumes as much as the compiler wrote, on whatever   *)
(* node; and the verdict is what the keywords of a legal schema mean for   *)
(* the value the document means, where no keyword reads an escape's bytes. *)
VerdictRight ==
  /\ result = "wild" => ~IsRegular(schema)
  /\ result \in {"valid", "invalid"} /\ IsLegal(schema) /\ ReadsMeaning(schema, root) =>
       (result = "valid" <=> Valid(schema, Meant(root)))

(* What a schema asks of a value it asks of some of the value's parts, by  *)
(* another schema: one wrong with its part is wrong with the whole.        *)
Judgement(s, v, path) == [schema |-> s, value |-> v, path |-> path]

Asked(s, v, path, p) ==
  LET of(m) == Append(path, [name |-> m.name]) IN
  CASE p.keyword = "items" /\ Is("items", v) ->
         {Judgement(p.schema, v.items[i], Append(path, [index |-> i - 1])) : i \in DOMAIN v.items}
    [] p.keyword = "propertyNames" /\ Is("members", v) ->
         {Judgement(p.schema, [string |-> m.name], of(m)) : m \in ToSet(v.members)}
    [] p.keyword = "properties" /\ Is("members", v) ->
         {Judgement(r.schema, m.value, of(m)) : <<r, m>> \in
            {x \in ToSet(p.members) \X ToSet(v.members) : x[1].name = x[2].name}}
    [] p.keyword = "patternProperties" /\ Is("members", v) ->
         {Judgement(r.schema, m.value, of(m)) : <<r, m>> \in
            {x \in ToSet(p.members) \X ToSet(v.members) : <<x[1].name, x[2].name>> \in Matching}}
    [] p.keyword = "additionalProperties" /\ Is("members", v) ->
         {Judgement(p.schema, m.value, of(m)) : m \in
            {x \in ToSet(v.members) : ~Named(s, x) /\ ~Patterned(s, x)}}
    [] p.keyword = "then" /\ "if" \in Keywords(s) ->
         {Judgement(p.schema, v, path) : x \in {x \in {v} : Valid(Pair(s, "if").schema, x)}}
    [] p.keyword = "else" /\ "if" \in Keywords(s) ->
         {Judgement(p.schema, v, path) : x \in {x \in {v} : ~Valid(Pair(s, "if").schema, x)}}
    [] OTHER -> {}

\* propertyNames reports a key as it is written.
MeantPath(path) ==
  [i \in DOMAIN path |-> IF "name" \in DOMAIN path[i] THEN [name |-> Means[path[i].name]] ELSE path[i]]

RECURSIVE Judgements(_)
Judgements(j) ==
  IF ~IsObject(j.schema) THEN {j}
  ELSE {j} \cup UNION {Judgements(k) : k \in
         UNION {Asked(j.schema, j.value, j.path, p) : p \in ToSet(j.schema.keywords)}}

Faults(j) ==
  IF ~IsObject(j.schema) THEN IF j.schema.accept THEN {} ELSE {"FAIL", "additionalProperties"}
  ELSE {IF p.keyword = "maxItems" THEN "minItems" ELSE p.keyword :
          p \in {q \in ToSet(j.schema.keywords) : ~Meets(j.schema, q, j.value)}}

(* The error reported for a document names a keyword that one of its parts *)
(* fails, and the path is the path of that part: errors of failed attempts *)
(* (in contains, anyOf, oneOf, not, if) do not leak into it.  A part whose *)
(* own path is longer than handle_items' buffer may be reported under      *)
(* another path.                                                           *)
ErrorTrue ==
  result = "invalid" /\ IsLegal(schema) /\ ReadsMeaning(schema, root) =>
    \E j \in Judgements(Judgement(schema, Meant(root), <<>>)) :
      /\ error.op \in Faults(j)
      /\ j.path = MeantPath(error.path) \/ Len(j.path) > ItemPath

(* Every validation comes to its verdict.                                  *)
ValidationEnds == result = "running" ~> result \in {"valid", "invalid", "wild"}
=============================================================================
