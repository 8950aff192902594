----------------------------- MODULE JsonParser -----------------------------
(***************************************************************************)
(* The JSON parser of src/src/parser/parser.c: a pushdown automaton that   *)
(* builds the AST.  One action is one turn of the loop in parse_ast.       *)
(***************************************************************************)
EXTENDS Ast, JsonTokens

CONSTANT MaxDepth   \* MAX_JSON_DEPTH

ASSUME ParserAssumption == MaxDepth \in Nat

VARIABLES
  pos,        \* the current token; the next one is the lookahead
  controls,   \* what is still expected
  depth,
  status      \* "parsing", "accepted" or the exception raised

parserVars == <<doc, pos, controls, depth, status, astVars>>

Current == TokenAt(pos)
Ahead   == TokenAt(pos + 1)

---------------------------------------------------------------------------
(* The prescan, which sizes the tables and judges the limits.              *)

Deeper(e) == IF e.depth + 1 > e.maxDepth THEN e.depth + 1 ELSE e.maxDepth

Counted_NoStrings(e, t) ==
  CASE t.type = "{" -> [e EXCEPT !.depth = @ + 1, !.maxDepth = Deeper(e), !.objects = @ + 1]
    [] t.type = "[" -> [e EXCEPT !.depth = @ + 1, !.maxDepth = Deeper(e), !.arrays = @ + 1]
    [] t.type \in {"}", "]"} /\ e.depth > 0 -> [e EXCEPT !.depth = @ - 1]
    [] t.type = "scalar" -> [e EXCEPT !.values = @ + 1]
    [] OTHER -> e

Counted_NeverCloses(e, t) ==
  CASE t.type = "{" -> [e EXCEPT !.depth = @ + 1, !.maxDepth = Deeper(e), !.objects = @ + 1]
    [] t.type = "[" -> [e EXCEPT !.depth = @ + 1, !.maxDepth = Deeper(e), !.arrays = @ + 1]
    [] t.type \in {"string", "scalar"} -> [e EXCEPT !.values = @ + 1]
    [] OTHER -> e

(* One token in prescan.  The code counts a number once for every digit,   *)
(* here once.                                                              *)
Counted(e, t) ==
  CASE t.type = "{" -> [e EXCEPT !.depth = @ + 1, !.maxDepth = Deeper(e), !.objects = @ + 1]
    [] t.type = "[" -> [e EXCEPT !.depth = @ + 1, !.maxDepth = Deeper(e), !.arrays = @ + 1]
    [] t.type \in {"}", "]"} /\ e.depth > 0 -> [e EXCEPT !.depth = @ - 1]
    [] t.type \in {"string", "scalar"} -> [e EXCEPT !.values = @ + 1]
    [] OTHER -> e

NothingCounted == [depth |-> 0, maxDepth |-> 0, values |-> 0, objects |-> 0, arrays |-> 0]

\* The counts after the first tokens of a text, for each number of them.
Counts(text) ==
  LET counts[i \in 0 .. Len(text)] ==
        IF i = 0 THEN NothingCounted ELSE Counted(counts[i - 1], text[i])
  IN  counts

Estimate(text) == Counts(text)[Len(text)]

---------------------------------------------------------------------------
(* The automaton.                                                          *)

Expected == Last(controls)

Raise(exception) ==
  /\ status' = exception
  /\ UNCHANGED <<doc, pos, controls, depth, astVars>>

\* The expected symbol is replaced by others, the last of them on top.
Push(symbols) == controls' = Front(controls) \o symbols

Expand(symbols) ==
  /\ Push(symbols)
  /\ UNCHANGED <<doc, pos, depth, status, astVars>>

IsLeaf(type) == type \in {"string", "scalar"}

Symbols == Punctuation \cup {"string", "scalar", "eof"}

Match_Peek ==
  /\ Expected \in Symbols
  /\ \/ /\ Expected # Current.type
        /\ Raise("MALFORMED_JSON")
     \/ /\ Expected = Current.type
        /\ \/ /\ IsLeaf(Expected)
              /\ LinkNode("LEAF", Current, HugeName)
              /\ scopes' = Linked
           \/ ~IsLeaf(Expected) /\ UNCHANGED astVars
        /\ pos' = IF pos <= Len(doc) THEN pos + 1 ELSE pos
        /\ controls' = IF Expected = "eof" THEN controls ELSE Front(controls)
        /\ UNCHANGED <<doc, depth, status>>

(* A terminal: it is there, and a leaf becomes a node.                     *)
Match ==
  /\ Expected \in Symbols
  /\ \/ /\ Expected # Current.type
        /\ Raise("MALFORMED_JSON")
     \/ /\ Expected = Current.type
        /\ \/ /\ IsLeaf(Expected)
              /\ LinkNode("LEAF", Current, HugeName)
              /\ scopes' = Linked
           \/ ~IsLeaf(Expected) /\ UNCHANGED astVars
        /\ pos' = IF pos <= Len(doc) THEN pos + 1 ELSE pos
        /\ Push(<<>>)
        /\ UNCHANGED <<doc, depth, status>>

ExpandJson == Expected = "RULE_JSON" /\ Expand(<<"eof", "RULE_VALUE">>)

ExpandValue ==
  /\ Expected = "RULE_VALUE"
  /\ \/ Current.type = "{" /\ Expand(<<"RULE_OBJECT">>)
     \/ Current.type = "[" /\ Expand(<<"RULE_ARRAY">>)
     \/ IsLeaf(Current.type) /\ Expand(<<Current.type>>)
     \/ ~IsLeaf(Current.type) /\ Current.type \notin {"{", "["} /\ Raise("MALFORMED_JSON")

(* RULE_OBJECT and RULE_ARRAY: a node and a scope, unless too deep.        *)
Open(rule, type, open, close, end, content) ==
  /\ Expected = rule
  /\ \/ /\ depth + 1 > MaxDepth
        /\ depth' = depth + 1
        /\ status' = "MAXIMUM_NESTED_DEPTH_REACHED"
        /\ UNCHANGED <<doc, pos, controls, astVars>>
     \/ /\ depth + 1 <= MaxDepth
        /\ depth' = depth + 1
        /\ LinkNode(type, Current, HugeName)
        /\ scopes' = Append(Linked, NewScope)
        /\ Push(IF Ahead.type = close THEN <<end, close, open>> ELSE <<end, close, content, open>>)
        /\ UNCHANGED <<doc, pos, status>>

ExpandObject == Open("RULE_OBJECT", "OBJECT", "{", "}", "MARK_OBJECT_END", "RULE_MEMBERS")
ExpandArray  == Open("RULE_ARRAY", "ARRAY", "[", "]", "MARK_ARRAY_END", "RULE_ELEMENTS")

ExpandMembers  == Expected = "RULE_MEMBERS" /\ Expand(<<"RULE_NEXT_MEMBER", "RULE_PAIR">>)
ExpandPair     == Expected = "RULE_PAIR" /\ Expand(<<"RULE_VALUE", ":", "string">>)
ExpandElements == Expected = "RULE_ELEMENTS" /\ Expand(<<"RULE_NEXT_ELEMENT", "RULE_VALUE">>)

ExpandNext_Trailing(rule, content) ==
  /\ Expected = rule
  /\ Expand(IF Current.type # "," THEN <<>>
            ELSE IF Ahead.type \in {"}", "]"} THEN <<",">> ELSE <<content, ",">>)

ExpandNext(rule, content) ==
  /\ Expected = rule
  /\ Expand(IF Current.type = "," THEN <<content, ",">> ELSE <<>>)

ExpandNextMember  == ExpandNext("RULE_NEXT_MEMBER", "RULE_MEMBERS")
ExpandNextElement == ExpandNext("RULE_NEXT_ELEMENT", "RULE_ELEMENTS")

Close_KeepsDepth ==
  /\ Expected \in {"MARK_OBJECT_END", "MARK_ARRAY_END"}
  /\ Push(<<>>)
  /\ scopes' = Front(scopes)
  /\ UNCHANGED <<doc, pos, depth, nodes, keys, keyTree, capacity, status>>

Close ==
  /\ Expected \in {"MARK_OBJECT_END", "MARK_ARRAY_END"}
  /\ Push(<<>>)
  /\ scopes' = Front(scopes)
  /\ depth' = depth - 1
  /\ UNCHANGED <<doc, pos, nodes, keys, keyTree, capacity, status>>

Finish ==
  /\ status = "parsing"
  /\ controls = <<>>
  /\ status' = IF Ahead.type = "eof" THEN "accepted" ELSE "MALFORMED_JSON"
  /\ UNCHANGED <<doc, pos, controls, depth, astVars>>

ParserInit ==
  /\ doc \in Document
  /\ pos = 1
  /\ controls = <<"RULE_JSON">>
  /\ depth = 0
  /\ AstInit(Estimate(doc).values)
  /\ status = "parsing"

ParserStep ==
  /\ status = "parsing"
  /\ controls # <<>>
  /\ \/ Match
     \/ ExpandJson
     \/ ExpandValue
     \/ ExpandObject
     \/ ExpandArray
     \/ ExpandMembers
     \/ ExpandPair
     \/ ExpandElements
     \/ ExpandNextMember
     \/ ExpandNextElement
     \/ Close

ParserNext == ParserStep \/ Finish

---------------------------------------------------------------------------
(* Properties.                                                             *)

Accepted == status = "accepted"

(* Every variable has its type, and links stay inside their arrays; there  *)
(* are as many scopes as the depth says, each with as many children as it  *)
(* counts, linked in order, whatever opened and closed in between.         *)
ParserTypeOK ==
  /\ pos \in 1 .. Len(doc) + 1
  /\ depth \in 0 .. MaxDepth + 1
  /\ AstTypeOK(Token)
  /\ status \in {"parsing", "accepted", "MALFORMED_JSON", "MAXIMUM_NESTED_DEPTH_REACHED"}
  /\ status = "parsing" => depth = Len(scopes)
  /\ ScopesCount

\* The parser's limit is judged on what the prescan counts.
DepthJudged ==
  /\ Accepted => Estimate(doc).maxDepth <= MaxDepth
  /\ status = "MAXIMUM_NESTED_DEPTH_REACHED" => Estimate(doc).maxDepth > MaxDepth

(* The parser accepts the JSON texts nested no deeper than the limit, and  *)
(* no others; what is malformed behind too deep a bracket may be reported  *)
(* as either.                                                              *)
Verdict ==
  /\ Accepted => doc \in Texts
  /\ status = "MALFORMED_JSON" => doc \notin Texts
  /\ DepthJudged

(* The value made from the AST of a text is the value of the text, where   *)
(* the conversion has room for it and no key is left out.                  *)
ValueRead ==
  Accepted /\ Convertible =>
    \E d \in Meanings : d.text = doc /\ ToValue(1) = d.value

(* Looking a property up in the AST, as validation does, and in the value  *)
(* made from it, as a host does, finds the same, but for the keys left out *)
(* of the tree, which only validation finds; and the path reported for a   *)
(* value leads back to it.                                                 *)
ViewsAgree == Accepted /\ LongNamesOnce /\ KeysFit => LookupsAgree(HugeName) /\ PathsResolve

\* How many of the nodes are of a type, and how deep each lies.
Number(ns, type) == Cardinality({i \in 1 .. Len(ns) : ns[i].token.type = type})

Nesting(ns) ==
  LET nesting[i \in 0 .. Len(ns)] ==
        IF i = 0 THEN 0
        ELSE nesting[ns[i].parent] + (IF ns[i].token.type \in {"{", "["} THEN 1 ELSE 0)
  IN  nesting

(* What the prescan counts, and the limits judge, is what the parser then  *)
(* builds.                                                                 *)
EstimateExact ==
  Accepted =>
    LET e == Estimate(doc)
        deepest == {Nesting(nodes)[i] : i \in 1 .. Len(nodes)}
    IN  /\ e.objects = Number(nodes, "{") /\ e.arrays = Number(nodes, "[")
        /\ e.maxDepth \in deepest /\ \A d \in deepest : d <= e.maxDepth
        /\ e.values >= Number(nodes, "string") + Number(nodes, "scalar")
=============================================================================
