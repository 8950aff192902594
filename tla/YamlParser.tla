----------------------------- MODULE YamlParser -----------------------------
(***************************************************************************)
(* The YAML parser of src/src/parser/yaml_parser.c, a recursive descent    *)
(* with one token of lookahead that builds the same AST as the JSON        *)
(* parser.  The calls under way are a stack of frames, and an action is    *)
(* what happens between two calls, two turns of a loop or two tokens.      *)
(***************************************************************************)
EXTENDS Ast, YamlLexer

CONSTANT Layout   \* the documents parsed

VARIABLES
  layout,
  lexer,
  c, n,       \* the current token and the next
  frames,
  depth,
  status      \* "parsing", "accepted" or the exception raised

yamlVars == <<layout, lexer, c, n, frames, depth, status, astVars>>

doc == layout.lines

---------------------------------------------------------------------------
(* Frames and tokens.                                                      *)

Frame(at)           == [at |-> at, inline |-> FALSE, indented |-> FALSE]
Block(at, inline)   == [Frame(at) EXCEPT !.inline = inline]
Frames(ats)         == [i \in 1 .. Len(ats) |-> Frame(ats[i])]
At(at)              == status = "parsing" /\ frames # <<>> /\ Last(frames).at = at

\* The innermost frame becomes others, the last of them the innermost.
Become(others) == frames' = Front(frames) \o others

\* What the lexer yields, as the parser holds it.
Read(next) == [type |-> next.token.type, name |-> next.token.name, newLine |-> next.newLine]

(* *c = *n and the next token from the lexer.                              *)
Advance ==
  LET next == Lex(doc, lexer) IN
    /\ c' = n
    /\ n' = Read(next)
    /\ lexer' = next.lexer

Stay == UNCHANGED <<c, n, lexer>>

ScalarTypes == {"string", "scalar"} \cup Literals

Raise(exception) ==
  /\ status' = exception
  /\ UNCHANGED <<layout, lexer, c, n, frames, depth, astVars>>

\* The token as a node keeps it.
Kept(token) == [type |-> token.type, name |-> token.name]

Leaf(token) == LinkNode("LEAF", Kept(token), LongName) /\ scopes' = Linked

\* A node for an object or an array, and its scope.
Begin(type, open) == LinkNode(type, Mark(open), LongName) /\ scopes' = Append(Linked, NewScope)

End == scopes' = Front(scopes) /\ UNCHANGED <<nodes, keys, keyTree, capacity>>

---------------------------------------------------------------------------
(* parse_yaml_value.                                                       *)

InArray == scopes # <<>> /\ nodes[Last(scopes).parent].type = "ARRAY"

IsOmitted_AnyBullet ==
  \/ c.type \in {"DEDENT", "eof"}
  \/ depth > 0 /\ c.newLine /\ c.type \notin {"INDENT", "{", "[", "-"}

\* A value is left out when the next thing is on another line.
IsOmitted ==
  \/ c.type \in {"DEDENT", "eof"}
  \/ /\ depth > 0
     /\ c.newLine
     /\ c.type \notin {"INDENT", "{", "["}
     /\ c.type = "-" => InArray

TooDeep ==
  /\ At("value")
  /\ depth + 1 > MaxYamlDepth
  /\ Raise("MAXIMUM_NESTED_DEPTH_REACHED")

Value == At("value") /\ depth + 1 <= MaxYamlDepth

Omitted ==
  /\ Value
  /\ IsOmitted
  /\ Leaf(Mark("null"))
  /\ Become(<<>>)
  /\ Stay
  /\ UNCHANGED <<layout, depth, status>>

Flow(type, open) ==
  /\ Value
  /\ ~IsOmitted
  /\ c.type = open
  /\ Begin(type, open)
  /\ depth' = depth + 1
  /\ Become(Frames(<<"end", open>>))
  /\ Advance
  /\ UNCHANGED <<layout, status>>

FlowMapping  == Flow("OBJECT", "{")
FlowSequence == Flow("ARRAY", "[")

Indented ==
  /\ Value
  /\ ~IsOmitted
  /\ c.type = "INDENT"
  /\ depth' = depth + 1
  /\ Become(Frames(<<"dedent", "block">>))
  /\ Advance
  /\ UNCHANGED <<layout, status, astVars>>

Start(block, inline) ==
  /\ IF block = "sequence" THEN Begin("ARRAY", "[") ELSE Begin("OBJECT", "{")
  /\ Become((IF inline THEN Frames(<<"end">>) ELSE <<>>) \o <<Block(block, inline)>>)

InlineBlock ==
  /\ Value
  /\ ~IsOmitted
  /\ \/ c.type = "-" /\ Start("sequence", TRUE)
     \/ c.type \in ScalarTypes /\ n.type = ":" /\ Start("mapping", TRUE)
  /\ depth' = depth + 1
  /\ Stay
  /\ UNCHANGED <<layout, status>>

ScalarLeaf ==
  /\ Value
  /\ ~IsOmitted
  /\ c.type \in ScalarTypes
  /\ n.type # ":"
  /\ Leaf(c)
  /\ Become(<<>>)
  /\ Advance
  /\ UNCHANGED <<layout, depth, status>>

NoValue ==
  /\ Value
  /\ ~IsOmitted
  /\ c.type \notin ScalarTypes \cup {"{", "[", "INDENT", "-"}
  /\ Raise("MALFORMED_JSON")

(* Behind an INDENT, what begins there decides what the block is.          *)
IndentedBlock ==
  /\ At("block")
  /\ Start(IF c.type = "-" THEN "sequence" ELSE "mapping", FALSE)
  /\ Stay
  /\ UNCHANGED <<layout, depth, status>>

(* Behind it there must be a DEDENT.                                       *)
Dedent ==
  /\ At("dedent")
  /\ \/ c.type \notin {"DEDENT", "eof"} /\ Raise("MALFORMED_JSON")
     \/ /\ c.type \in {"DEDENT", "eof"}
        /\ IF c.type = "DEDENT" THEN Advance ELSE Stay
        /\ depth' = depth - 1
        /\ Become(<<>>)
        /\ UNCHANGED <<layout, status, astVars>>

ValueEnd ==
  /\ At("end")
  /\ depth' = depth - 1
  /\ Become(<<>>)
  /\ Stay
  /\ UNCHANGED <<layout, status, astVars>>

---------------------------------------------------------------------------
(* parse_yaml_block_mapping and parse_yaml_block_sequence.                 *)

InBlock == At("mapping") \/ At("sequence")

IndentIsOwn == c.type = "INDENT" /\ Last(frames).inline /\ ~Last(frames).indented
DedentIsOwn == c.type = "DEDENT" /\ Last(frames).inline /\ Last(frames).indented

BlockIndent ==
  /\ InBlock
  /\ IndentIsOwn
  /\ Become(<<[Last(frames) EXCEPT !.indented = TRUE]>>)
  /\ Advance
  /\ UNCHANGED <<layout, depth, status, astVars>>

BlockEnds_AnyDedent ==
  /\ InBlock
  /\ ~IndentIsOwn
  /\ \/ c.type \in {"eof", "INDENT", "DEDENT"}
     \/ At("mapping") /\ c.type = "-"
     \/ At("sequence") /\ c.type # "-"
  /\ IF c.type = "DEDENT" THEN Advance ELSE Stay
  /\ Become(<<>>)
  /\ End
  /\ UNCHANGED <<layout, depth, status>>

BlockEnds_Continue ==
  /\ InBlock
  /\ ~IndentIsOwn
  /\ \/ c.type \in {"eof", "INDENT", "DEDENT"}
     \/ At("mapping") /\ c.type = "-"
     \/ At("sequence") /\ c.type # "-"
  /\ \/ c.type = "INDENT" /\ UNCHANGED yamlVars
     \/ /\ c.type # "INDENT"
        /\ IF DedentIsOwn THEN Advance ELSE Stay
        /\ Become(<<>>)
        /\ End
        /\ UNCHANGED <<layout, depth, status>>

BlockEnds ==
  /\ InBlock
  /\ ~IndentIsOwn
  /\ \/ c.type \in {"eof", "INDENT", "DEDENT"}
     \/ At("mapping") /\ c.type = "-"
     \/ At("sequence") /\ c.type # "-"
  /\ IF DedentIsOwn THEN Advance ELSE Stay
  /\ Become(<<>>)
  /\ End
  /\ UNCHANGED <<layout, depth, status>>

BlockKey ==
  /\ At("mapping")
  /\ c.type \notin {"eof", "INDENT", "DEDENT", "-"}
  /\ \/ c.type \notin ScalarTypes /\ Raise("MALFORMED_JSON")
     \/ /\ c.type \in ScalarTypes
        /\ Leaf(c)
        /\ Become(<<Last(frames), Frame("colon")>>)
        /\ Advance
        /\ UNCHANGED <<layout, depth, status>>

BlockItem ==
  /\ At("sequence")
  /\ c.type = "-"
  /\ Become(<<Last(frames), Frame("value")>>)
  /\ Advance
  /\ UNCHANGED <<layout, depth, status, astVars>>

Colon ==
  /\ At("colon")
  /\ \/ c.type # ":" /\ Raise("MALFORMED_JSON")
     \/ /\ c.type = ":"
        /\ Become(Frames(<<"value">>))
        /\ Advance
        /\ UNCHANGED <<layout, depth, status, astVars>>

---------------------------------------------------------------------------
(* The loops of flow style.                                                *)

FlowKey ==
  /\ At("{")
  /\ c.type # "}"
  /\ \/ c.type # "string" /\ Raise("MALFORMED_JSON")
     \/ /\ c.type = "string"
        /\ Leaf(c)
        /\ Become(Frames(<<"{", "}", "colon">>))
        /\ Advance
        /\ UNCHANGED <<layout, depth, status>>

FlowItem ==
  /\ At("[")
  /\ c.type # "]"
  /\ \/ c.type = "eof" /\ Raise("MALFORMED_JSON")
     \/ /\ c.type # "eof"
        /\ Become(Frames(<<"[", "]", "value">>))
        /\ Stay
        /\ UNCHANGED <<layout, depth, status, astVars>>

(* Behind a member there is a comma or, not yet consumed, the end.         *)
FlowComma(close) ==
  /\ At(close)
  /\ \/ c.type \notin {",", close} /\ Raise("MALFORMED_JSON")
     \/ /\ c.type \in {",", close}
        /\ IF c.type = "," THEN Advance ELSE Stay
        /\ Become(<<>>)
        /\ UNCHANGED <<layout, depth, status, astVars>>

FlowEnds(open, close) ==
  /\ At(open)
  /\ c.type = close
  /\ Become(<<>>)
  /\ End
  /\ Advance
  /\ UNCHANGED <<layout, depth, status>>

FlowStep ==
  \/ FlowKey
  \/ FlowItem
  \/ FlowComma("}")
  \/ FlowComma("]")
  \/ FlowEnds("{", "}")
  \/ FlowEnds("[", "]")

---------------------------------------------------------------------------
(* The whole parse.                                                        *)

Finish ==
  /\ status = "parsing"
  /\ frames = <<>>
  /\ status' = IF c.type = "eof" THEN "accepted" ELSE "MALFORMED_JSON"
  /\ UNCHANGED <<layout, lexer, c, n, frames, depth, astVars>>

(* yaml_prescan counts colons and bullets, even those in strings; here     *)
(* those that are items.                                                   *)
YamlEstimate(lines) ==
  LET number(type) == FoldLeft(LAMBDA k, line : k + Len(SelectSeq(line.items, LAMBDA i : i.type = type)),
                               0, lines)
      values == 2 * number(":") + number("-")
  IN  IF values = 0 THEN 16 ELSE values

YamlInit ==
  /\ layout \in Layout
  /\ LET first  == Lex(doc, LexerStart)
         second == Lex(doc, first.lexer)
     IN  /\ c = Read(first)
         /\ n = Read(second)
         /\ lexer = second.lexer
  /\ frames = Frames(<<"value">>)
  /\ depth = 0
  /\ status = "parsing"
  /\ AstInit(YamlEstimate(doc))

YamlNext ==
  \/ TooDeep
  \/ Omitted
  \/ FlowMapping
  \/ FlowSequence
  \/ Indented
  \/ InlineBlock
  \/ ScalarLeaf
  \/ NoValue
  \/ IndentedBlock
  \/ Dedent
  \/ ValueEnd
  \/ BlockIndent
  \/ BlockEnds
  \/ BlockKey
  \/ BlockItem
  \/ Colon
  \/ FlowStep
  \/ Finish

(* One thread parses and nothing blocks it.                                *)
YamlSpec == YamlInit /\ [][YamlNext]_yamlVars /\ WF_yamlVars(YamlNext)

---------------------------------------------------------------------------
(* Properties.                                                             *)

Accepted == status = "accepted"

(* Every variable has its type; the open indentations grow from 0.         *)
YamlTypeOK ==
  /\ LexerOK(doc, lexer)
  /\ depth \in 0 .. MaxYamlDepth
  /\ \A i \in DOMAIN frames :
       frames[i].at \in {"value", "end", "dedent", "block", "mapping", "sequence", "colon", "{", "}", "[", "]"}
  /\ AstTypeOK([type : Punctuation \cup ScalarTypes, name : Nat])
  /\ status \in {"parsing", "accepted", "MALFORMED_JSON", "MAXIMUM_NESTED_DEPTH_REACHED"}

(* The AST of a YAML document answers a validation, a conversion and a     *)
(* path search alike, but that the conversion has no long keys: this       *)
(* parser puts none into a tree.                                           *)
YamlViewsAgree == Accepted /\ LongNamesOnce /\ KeysFit => LookupsAgree(LongName) /\ PathsResolve

(* Every parse comes to an end.                                            *)
YamlParseEnds == <>(status # "parsing")
=============================================================================
