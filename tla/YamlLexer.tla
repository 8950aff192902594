----------------------------- MODULE YamlLexer ------------------------------
(***************************************************************************)
(* The lexer of src/src/parser/yaml_lexer.c, which makes INDENT and DEDENT *)
(* tokens of the indentation of the lines.                                 *)
(*                                                                         *)
(* A document is a sequence of lines, each with the number of spaces it    *)
(* starts with and its items: what stands between blanks.  A quoted string *)
(* is one item, and so is a word, which is a plain scalar, a number or a   *)
(* literal when it stands alone.  A line may start with a tab behind its   *)
(* spaces, and may end with a comment or the | of a block scalar.          *)
(***************************************************************************)
EXTENDS JsonGrammar, SequencesExt

CONSTANT MaxYamlDepth   \* MAX_YAML_DEPTH

ASSUME YamlDepthAssumption == MaxYamlDepth \in Nat \ {0}

Word(n)   == [type |-> "word", name |-> n]
Quoted(n) == [type |-> "quoted", name |-> n]
Number(n) == [type |-> "scalar", name |-> n]

Literals == {"true", "false", "null"}
Signs    == <<"{", "}", "[", "]", ":", ",", "-", "|", "#", "tab", "true", "false", "null">>

\* Text of several items is named by a number larger than their names.
Rank(item) == IF item.name > 0 THEN item.name
              ELSE 10 + CHOOSE i \in 1 .. Len(Signs) : Signs[i] = item.type
TextName(items) == FoldLeft(LAMBDA name, item : (30 * name + Rank(item)) % 1000003, 0, items)

(* Where the lexer is, at which item of which line, and what it remembers: *)
(* the indentations that are open, the DEDENTs it owes, how deep in flow   *)
(* style it is, and whether a line starts here or started before.          *)
LexerStart == [line |-> 1, item |-> 1, atStart |-> TRUE, newLine |-> TRUE,
               indents |-> <<0>>, pending |-> 0, flow |-> 0]

Minimum(set) == CHOOSE m \in set : \A k \in set : m <= k

Blank(line) == line.items = <<>> \/ line.items[1].type = "#"

\* The first line from number n on that is not blank, or the end of doc.
Content(doc, n) == Minimum({k \in n .. Len(doc) : ~Blank(doc[k])} \cup {Len(doc) + 1})

---------------------------------------------------------------------------
(* Scalars.                                                                *)

\* The item behind a word that begins at item i.
WordEnd(items, i, inFlow) ==
  Minimum({k \in i + 1 .. Len(items) :
             items[k].type \in {":", "#"} \cup (IF inFlow THEN {",", "}", "]"} ELSE {})}
          \cup {Len(items) + 1})

\* The scalar of items that follow one another, as a token.
Scalar_(items) ==
  IF Len(items) > 1 THEN String(TextName(items))
  ELSE IF items[1].type = "word" THEN String(items[1].name)
  ELSE items[1]

(* The lines of a block scalar whose header is on the line before n: from  *)
(* one that is indented more than its parent to the next with less.        *)
BlockFirst(doc, n) == Content(doc, n)

BlockEnd(doc, n) ==
  LET first == BlockFirst(doc, n)
  IN  Minimum({k \in first + 1 .. Len(doc) : ~Blank(doc[k]) /\ doc[k].indent < doc[first].indent}
              \cup {Len(doc) + 1})

BlockIsEmpty(doc, n, parent) ==
  LET first == BlockFirst(doc, n) IN first > Len(doc) \/ doc[first].indent <= parent

\* The name of the text of some lines; 29 stands for a newline.
TextOf(lines) ==
  FoldLeft(LAMBDA name, line : (30 * FoldLeft(LAMBDA m, item : (30 * m + Rank(item)) % 1000003,
                                              name, line.items) + 29) % 1000003, 0, lines)

---------------------------------------------------------------------------
(* One token and the lexer behind it.                                      *)

Yield(token, newLine, l) == [token |-> token, newLine |-> newLine, lexer |-> l]

Dedented_Below(l, top) ==
  Yield(Mark("DEDENT"), l.newLine,
        [l EXCEPT !.pending = Len(l.indents) - top - 1, !.indents = SubSeq(@, 1, top - 1)])

\* A DEDENT at once and one for every other indentation that is closed.
Dedented(l, top) ==
  Yield(Mark("DEDENT"), l.newLine,
        [l EXCEPT !.pending = Len(l.indents) - top - 1, !.indents = SubSeq(@, 1, top)])

EndOfInput(l) ==
  IF Len(l.indents) > 1 THEN Dedented(l, 1) ELSE Yield(Mark("eof"), l.newLine, [l EXCEPT !.newLine = FALSE])

\* A token other than INDENT and DEDENT, of the items up to the next.
Plain(l, token, next) == Yield(token, l.newLine, [l EXCEPT !.item = next, !.newLine = FALSE])

\* It is on a new line only if the lexer was when it was called.
BlockScalar(doc, l, newLine) ==
  LET header == l.line + 1
      empty  == BlockIsEmpty(doc, header, Last(l.indents))
      end    == IF empty THEN BlockFirst(doc, header) ELSE BlockEnd(doc, header)
      text   == IF empty THEN 0 ELSE TextOf(SubSeq(doc, BlockFirst(doc, header), end - 1))
  IN  Yield(String(text), newLine, [l EXCEPT !.line = end, !.item = 1, !.atStart = TRUE, !.newLine = FALSE])

(* The token that begins at the lexer's item.                              *)
ItemToken(doc, l, newLine) ==
  LET items == doc[l.line].items
      item  == items[l.item]
      end   == WordEnd(items, l.item, l.flow > 0)
  IN  CASE item.type \in {"{", "["} -> Plain([l EXCEPT !.flow = @ + 1], item, l.item + 1)
        [] item.type \in {"}", "]"} -> Plain([l EXCEPT !.flow = IF @ > 0 THEN @ - 1 ELSE 0], item, l.item + 1)
        [] item.type \in {":", ",", "-"} -> Plain(l, item, l.item + 1)
        [] item.type = "quoted" -> Plain(l, String(item.name), l.item + 1)
        [] item.type = "|" -> BlockScalar(doc, l, newLine)
        [] OTHER -> Plain(l, Scalar_(SubSeq(items, l.item, end - 1)), end)

Error(l) == Plain(l, Mark("error"), l.item)

\* Behind a tab, which is a blank except where a line starts.
PastTab(doc, l) ==
  IF doc[l.line].items[l.item].type = "tab" THEN [l EXCEPT !.item = @ + 1] ELSE l

(* The start of a line with content, outside flow style.                   *)
LineToken(doc, l, newLine) ==
  LET indent == doc[l.line].indent
      top    == Last(l.indents)
      level  == {i \in 1 .. Len(l.indents) : l.indents[i] = indent}
  IN  IF \/ doc[l.line].items[1].type = "tab"
         \/ indent > top /\ Len(l.indents) >= MaxYamlDepth
         \/ indent < top /\ level = {}
      THEN Error(l)
      ELSE IF indent > top
      THEN Yield(Mark("INDENT"), l.newLine, [l EXCEPT !.indents = Append(@, indent)])
      ELSE IF indent < top THEN Dedented(l, Minimum(level)) ELSE ItemToken(doc, l, newLine)

(* The lexer where the next token is: on the line with more to read, or at *)
(* the start of one with content.                                          *)
Skipping(doc, l) ==
  LET items == doc[l.line].items
      start == IF l.atStart THEN l.line ELSE l.line + 1
  IN  IF l.line > Len(doc) THEN [l EXCEPT !.atStart = FALSE, !.newLine = l.newLine \/ l.atStart]
      ELSE IF ~l.atStart /\ l.item <= Len(items) /\ items[l.item].type # "#" THEN l
      ELSE [l EXCEPT !.line = Content(doc, start), !.item = 1, !.atStart = TRUE, !.newLine = TRUE]

(* yaml_lexer_next_token.                                                  *)
Lex(doc, l) ==
  IF l.pending > 0 THEN Yield(Mark("DEDENT"), l.newLine, [l EXCEPT !.pending = @ - 1])
  ELSE LET skipped == Skipping(doc, l)
           here    == [skipped EXCEPT !.atStart = FALSE]
           newLine == l.newLine \/ l.atStart
       IN  IF here.line > Len(doc) THEN EndOfInput(here)
           ELSE IF skipped.atStart /\ here.flow = 0 THEN LineToken(doc, here, newLine)
           ELSE ItemToken(doc, PastTab(doc, here), newLine)

---------------------------------------------------------------------------
(* The states the lexer can be in, and the INDENT tokens that no DEDENT    *)
(* has closed.                                                             *)

LexerOK(doc, l) ==
  /\ l.line \in 1 .. Len(doc) + 1
  /\ l.item \in Nat \ {0}
  /\ l.atStart \in BOOLEAN /\ l.newLine \in BOOLEAN
  /\ l.indents \in Seq(Nat) /\ Len(l.indents) \in 1 .. MaxYamlDepth
  /\ l.indents[1] = 0
  /\ \A i \in 1 .. Len(l.indents) - 1 : l.indents[i] < l.indents[i + 1]
  /\ l.pending \in Nat
  /\ l.flow \in Nat

Opened(l) == Len(l.indents) - 1 + l.pending
=============================================================================
