----------------------------- MODULE JsonTokens -----------------------------
(***************************************************************************)
(* What the lexer gives the two JSON readers: the tokens of one text, and  *)
(* at its end the end of file again and again.                             *)
(***************************************************************************)
EXTENDS JsonGrammar

CONSTANTS
  Document,   \* the sequences of tokens read; a token may be an error
  MaxSize,    \* all texts of so many tokens are among the meanings
  Wider       \* and so are these larger ones

VARIABLE doc   \* the tokens of the text

EndOfFile  == Mark("eof")
LexerError == Mark("error")

ASSUME TokensAssumption == MaxSize \in Nat /\ Document \subseteq Seq(Token \cup {LexerError})

TokenAt(i) == IF i <= Len(doc) THEN doc[i] ELSE EndOfFile

\* The texts, with the values they stand for.
Meanings == Json(MaxSize) \cup Wider
Texts    == {d.text : d \in Meanings}
=============================================================================
