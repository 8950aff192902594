------------------------------ MODULE JsonLexer -----------------------------
(***************************************************************************)
(* From bytes to tokens: the lexer of src/src/parser/lexer.c, one action   *)
(* for each token, what src/src/parser/unescape.c makes of a string, what  *)
(* src/src/parser/prescan.c counts in the same bytes, and how              *)
(* src/src/shape/serialize.c writes a string that was read.                *)
(*                                                                         *)
(* A scan is given the place of its first byte and returns the place       *)
(* behind its last, or 0 when it finds an error.                           *)
(***************************************************************************)
EXTENDS Integers, Sequences, SequencesExt, FiniteSets

CONSTANT Document   \* texts: bytes, whether they are malformed, and else their tokens

Byte      == 0 .. 255
TokenType == {"punctuation", "string", "number", "true", "false", "null"}
Token     == [type : TokenType, bytes : Seq(Byte)]

ASSUME DocumentAssumption ==
  Document \subseteq [bytes : Seq(Byte), malformed : BOOLEAN, tokens : Seq(Token)]

VARIABLES
  doc,
  pos,       \* the next byte
  tokens,
  status     \* "lexing", "end" or "error"

lexerVars == <<doc, pos, tokens, status>>

source == doc.bytes

Is(i, bytes) == i \in 1 .. Len(source) /\ source[i] \in bytes

\* Past all such bytes from i on.
Past(i, bytes) ==
  LET end[k \in 0 .. Len(source) + 1] == IF Is(k, bytes) THEN end[k + 1] ELSE k
  IN  end[i]

Blank    == {32, 9, 13, 10}
Digit    == 48 .. 57
HexDigit == Digit \cup (65 .. 70) \cup (97 .. 102)

\* Where a text begins, behind a byte order mark.
Bom(bytes)   == Len(bytes) >= 3 /\ SubSeq(bytes, 1, 3) = <<239, 187, 191>>
First(bytes) == IF Bom(bytes) THEN 4 ELSE 1

---------------------------------------------------------------------------
(* Strings: parse_string.                                                  *)

HexValue(byte) == IF byte <= 57 THEN byte - 48 ELSE IF byte <= 70 THEN byte - 55 ELSE byte - 87

\* Four hexadecimal digits, -1 when they are not there.
FourHex(bytes, i) ==
  IF i + 3 <= Len(bytes) /\ \A k \in 0 .. 3 : bytes[i + k] \in HexDigit
  THEN LET digit(k) == HexValue(bytes[i + k])
       IN  (4096 * digit(0)) + (256 * digit(1)) + (16 * digit(2)) + digit(3)
  ELSE -1

HighUnit == 55296 .. 56319
LowUnit  == 56320 .. 57343

\* Is there another \u escape at i, with the second half of a pair?
LowFollows(bytes, i) ==
  /\ i + 5 <= Len(bytes)
  /\ bytes[i] = 92 /\ bytes[i + 1] = 117
  /\ FourHex(bytes, i + 2) \in LowUnit

EscapeEnd_LoneLow(i) ==
  LET unit == FourHex(source, i + 2) IN
  CASE Is(i + 1, {34, 92, 47, 98, 102, 110, 116, 114}) -> i + 2
    [] Is(i + 1, {117}) /\ unit \in HighUnit -> IF LowFollows(source, i + 6) THEN i + 12 ELSE 0
    [] Is(i + 1, {117}) /\ unit \notin {-1} \cup HighUnit -> i + 6
    [] OTHER -> 0

EscapeEnd(i) ==
  LET unit == FourHex(source, i + 2) IN
  CASE Is(i + 1, {34, 92, 47, 98, 102, 110, 116, 114}) -> i + 2
    [] Is(i + 1, {117}) /\ unit \in HighUnit -> IF LowFollows(source, i + 6) THEN i + 12 ELSE 0
    [] Is(i + 1, {117}) /\ unit \notin {-1} \cup HighUnit \cup LowUnit -> i + 6
    [] OTHER -> 0

\* The second byte of a character, by its first: no more than UTF-8 allows.
Second(first) ==
  CASE first = 224 -> 160 .. 191
    [] first = 237 -> 128 .. 159
    [] first = 240 -> 144 .. 191
    [] first = 244 -> 128 .. 143
    [] OTHER -> 128 .. 191

CharacterEnd(i) ==
  LET first == source[i]
      width == CASE first \in 32 .. 127 -> 1
                 [] first \in 194 .. 223 -> 2
                 [] first \in 224 .. 239 -> 3
                 [] first \in 240 .. 244 -> 4
                 [] OTHER -> 0
  IN  IF /\ width # 0
         /\ i + width - 1 <= Len(source)
         /\ width > 1 => source[i + 1] \in Second(first)
         /\ \A k \in 2 .. width - 1 : source[i + k] \in 128 .. 191
      THEN i + width
      ELSE 0

StringEnd(first) ==
  LET end[i \in 0 .. Len(source) + 1] ==
        CASE i = 0 \/ i > Len(source) -> 0
          [] Is(i, {34}) -> i + 1
          [] Is(i, {92}) -> end[EscapeEnd(i)]
          [] OTHER -> end[CharacterEnd(i)]
  IN  end[first + 1]

---------------------------------------------------------------------------
(* Numbers and literals: parse_number and parse_literal.                   *)

\* Past the digits from i on, of which there must be one.
DigitsEnd(i) == IF Is(i, Digit) THEN Past(i, Digit) ELSE 0

NumberEnd(first) ==
  LET start == IF Is(first, {45}) THEN first + 1 ELSE first
      whole == IF ~Is(start, {48}) THEN DigitsEnd(start)
               ELSE IF Is(start + 1, Digit) THEN 0 ELSE start + 1
      part  == IF whole # 0 /\ Is(whole, {46}) THEN DigitsEnd(whole + 1) ELSE whole
      power == IF part # 0 /\ Is(part + 1, {43, 45}) THEN part + 2 ELSE part + 1
  IN  IF part # 0 /\ Is(part, {101, 69}) THEN DigitsEnd(power) ELSE part

Literal == {[type |-> "true", bytes |-> <<116, 114, 117, 101>>],
            [type |-> "false", bytes |-> <<102, 97, 108, 115, 101>>],
            [type |-> "null", bytes |-> <<110, 117, 108, 108>>]}

Punctuation == {123, 125, 91, 93, 58, 44}
Mark(byte)  == [type |-> "punctuation", bytes |-> <<byte>>]

---------------------------------------------------------------------------
(* Unescaping: jsonv_unescape_string, and encode_utf8 in it.               *)

\* A continuation byte, with the last six bits.
Sixth(bits) == 128 + (bits % 64)

EncodeUtf8(point) ==
  IF point <= 127 THEN <<point>>
  ELSE IF point <= 2047 THEN <<192 + point \div 64, Sixth(point)>>
  ELSE IF point <= 65535 THEN <<224 + point \div 4096, Sixth(point \div 64), Sixth(point)>>
  ELSE <<240 + point \div 262144, Sixth(point \div 4096), Sixth(point \div 64), Sixth(point)>>

\* What the two halves of a pair stand for.
PairPoint(high, low) == 65536 + ((high - 55296) * 1024) + (low - 56320)

Read(bytes, next) == [bytes |-> bytes, next |-> next]

\* What the character or the escape at i stands for, and where the next one is.
UnescapedAt(raw, i) ==
  LET escape == raw[i + 1]
      unit   == FourHex(raw, i + 2)
      short  == [e \in {98, 102, 110, 114, 116} |->
                   CASE e = 98 -> 8 [] e = 102 -> 12 [] e = 110 -> 10 [] e = 114 -> 13 [] e = 116 -> 9]
  IN  IF raw[i] # 92 THEN Read(<<raw[i]>>, i + 1)
      ELSE IF i = Len(raw) THEN Read(<<>>, i + 1)
      ELSE IF escape # 117 \/ unit = -1 THEN Read(<<IF escape \in DOMAIN short THEN short[escape] ELSE escape>>, i + 2)
      ELSE IF unit \in HighUnit /\ LowFollows(raw, i + 6)
           THEN Read(EncodeUtf8(PairPoint(unit, FourHex(raw, i + 8))), i + 12)
      ELSE Read(EncodeUtf8(unit), i + 6)

Unescaped(raw) ==
  LET from[i \in 1 .. Len(raw) + 1] ==
        IF i > Len(raw) THEN <<>>
        ELSE LET piece == UnescapedAt(raw, i) IN piece.bytes \o from[piece.next]
  IN  from[1]

---------------------------------------------------------------------------
(* The lexer.                                                              *)

\* skip_whitespace.
Start(i) == Past(i, Blank)

Found(type, first, end) ==
  /\ tokens' = Append(tokens, [type |-> type, bytes |-> SubSeq(source, first, end - 1)])
  /\ pos' = end
  /\ UNCHANGED <<doc, status>>

LexerError == status' = "error" /\ UNCHANGED <<doc, pos, tokens>>

Scanned(type, first, end) ==
  \/ end # 0 /\ Found(type, first, end)
  \/ end = 0 /\ LexerError

LexEnd ==
  /\ status = "lexing"
  /\ Start(pos) > Len(source)
  /\ status' = "end"
  /\ pos' = Start(pos)
  /\ UNCHANGED <<doc, tokens>>

Lexing(first) == status = "lexing" /\ first <= Len(source)

LexPunctuation ==
  LET first == Start(pos) IN
    Lexing(first) /\ source[first] \in Punctuation /\ Found("punctuation", first, first + 1)

\* The token of a string is what is between its quotes.
LexString ==
  LET first == Start(pos)
      end   == StringEnd(first) IN
    /\ Lexing(first)
    /\ source[first] = 34
    /\ \/ end = 0 /\ LexerError
       \/ /\ end # 0
          /\ tokens' = Append(tokens, [type |-> "string", bytes |-> SubSeq(source, first + 1, end - 2)])
          /\ pos' = end
          /\ UNCHANGED <<doc, status>>

LexNumber ==
  LET first == Start(pos) IN
    /\ Lexing(first)
    /\ source[first] \in Digit \cup {45, 43, 46}
    /\ Scanned("number", first, IF source[first] \in {43, 46} THEN 0 ELSE NumberEnd(first))

LexLiteral ==
  LET first == Start(pos) IN
    /\ Lexing(first)
    /\ source[first] \in {116, 102, 110}
    /\ \/ \E l \in Literal : IsPrefix(l.bytes, SubSeq(source, first, Len(source))) /\ Found(l.type, first, first + Len(l.bytes))
       \/ /\ ~\E l \in Literal : IsPrefix(l.bytes, SubSeq(source, first, Len(source)))
          /\ LexerError

LexOther ==
  LET first == Start(pos) IN
    /\ Lexing(first)
    /\ source[first] \notin Punctuation \cup Digit \cup {34, 45, 43, 46, 116, 102, 110}
    /\ LexerError

---------------------------------------------------------------------------
(* Writing: write_escaped_str.                                             *)

\* A C string ends at its first null character.
UntilNul(bytes) ==
  LET nuls == {i \in DOMAIN bytes : bytes[i] = 0}
  IN  IF nuls = {} THEN bytes ELSE SubSeq(bytes, 1, Min(nuls) - 1)

HexDigitOf(value) == IF value < 10 THEN 48 + value ELSE 87 + value

EscapedByte(byte) ==
  LET short == [b \in {34, 92, 10, 13, 9, 8, 12} |->
                  CASE b = 10 -> 110 [] b = 13 -> 114 [] b = 9 -> 116 [] b = 8 -> 98 [] b = 12 -> 102 [] OTHER -> b]
  IN  IF byte \in DOMAIN short THEN <<92, short[byte]>>
      ELSE IF byte < 32 THEN <<92, 117, 48, 48, HexDigitOf(byte \div 16), HexDigitOf(byte % 16)>>
      ELSE <<byte>>

Escaped(bytes) == <<34>> \o FlattenSeq([i \in DOMAIN bytes |-> EscapedByte(bytes[i])]) \o <<34>>

(* A host writes the string it has read, and reads what it has written.    *)
WriteBack ==
  /\ status = "end"
  /\ Len(tokens) = 1 /\ tokens[1].type = "string"
  /\ doc' = [doc EXCEPT !.bytes = Escaped(UntilNul(Unescaped(tokens[1].bytes))),
                        !.tokens[1].bytes = UntilNul(@)]
  /\ pos' = 1
  /\ tokens' = <<>>
  /\ status' = "lexing"

LexerInit ==
  /\ doc \in Document
  /\ pos = First(source)
  /\ tokens = <<>>
  /\ status = "lexing"

LexerNext == LexEnd \/ LexPunctuation \/ LexString \/ LexNumber \/ LexLiteral \/ LexOther \/ WriteBack

LexerSpec == LexerInit /\ [][LexerNext]_lexerVars

---------------------------------------------------------------------------
(* The prescan: what it counts, byte by byte, knowing only of strings.     *)

Counted_NoEscapes(e, byte) ==
  CASE e.in /\ byte = 34 -> [e EXCEPT !.in = FALSE, !.values = @ + 1]
    [] e.in /\ byte # 34 -> e
    [] ~e.in /\ byte = 34 -> [e EXCEPT !.in = TRUE]
    [] ~e.in /\ byte = 123 -> [e EXCEPT !.objects = @ + 1]
    [] ~e.in /\ byte = 91 -> [e EXCEPT !.arrays = @ + 1]
    [] ~e.in /\ byte \in Digit \cup {45, 116, 102, 110} -> [e EXCEPT !.values = @ + 1]
    [] OTHER -> e

Counted(e, byte) ==
  CASE e.in /\ e.escape -> [e EXCEPT !.escape = FALSE]
    [] e.in /\ ~e.escape /\ byte = 92 -> [e EXCEPT !.escape = TRUE]
    [] e.in /\ ~e.escape /\ byte = 34 -> [e EXCEPT !.in = FALSE, !.values = @ + 1]
    [] ~e.in /\ byte = 34 -> [e EXCEPT !.in = TRUE]
    [] ~e.in /\ byte = 123 -> [e EXCEPT !.objects = @ + 1]
    [] ~e.in /\ byte = 91 -> [e EXCEPT !.arrays = @ + 1]
    [] ~e.in /\ byte \in Digit \cup {45, 116, 102, 110} -> [e EXCEPT !.values = @ + 1]
    [] OTHER -> e

Nothing == [in |-> FALSE, escape |-> FALSE, values |-> 0, objects |-> 0, arrays |-> 0]

\* What is counted up to each byte.
Prescan(bytes) ==
  LET counts[i \in 0 .. Len(bytes)] ==
        IF i < First(bytes) THEN Nothing ELSE Counted(counts[i - 1], bytes[i])
  IN  counts

Prescanned == Prescan(source)[Len(source)]

---------------------------------------------------------------------------
(* Properties.                                                             *)

(* The tokens read are those the text is made of, each string stands for   *)
(* the characters it was written for, in no more bytes than its escapes    *)
(* took, and a text with anything that is no token is refused.  A string   *)
(* that is written and read again is the same up to its first null         *)
(* character, where it ends as a C string.                                 *)
TokensRead ==
  /\ status = "error" => doc.malformed
  /\ status = "end" =>
       /\ ~doc.malformed
       /\ [i \in DOMAIN tokens |->
             IF tokens[i].type = "string" THEN [tokens[i] EXCEPT !.bytes = Unescaped(@)] ELSE tokens[i]]
            = doc.tokens
       /\ \A i \in DOMAIN tokens : Len(Unescaped(tokens[i].bytes)) <= Len(tokens[i].bytes)

(* The prescan finds the same strings closed and the same brackets open,   *)
(* and counts at least as many values: what it sizes the tables for is     *)
(* enough for what the lexer reads.                                        *)
PrescanCovers ==
  status = "end" =>
    /\ ~Prescanned.in
    /\ Prescanned.objects = Cardinality({i \in DOMAIN tokens : tokens[i] = Mark(123)})
    /\ Prescanned.arrays = Cardinality({i \in DOMAIN tokens : tokens[i] = Mark(91)})
    /\ Prescanned.values >= Cardinality({i \in DOMAIN tokens : tokens[i].type # "punctuation"})
=============================================================================
