------------------------------- MODULE JsonText ------------------------------
(***************************************************************************)
(* The words of JSON (RFC 8259) and the bytes of their characters (UTF-8,  *)
(* RFC 3629), put together from their parts with no scanner in mind: what  *)
(* the lexer and the unescaper of src/src/parser are checked against.      *)
(***************************************************************************)
EXTENDS Integers, Sequences, SequencesExt, FiniteSets

Quote     == 34
Backslash == 92

Surrogates == 55296 .. 57343            \* D800 .. DFFF
High(unit) == unit \in 55296 .. 56319   \* D800 .. DBFF
Low(unit)  == unit \in 56320 .. 57343   \* DC00 .. DFFF

Character(point) == point \in 0 .. 1114111 /\ point \notin Surrogates

\* How many bytes a code point takes.
Width(point) == IF point < 128 THEN 1 ELSE IF point < 2048 THEN 2 ELSE IF point < 65536 THEN 3 ELSE 4

\* What the first byte of so many adds to the bits of the point in it.
Lead == <<0, 192, 224, 240>>

Utf8(point) ==
  LET width == Width(point)
  IN  [i \in 1 .. width |->
         LET bits == point \div 64 ^ (width - i)
         IN  IF i = 1 THEN Lead[width] + bits ELSE 128 + (bits % 64)]

Encoded(points) == FlattenSeq([i \in DOMAIN points |-> Utf8(points[i])])

\* The number the payload of some bytes make up, if they are one character.
Payload(bytes) ==
  FoldLeft(LAMBDA value, byte : (64 * value) + byte - 128, bytes[1] - Lead[Len(bytes)], Tail(bytes))

WellFormed(bytes) ==
  LET point == Payload(bytes)
  IN  Character(point) /\ Utf8(point) = bytes

\* The code points that 16-bit units stand for: two surrogates are one.
Joined(high, low) == 65536 + (1024 * (high - 55296)) + low - 56320

\* Units in hexadecimal, with small letters.
Hex(digit) == IF digit < 10 THEN 48 + digit ELSE 87 + digit

UnitEscape(unit) ==
  <<Backslash, 117>> \o [i \in 1 .. 4 |-> Hex((unit \div 16 ^ (4 - i)) % 16)]

\* The letter after the backslash, and what the two stand for.
ShortEscape ==
  {[bytes |-> <<Backslash, e[1]>>, points |-> <<e[2]>>] :
     e \in {<<34, 34>>, <<92, 92>>, <<47, 47>>, <<98, 8>>, <<102, 12>>, <<110, 10>>, <<114, 13>>, <<116, 9>>}}
---------------------------------------------------------------------------
(* Strings, from pieces: bytes and the code points or 16-bit units they    *)
(* stand for.  Invalid pieces stand for -1, and stay invalid whatever      *)
(* comes next.                                                             *)

Letter(point)  == [bytes |-> Utf8(point), points |-> <<point>>]
Unit(unit)     == [bytes |-> UnitEscape(unit), points |-> <<unit>>]
Invalid(bytes) == [bytes |-> bytes, points |-> <<-1>>]

\* Pairs of surrogates become the characters they encode.
Paired(points) ==
  FoldLeft(LAMBDA done, p :
             IF done # <<>> /\ High(Last(done)) /\ Low(p)
             THEN Append(Front(done), Joined(Last(done), p))
             ELSE Append(done, p), <<>>, points)

\* A lexeme: its bytes, and the token they are, if they are one.
Word(type, bytes) == [bytes |-> bytes, malformed |-> FALSE, tokens |-> <<[type |-> type, bytes |-> bytes]>>]
NoWord(bytes)     == [bytes |-> bytes, malformed |-> TRUE, tokens |-> <<>>]

StringOf(pieces) ==
  LET points == Paired(FlattenSeq([i \in DOMAIN pieces |-> pieces[i].points]))
      bytes  == <<Quote>> \o FlattenSeq([i \in DOMAIN pieces |-> pieces[i].bytes]) \o <<Quote>>
  IN  IF \A i \in DOMAIN points : Character(points[i])
      THEN [Word("string", bytes) EXCEPT !.tokens[1].bytes = Encoded(points)]
      ELSE NoWord(bytes)

\* Some bytes as a string, of which each is one character or none is.
RawString(bytes) ==
  LET quoted == <<Quote>> \o bytes \o <<Quote>>
  IN  IF WellFormed(bytes) /\ bytes[1] >= 32 THEN [Word("string", quoted) EXCEPT !.tokens[1].bytes = bytes]
      ELSE NoWord(quoted)

---------------------------------------------------------------------------
(* Numbers of at most `size` bytes.                                        *)

Digits(size) == UNION {[1 .. n -> {48, 49}] : n \in 1 .. size}

\* What the parts of two sets make together, if it is not too long.
Sum(first, second, size) == {e \in {f \o s : f \in first, s \in second} : Len(e) <= size}

Numbers(size) ==
  LET digits == Digits(size)
      whole  == Sum({<<>>, <<45>>}, {d \in digits : Len(d) = 1 \/ d[1] # 48}, size)
      part   == {<<>>} \cup Sum({<<46>>}, digits, size)
      power  == {<<>>} \cup Sum({<<e>> \o s : e \in {69, 101}, s \in {<<>>, <<43>>, <<45>>}}, digits, size)
  IN  Sum(Sum(whole, part, size), power, size)

(* What a run of the characters of numbers is: the longest number it       *)
(* starts with and then what the rest is, which no digit may begin.        *)
NumberRun(run, numbers) ==
  LET from[i \in 1 .. Len(run) + 1] ==
        LET ends == {k \in i .. Len(run) : SubSeq(run, i, k) \in numbers}
            end  == CHOOSE k \in ends : \A e \in ends : e <= k
            rest == from[end + 1]
        IN  IF i > Len(run) THEN [malformed |-> FALSE, tokens |-> <<>>]
            ELSE IF ends = {} \/ (end < Len(run) /\ run[end + 1] \in 48 .. 57)
              THEN [malformed |-> TRUE, tokens |-> <<>>]
            ELSE [rest EXCEPT !.tokens = <<[type |-> "number", bytes |-> SubSeq(run, i, end)]>> \o @]
  IN  [bytes |-> run, malformed |-> from[1].malformed,
       tokens |-> IF from[1].malformed THEN <<>> ELSE from[1].tokens]

---------------------------------------------------------------------------
(* Texts: words one after the other, with blanks where they must be.       *)

Beside(text, blank, word) ==
  [bytes |-> text.bytes \o blank \o word.bytes,
   malformed |-> text.malformed \/ word.malformed,
   tokens |-> IF text.malformed \/ word.malformed THEN <<>> ELSE text.tokens \o word.tokens]

\* The byte order mark some texts start with.
Marked(text) == [text EXCEPT !.bytes = <<239, 187, 191>> \o @]
=============================================================================
