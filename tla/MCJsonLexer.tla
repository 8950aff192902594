----------------------------- MODULE MCJsonLexer ----------------------------
(* Strings of up to two pieces at the boundaries of UTF-8 and of the       *)
(* surrogates, and of a first byte of each kind with up to three others;   *)
(* all runs of up to five characters of numbers; and texts of up to three  *)
(* words.                                                                  *)
EXTENDS JsonLexer, JsonText

Boundary == {32, 127, 128, 2047, 2048, 55295, 57344, 65535, 65536, 1114111}

Piece ==
  ShortEscape
    \cup {Letter(p) : p \in Boundary}
    \cup {Unit(u) : u \in {0, 9, 16, 31, 34, 92, 127, 128, 2047, 2048, 55295, 55296, 56319, 56320, 57343, 57344, 65535}}
    \cup {Invalid(b) : b \in {<<31>>, <<92, 120>>, <<92, 117, 48, 48, 48, 103>>, <<92, 117, 100, 56, 48, 120>>}}

ByteString ==
  {<<b>> : b \in 0 .. 255 \ {34, 92}}
    \cup {<<a, b>> : a \in {193, 194, 223, 224}, b \in {127, 128, 191, 192}}
    \cup {<<a, b, c>> : a \in {224, 225, 237, 239, 240},
                       b \in {127, 128, 159, 160, 191, 192}, c \in {127, 128, 191, 192}}
    \cup {<<a, b, c, d>> : a \in {240, 241, 244, 245},
                          b \in {127, 128, 143, 144, 191, 192}, c, d \in {127, 128, 191, 192}}

Runs == UNION {[1 .. n -> {43, 45, 46, 48, 49, 101}] : n \in 1 .. 5}

NumberRuns == LET numbers == Numbers(5) IN {NumberRun(r, numbers) : r \in Runs}

Loose == {Word("punctuation", <<b>>) : b \in {123, 91, 58}} \cup {StringOf(<<Letter(97)>>), NoWord(<<120>>)}

Tight == {Word(l.type, l.bytes) : l \in Literal} \cup {Word("number", <<45, 49>>), NoWord(<<116, 114, 117>>)}

Words == Loose \cup Tight

After(texts) ==
  {Beside(t, <<>>, w) : t \in texts, w \in Loose} \cup {Beside(t, <<32, 10>>, w) : t \in texts, w \in Words}

MCDocument ==
  {StringOf(<<p>>) : p \in Piece} \cup {StringOf(<<p, q>>) : p, q \in Piece}
    \cup {RawString(b) : b \in ByteString}
    \cup NumberRuns
    \cup Words \cup After(Words) \cup {Marked(t) : t \in After(After(Words))}
    \cup {NoWord(<<34, 97>>), NoWord(<<34, 92>>), NoWord(<<34, 226, 130>>)}
=============================================================================
