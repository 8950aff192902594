------------------------------- MODULE MCYaml -------------------------------
(* All blocks of up to four keys and bullets around one word, of up to     *)
(* three when keys are long, and of five bullets around nothing; those of  *)
(* up to two around scalars of every kind, and of one around flow style;   *)
(* the smaller ones with noise; and mutations.                             *)
EXTENDS YamlReading

\* A bucket for several keys.
MCHash(k) == k[1] + k[2]

Keys  == <<2, 1, 2, 4>>
Long  == <<3, 1, 3>>
AWord == Plainly(Word(1), StringValue(1))
Seven == Plainly(Number(7), NumberValue(7))

Scalars == {AWord, Seven, Plainly(Quoted(3), StringValue(3)),
            Plainly(Mark("null"), NullValue), Plainly(Mark("true"), LiteralValue("true"))}

Texts == {Literally(<<Line(0, <<Word(3)>>)>>),
          Literally(<<Line(0, <<Word(3)>>), Line(0, <<>>), Line(1, <<Mark("-"), Word(2)>>)>>)}

InFlow == Flows({AWord, Seven}, {Word(1), Quoted(2), Quoted(3)})

WithText == Laid(Blocks(2, Texts, Keys))

OneLine == {Document(<<Line(0, f.items)>>, f.value, TRUE) : f \in InFlow \cup Scalars}

Small == Laid(Blocks(2, {AWord}, Keys)) \cup OneLine

MCLayout == Laid(Blocks(4, {AWord}, Keys)) \cup Laid(Blocks(2, Scalars, Keys)) \cup WithText \cup
            Laid(Blocks(1, InFlow, Keys)) \cup
            Laid(Blocks(3, {AWord}, Long)) \cup Laid(Blocks(5, {}, <<>>)) \cup
            UNION {Noisy(d) : d \in Laid(Blocks(3, {AWord}, Keys))} \cup
            UNION {Mutated(d) : d \in Small \cup {w \in WithText : Len(w.lines) < 4}}
=============================================================================
