--------------------------- MODULE MCJsonReaders ----------------------------
(* All texts of up to nine tokens with four names, of which one is too     *)
(* long for the hash set and one for the key tree as well; what becomes of *)
(* those of up to six when one token is wrong or not a token; and wider    *)
(* objects: of three members with plain values, of two with values that    *)
(* have parts, and of four, which are more than the conversion has room    *)
(* for.                                                                    *)
EXTENDS JsonReaders

\* A bucket for several keys.
MCHash(k) == k[1] + k[2]

Plain == {[text |-> <<Scalar>>, value |-> ScalarValue], [text |-> <<String(1)>>, value |-> StringValue(1)]}

Parted == {[text |-> Enclose("[", v.text, "]"), value |-> Array(<<v.value>>)] : v \in Plain}

MCWider == Wide(4, {[text |-> <<Scalar>>, value |-> ScalarValue]}) \cup Wide(3, Plain) \cup Wide(2, Plain \cup Parted \cup Wide(1, Plain))

Corrupted(text) == {[text EXCEPT ![i] = LexerError] : i \in DOMAIN text}

MCDocument ==
  {d.text : d \in Meanings}
    \cup UNION {Neighbours(d.text) \cup Corrupted(d.text) : d \in Json(6)}
=============================================================================
