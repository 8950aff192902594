----------------------------- MODULE YamlLayout -----------------------------
(***************************************************************************)
(* Layouts of values in the subset of YAML that section 2 of               *)
(* docs/yaml_parsing_spec.md lists, each with the value they stand for,    *)
(* written down with no parser in mind.                                    *)
(*                                                                         *)
(* The entries of a block stand below one another at one indentation.      *)
(* Behind the key or the bullet of an entry follows a scalar or flow       *)
(* style; nothing, which is null; a block on the lines below; or, behind   *)
(* a bullet, a block that begins on its line.  A layout is regular when    *)
(* the only blocks that begin behind bullets are mappings with all their   *)
(* values on the line of the key, and those bullets are indented more than *)
(* the key of their sequence.                                              *)
(*                                                                         *)
(* A word is any plain text but a number, true, false and null, and its    *)
(* value is the text.  That is so of ~, yes, no, on and off as well, which *)
(* that section (lines 48 and 49) lists as null and Booleans:              *)
(* src/src/parser/yaml_lexer.c:105-114 knows only the three literals.      *)
(***************************************************************************)
EXTENDS YamlLexer

Line(indent, items) == [indent |-> indent, items |-> items]

Shifted(lines, by) == [i \in DOMAIN lines |-> Line(lines[i].indent + by, lines[i].items)]

NullValue == LiteralValue("null")

\* What can follow a prefix: items on the line, lines below it, and the value.
Follower(items, below, value) == [items |-> items, below |-> below, value |-> value]

Plainly(token, value) == Follower(<<token>>, <<>>, value)

\* A block scalar; the text of its lines is its value.
Literally(lines) == Follower(<<Mark("|")>>, lines, StringValue(TextOf(lines)))

(* An entry has lines and a value.  It is flat when the value is on the    *)
(* line of the prefix, and tight when it has a block behind a bullet.      *)
Entry(lines, value, flat, tight, regular) ==
  [lines |-> lines, value |-> value, flat |-> flat, tight |-> tight, regular |-> regular]

On(prefix, f) ==
  Entry(<<Line(0, prefix \o f.items)>> \o Shifted(f.below, 2), f.value, TRUE, FALSE, TRUE)

Nothing(prefix) == Entry(<<Line(0, prefix)>>, NullValue, FALSE, FALSE, TRUE)

Below(prefix, block, by) ==
  Entry(<<Line(0, prefix)>> \o Shifted(block.lines, by), block.value, FALSE, FALSE,
        block.regular /\ (by = 0 => ~block.tight))

Behind(prefix, block) ==
  Entry(<<Line(0, prefix \o block.lines[1].items)>> \o Shifted(Tail(block.lines), 2),
        block.value, FALSE, TRUE, block.flat /\ "map" \in DOMAIN block.value)

\* A block that begins with an entry.
Joined(value, entry, rest) ==
  Entry(entry.lines \o rest.lines, value, entry.flat /\ rest.flat, entry.tight \/ rest.tight,
        entry.regular /\ rest.regular)

NoEntries(value) == Entry(<<>>, value, TRUE, FALSE, TRUE)

Bullet == <<Mark("-")>>
Key(n) == <<Word(n), Mark(":")>>

(* The blocks of `size` keys and bullets altogether, the keys of a mapping *)
(* being the first of `names`.                                             *)
BlocksOf(size, followers, names) ==
  LET short(prefix) == {On(prefix, f) : f \in followers} \cup {Nothing(prefix)}
      blocks[s \in 0 .. size] ==
        LET inner(k)     == blocks[k - 1].sequences \cup blocks[k - 1].mappings
            item[k \in 1 .. s] ==
              IF k = 1 THEN short(Bullet)
              ELSE {Below(Bullet, b, 2) : b \in inner(k)} \cup {Behind(Bullet, b) : b \in inner(k)}
            pair(name, k) ==
              IF k = 1 THEN short(Key(name))
              ELSE {Below(Key(name), b, 2) : b \in inner(k)} \cup
                   {Below(Key(name), b, 0) : b \in blocks[k - 1].sequences}
            items[k \in 0 .. s] ==
              IF k = 0 THEN {NoEntries(Array(<<>>))}
              ELSE UNION {{Joined(Array(<<e.value>> \o rest.value.items), e, rest)
                             : e \in item[first], rest \in items[k - first]} : first \in 1 .. k}
            pairs[k \in 0 .. s, i \in 1 .. Len(names) + 1] ==
              IF k = 0 THEN {NoEntries(Object(EmptyMap))}
              ELSE IF i > Len(names) THEN {}
              ELSE UNION {{Joined(Object((names[i] :> e.value) @@ rest.value.map), e, rest)
                             : e \in pair(names[i], first), rest \in pairs[k - first, i + 1]}
                            : first \in 1 .. k}
        IN  IF s = 0 THEN [sequences |-> {}, mappings |-> {}]
            ELSE [sequences |-> items[s], mappings |-> pairs[s, 1]]
  IN  blocks[size].sequences \cup blocks[size].mappings

Blocks(size, followers, names) == UNION {BlocksOf(s, followers, names) : s \in 1 .. size}

(* Flow style in one line: of so many scalars, keys being quoted or not.   *)
Flows(leaves, keys) ==
  LET list(a, b) == Follower(<<Mark("[")>> \o a.items \o <<Mark(",")>> \o b.items \o <<Mark("]")>>, <<>>,
                             Array(<<a.value, b.value>>))
      map(k, v)  == Follower(<<Mark("{"), k, Mark(":")>> \o v.items \o <<Mark("}")>>, <<>>,
                             Object(k.name :> v.value))
      one        == {Follower(<<Mark("[")>> \o a.items \o <<Mark("]")>>, <<>>, Array(<<a.value>>))
                       : a \in leaves}
  IN  {Follower(<<Mark("["), Mark("]")>>, <<>>, Array(<<>>)),
       Follower(<<Mark("{"), Mark("}")>>, <<>>, Object(EmptyMap))}
      \cup one \cup {list(a, b) : a, b \in leaves \cup one} \cup {map(k, v) : k \in keys, v \in leaves \cup one}

---------------------------------------------------------------------------
(* Documents.                                                              *)

\* A value is known unless the document is a mutation.
Document(lines, value, regular) == [lines |-> lines, value |-> value, regular |-> regular, known |-> TRUE]

Laid(blocks) == {Document(b.lines, b.value, b.regular) : b \in blocks}

(* Blank lines, and comments, at any indentation, between other lines and  *)
(* behind them; not in a block scalar, which would keep them.              *)
Noise == {Line(3, <<>>), Line(1, <<Mark("#"), Word(1)>>)}

Noisy(d) ==
  {[d EXCEPT !.lines = InsertAt(@, i, noise)] : i \in 1 .. Len(d.lines) + 1, noise \in Noise} \cup
  {[d EXCEPT !.lines[i].items = Append(@, Mark("#"))] : i \in DOMAIN d.lines}

\* One line indented differently, or one item left out or replaced.
Mutated(d) ==
  LET changed == {[d.lines EXCEPT ![i].indent = @ + 1] : i \in DOMAIN d.lines}
        \cup UNION {{[d.lines EXCEPT ![i].items = RemoveAt(@, j)] : j \in DOMAIN d.lines[i].items}
                      : i \in DOMAIN d.lines}
        \cup UNION {{[d.lines EXCEPT ![i].items[j] = item]
                       : j \in DOMAIN d.lines[i].items,
                         item \in {Word(3), Quoted(1), Mark("true")} \cup
                                  {Mark(p) : p \in {"-", ":", ",", "{", "}", "[", "]"}}}
                      : i \in DOMAIN d.lines}
        \cup {[d.lines EXCEPT ![i].items = <<Mark("tab")>> \o @] : i \in DOMAIN d.lines}
  IN  {[Document(lines, NullValue, FALSE) EXCEPT !.known = FALSE] : lines \in changed}
=============================================================================
