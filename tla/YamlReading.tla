---------------------------- MODULE YamlReading -----------------------------
(***************************************************************************)
(* What the YAML parser makes of layouts.                                  *)
(***************************************************************************)
EXTENDS YamlParser, YamlLayout

RECURSIVE Height(_)
Height(value) ==
  LET parts == IF "items" \in DOMAIN value THEN ToSet(value.items)
               ELSE IF "map" \in DOMAIN value THEN {value.map[k] : k \in DOMAIN value.map}
               ELSE {}
      heights == {Height(part) : part \in parts}
  IN  1 + (CHOOSE h \in heights \cup {0} : \A k \in heights : k <= h)

\* A value without what has a long name.
RECURSIVE Shortened(_)
Shortened(value) ==
  IF "items" \in DOMAIN value THEN Array([i \in DOMAIN value.items |-> Shortened(value.items[i])])
  ELSE IF "map" \in DOMAIN value THEN Object([k \in DOMAIN value.map \ LongName |-> Shortened(value.map[k])])
  ELSE value

(* A regular layout, whatever blank lines and comments stand between, is   *)
(* read as the value it lays out, but for long keys, which the conversion  *)
(* never sees, unless it is nested too deep.                               *)
RegularRead ==
  layout.known /\ layout.regular =>
    /\ Accepted => Height(layout.value) <= MaxYamlDepth
    /\ Accepted /\ KeysFit => ToValue(1) = Shortened(layout.value)
    /\ status = "MAXIMUM_NESTED_DEPTH_REACHED" => Height(layout.value) > MaxYamlDepth
    /\ status # "MALFORMED_JSON"

\* How many indentations the parser has entered and not left.
Entered ==
  LET unread(token) == IF token.type = "INDENT" THEN 1 ELSE IF token.type = "DEDENT" THEN -1 ELSE 0
  IN  Opened(lexer) - unread(c) - unread(n)

\* How many of the calls under way entered one.
Owners == Cardinality({i \in DOMAIN frames : frames[i].at = "dedent" \/ frames[i].indented})

(* No call leaves an indentation that another has entered; and none that   *)
(* is entered in a regular layout is left open when its call returns.      *)
IndentsOwned ==
  /\ Owners <= Entered
  /\ layout.known /\ layout.regular => Owners = Entered

---------------------------------------------------------------------------
(* What the documentation says and the code does not do.                   *)

(* docs/yaml_parsing_spec.md:41-42 block sequences and mappings may        *)
(* contain each other: any layout that is accepted is read as the value it *)
(* lays out.                                                               *)
NestingRead == layout.known /\ Accepted => ToValue(1) = layout.value
=============================================================================
