--------------------------------- MODULE Sax --------------------------------
(***************************************************************************)
(* The event parser of src/src/parser/sax.c: it keeps no tree but tells    *)
(* the host of each token it has use for, and the host may stop it with    *)
(* any answer.  Its recursion is a stack of frames; `stage` is where the   *)
(* innermost function stands.  The host has given every callback.          *)
(***************************************************************************)
EXTENDS JsonTokens, SequencesExt

CONSTANT MaxSaxDepth   \* MAX_SAX_DEPTH

ASSUME SaxAssumption == MaxSaxDepth \in Nat

VARIABLES
  saxPos,    \* the current token
  frames,    \* the open objects and arrays
  stage,
  events,    \* what the host was told
  outcome

saxVars == <<doc, saxPos, frames, stage, events, outcome>>

CurrentTok == TokenAt(saxPos)
Innermost  == Last(frames)

PastLimit_AtLimit == Len(frames) >= MaxSaxDepth

\* A value here is in too many others.
PastLimit == Len(frames) > MaxSaxDepth

Closing(open) == IF open = "{" THEN "}" ELSE "]"

Key(n) == [type |-> "key", name |-> n]

---------------------------------------------------------------------------
Reject ==
  /\ outcome' = "rejected"
  /\ UNCHANGED <<doc, saxPos, frames, stage, events>>

(* sax_advance, then on to the next stage.                                 *)
Advance(next, open) ==
  /\ saxPos' = saxPos + 1
  /\ \/ /\ TokenAt(saxPos + 1) = LexerError
        /\ outcome' = "rejected"
        /\ UNCHANGED <<stage, frames>>
     \/ /\ TokenAt(saxPos + 1) # LexerError
        /\ stage' = next
        /\ frames' = open
        /\ UNCHANGED outcome
  /\ UNCHANGED doc

(* A callback, which may answer false, and the advance after it.           *)
Tell(event, next, open) ==
  /\ events' = Append(events, event)
  /\ \/ Advance(next, open)
     \/ outcome' = "refused" /\ UNCHANGED <<doc, saxPos, frames, stage>>

\* Back from a value to the loop it is in.
After(open) == IF open = <<>> THEN "top" ELSE "loop"

Parsing(s) == outcome = "parsing" /\ stage = s

(* jsonv_parse_sax before its first value.                                 *)
Start ==
  /\ Parsing("start")
  /\ \/ doc = <<>> /\ Reject
     \/ doc # <<>> /\ CurrentTok = LexerError /\ Reject
     \/ /\ doc # <<>> /\ CurrentTok # LexerError
        /\ stage' = "value"
        /\ UNCHANGED <<doc, saxPos, frames, events, outcome>>

ParseLeaf ==
  /\ Parsing("value")
  /\ ~PastLimit
  /\ CurrentTok.type \in {"string", "scalar"}
  /\ Tell(CurrentTok, After(frames), frames)

ParseOpen ==
  /\ Parsing("value")
  /\ ~PastLimit
  /\ CurrentTok.type \in {"{", "["}
  /\ Tell(CurrentTok, "loop", Append(frames, [open |-> CurrentTok.type, first |-> TRUE]))

(* No value here, or one in too many others.                               *)
NoValue ==
  /\ Parsing("value")
  /\ PastLimit \/ CurrentTok.type \notin {"string", "scalar", "{", "["}
  /\ Reject

ParseClose ==
  /\ Parsing("loop")
  /\ CurrentTok.type = Closing(Innermost.open)
  /\ Tell(CurrentTok, After(Front(frames)), Front(frames))

ParseComma_Optional ==
  /\ Parsing("loop")
  /\ CurrentTok.type # Closing(Innermost.open)
  /\ \/ /\ CurrentTok.type # ","
        /\ stage' = "item"
        /\ frames' = [frames EXCEPT ![Len(frames)].first = FALSE]
        /\ UNCHANGED <<doc, saxPos, events, outcome>>
     \/ /\ ~Innermost.first /\ CurrentTok.type = ","
        /\ Advance("item", frames)
        /\ UNCHANGED events
     \/ Innermost.first /\ CurrentTok.type = "," /\ Reject

(* The head of the loops: a comma before every item but the first.         *)
ParseComma ==
  /\ Parsing("loop")
  /\ CurrentTok.type # Closing(Innermost.open)
  /\ \/ /\ Innermost.first
        /\ stage' = "item"
        /\ frames' = [frames EXCEPT ![Len(frames)].first = FALSE]
        /\ UNCHANGED <<doc, saxPos, events, outcome>>
     \/ /\ ~Innermost.first /\ CurrentTok.type = ","
        /\ Advance("item", frames)
        /\ UNCHANGED events
     \/ ~Innermost.first /\ CurrentTok.type # "," /\ Reject

ParseItem_AsString ==
  /\ Parsing("item")
  /\ \/ CurrentTok.type = Closing(Innermost.open) /\ Reject
     \/ /\ Innermost.open = "["
        /\ CurrentTok.type # "]"
        /\ stage' = "value"
        /\ UNCHANGED <<doc, saxPos, frames, events, outcome>>
     \/ /\ Innermost.open = "{"
        /\ CurrentTok.type = "string"
        /\ Tell(CurrentTok, "colon", frames)
     \/ Innermost.open = "{" /\ CurrentTok.type \notin {"string", "}"} /\ Reject

(* The next item of an array, or the key of the next member.               *)
ParseItem ==
  /\ Parsing("item")
  /\ \/ CurrentTok.type = Closing(Innermost.open) /\ Reject
     \/ /\ Innermost.open = "["
        /\ CurrentTok.type # "]"
        /\ stage' = "value"
        /\ UNCHANGED <<doc, saxPos, frames, events, outcome>>
     \/ /\ Innermost.open = "{"
        /\ CurrentTok.type = "string"
        /\ Tell(Key(CurrentTok.name), "colon", frames)
     \/ Innermost.open = "{" /\ CurrentTok.type \notin {"string", "}"} /\ Reject

ParseColon ==
  /\ Parsing("colon")
  /\ \/ CurrentTok.type = ":" /\ Advance("value", frames) /\ UNCHANGED events
     \/ CurrentTok.type # ":" /\ Reject

(* Nothing may follow the value.                                           *)
SaxFinish ==
  /\ Parsing("top")
  /\ \/ /\ CurrentTok = EndOfFile
        /\ outcome' = "accepted"
        /\ UNCHANGED <<doc, saxPos, frames, stage, events>>
     \/ CurrentTok # EndOfFile /\ Reject

SaxReady ==
  /\ saxPos = 1
  /\ frames = <<>>
  /\ stage = "start"
  /\ events = <<>>
  /\ outcome = "parsing"

SaxInit == doc \in Document /\ SaxReady

SaxNext ==
  \/ Start
  \/ ParseLeaf
  \/ ParseOpen
  \/ NoValue
  \/ ParseClose
  \/ ParseComma
  \/ ParseItem
  \/ ParseColon
  \/ SaxFinish

SaxSpec == SaxInit /\ [][SaxNext]_saxVars

---------------------------------------------------------------------------
(* Properties.                                                             *)

(* Every variable has its type, and the frames are the objects and arrays  *)
(* the host was told are open.                                             *)
SaxTypeOK ==
  /\ saxPos \in 1 .. Len(doc) + 1
  /\ frames \in Seq([open : {"{", "["}, first : BOOLEAN])
  /\ stage \in {"start", "value", "loop", "item", "colon", "top"}
  /\ stage \in {"loop", "item", "colon"} => frames # <<>>
  /\ events \in Seq(Token \cup {Key(n) : n \in Name})
  /\ outcome \in {"parsing", "accepted", "rejected", "refused"}
  /\ LET open(e) == Cardinality({i \in DOMAIN events : events[i].type \in e}) IN
       outcome = "parsing" => Len(frames) = open({"{", "["}) - open({"}", "]"})

\* How many objects and arrays the token at i is in.
DepthAt(i) ==
  Cardinality({j \in 1 .. i - 1 : doc[j].type \in {"{", "["}})
    - Cardinality({j \in 1 .. i : doc[j].type \in {"}", "]"}})

TooDeep ==
  \E i \in DOMAIN doc :
    doc[i].type \notin Punctuation \ {"{", "["} /\ DepthAt(i) > MaxSaxDepth

(* The texts accepted are those of the grammar, as long as no value is in  *)
(* too many others and the host wants to hear of all of it.                *)
SaxVerdict ==
  /\ outcome = "accepted" => doc \in Texts /\ ~TooDeep
  /\ outcome = "rejected" => doc \notin Texts \/ TooDeep

\* Of the first elements of s, those at some positions, for each number of them.
Gather(s, kept) ==
  LET gathered[i \in 0 .. Len(s)] ==
        IF i = 0 THEN <<>>
        ELSE IF i \in kept THEN Append(gathered[i - 1], s[i])
        ELSE gathered[i - 1]
  IN  gathered

\* What there is to tell of a token: a string before a colon is a key.
EventAt(text, i) ==
  IF i < Len(text) /\ text[i].type = "string" /\ text[i + 1].type = ":"
  THEN Key(text[i].name) ELSE text[i]

\* What there is to tell of the first tokens of a text, and of all of it.
EventsUpto(text) ==
  Gather([i \in 1 .. Len(text) |-> EventAt(text, i)], {i \in 1 .. Len(text) : text[i].type \notin {",", ":"}})

EventsOf(text) == EventsUpto(text)[Len(text)]

(* While a text is parsed the host has heard, in order and once each, what *)
(* came so far; when it is accepted it has heard everything.               *)
EventsTold ==
  /\ doc \in Texts => IsPrefix(events, EventsOf(doc))
  /\ outcome = "accepted" => events = EventsOf(doc)
=============================================================================
