---------------------------- MODULE JsonReaders -----------------------------
(***************************************************************************)
(* One text read by both JSON readers: first by the parser that builds the *)
(* AST (JsonParser), then by the event parser (Sax), whose host may stop   *)
(* it.  Both have a nesting limit of 64 in the code, but the parser counts *)
(* brackets and the event parser values, so that a bracket at the limit    *)
(* passes it.                                                              *)
(***************************************************************************)
EXTENDS JsonParser, Sax

readersVars == <<parserVars, saxVars>>

ReadersInit == ParserInit /\ SaxReady

ReadersNext ==
  \/ ParserNext /\ UNCHANGED <<saxPos, frames, stage, events, outcome>>
  \/ status # "parsing" /\ SaxNext /\ UNCHANGED <<pos, controls, depth, status, astVars>>

(* One thread reads, and nothing blocks it.                                *)
ReadersSpec == ReadersInit /\ [][ReadersNext]_readersVars /\ WF_readersVars(ReadersNext)

---------------------------------------------------------------------------
(* Properties.                                                             *)

\* What the host heard, with keys as strings, without the ends of objects and arrays.
AsToken(event) == IF event.type = "key" THEN String(event.name) ELSE event

Heard == Gather([i \in 1 .. Len(events) |-> AsToken(events[i])],
                {i \in 1 .. Len(events) : events[i].type \notin {"}", "]"}})[Len(events)]

(* What the parser accepts the event parser does not reject; the events of *)
(* a text are the nodes of its AST, in the order the parser made them; and *)
(* the event parser accepts no more than the parser but one level of       *)
(* nesting.                                                                *)
ReadersAgree ==
  /\ Accepted => outcome # "rejected" /\ IsPrefix(Heard, [i \in 1 .. Len(nodes) |-> nodes[i].token])
  /\ Accepted /\ outcome = "accepted" => Len(Heard) = Len(nodes)
  /\ outcome = "accepted" => Accepted \/ Estimate(doc).maxDepth = MaxDepth + 1

(* Both readers come to an end.                                            *)
ReadersEnd == <>(status # "parsing" /\ outcome # "parsing")
=============================================================================
