------------------------------ MODULE Context ------------------------------
(***************************************************************************)
(* The public calls of src/src/ctx/ctx.c on one context, composed with the *)
(* arena the context lives in and allocates from, and with the exception   *)
(* frames of src/src/comm/utils/except.h.                                  *)
(*                                                                         *)
(* A call that allocates is a sequence of steps, one per allocation, since *)
(* each can run out of memory.  The documents and their contents are       *)
(* abstract: a document is its size, the exception the prescan or the      *)
(* parser raises on it, and whether it conforms to the schema.             *)
(*                                                                         *)
(* `frames` is Except_stack, top first.  A frame is "host" while the       *)
(* function that pushed it runs and "dead" once that function has          *)
(* returned; nothing below a dead frame can be relied upon, so nothing is  *)
(* kept there.  `status` says how the process ended.  `parsed` is not in   *)
(* the code: it is the document of the last parse, when that parse         *)
(* returned true and the context was not reset since.                      *)
(***************************************************************************)
EXTENDS Arena

CONSTANTS
  Doc,          \* the documents the host parses
  NULL,         \* no pointer, no document
  CtxSize,      \* sizeof(Jsonv_Context)
  NodeSize,     \* sizeof(ASTNode)
  IntSize,      \* sizeof(int)
  EntrySize,    \* sizeof(entry_t)
  KeyNodeSize,  \* sizeof(KeyNode)
  PathSize,     \* an error path or key copied during validation
  ValueSizes    \* the allocations of ast_to_value for one object

LimitExceptions ==
  {"MAXIMUM_NESTED_DEPTH_REACHED", "MAXIMUM_VALUES_REACHED", "MAXIMUM_OBJECT_REACHED",
   "MAXIMUM_ARRAY_REACHED", "MAXIMUM_TOKEN_BYTES_REACHED"}

Exceptions ==
  LimitExceptions \cup
  {"MALFORMED_JSON", "Mem_Failed", "ARENA_LIMIT_REACHED", "ARENA_OVERFLOW"}

\* What the prescan and the limits raise, and what the parser raises.
ASSUME DocAssumption ==
  Doc \subseteq
    [length : Nat, values : Nat, conforms : BOOLEAN,
     prescan : LimitExceptions \cup {"MALFORMED_JSON", "none"},
     parser : {"MALFORMED_JSON", "MAXIMUM_NESTED_DEPTH_REACHED", "none"}]

VARIABLES
  ctx,      \* the context: its region, or NULL
  data,     \* ctx->data: region, document, and how much of it is there
  tree,     \* ctx->data_keytree: region and document
  error,    \* ctx->last_error, "none" when has_error is false
  call,     \* the call in progress
  result,   \* the last call that returned
  frames,   \* Except_stack
  inTry,    \* the host is inside a TRY of its own
  schema,   \* the host holds a compiled schema
  status,   \* how the process ended, or "running"
  parsed    \* the document a successful parse left in the context

ctxVars == <<vars, ctx, data, tree, error, call, result, frames, inTry, schema,
             status, parsed>>

IdleCall == [op |-> "idle", doc |-> NULL, step |-> 0]

\* jsonv_ctx_new leaves ctx->data and its key tree uninitialised.
Garbage == [store |-> NULL, doc |-> NULL, fill |-> "garbage"]
NoTree  == [store |-> NULL, doc |-> NULL]

Region == [blk : BlockId, off : 0 .. Word - 1, len : 0 .. Word - 1]

ASSUME NullAssumption == NULL \notin Doc /\ NULL \notin Region

Running == status = "running"
Idle    == Running /\ call.op = "idle"
CanCall == Idle /\ ctx # NULL /\ ctx \in live

(* The region an allocation has just returned (no request here is empty).  *)
NewRegion == CHOOSE r \in live' : r \notin live

---------------------------------------------------------------------------
(* Exceptions.                                                             *)

Returns(op, ok) ==
  /\ call' = IdleCall
  /\ result' = [op |-> op, ok |-> ok]

(* `return` inside a TRY, where RETURN would have popped the frame.        *)
ReturnInsideTry(op, ok) ==
  /\ Returns(op, ok)
  /\ frames' = <<"dead">>
  /\ UNCHANGED <<inTry, status>>

Escape_KeepsFrame ==
  /\ Returns("none", FALSE)
  /\ IF frames = <<>> THEN status' = "aborted" /\ UNCHANGED inTry
     ELSE inTry' = FALSE /\ UNCHANGED status
  /\ UNCHANGED frames

(* Except_raise when no frame of the running call is on the stack.         *)
Escape ==
  /\ Returns("none", FALSE)
  /\ \/ /\ frames = <<>>
        /\ status' = "aborted"
        /\ UNCHANGED <<frames, inTry>>
     \/ /\ frames # <<>> /\ Head(frames) = "host"
        /\ frames' = Tail(frames)
        /\ inTry' = FALSE
        /\ UNCHANGED status
     \/ /\ frames # <<>> /\ Head(frames) = "dead"
        /\ status' = "wildJump"
        /\ UNCHANGED <<frames, inTry>>

ValueHandlers == {"Mem_Failed", "ARENA_LIMIT_REACHED"}
CompileHandlers ==
  ValueHandlers \cup {"MALFORMED_JSON", "MAXIMUM_NESTED_DEPTH_REACHED"}

ParseHandlers_AsCompile == CompileHandlers

ParseHandlers == Exceptions \ {"ARENA_OVERFLOW"}

(* Except_raise inside the TRY of call `op`, and its END_TRY: the frame is *)
(* popped, and what no EXCEPT names is raised again.                       *)
Raise_Unreported(op, handlers, e) ==
  \/ /\ e \in handlers
     /\ UNCHANGED error
     /\ Returns(op, FALSE)
     /\ UNCHANGED <<frames, inTry, status>>
  \/ /\ e \notin handlers
     /\ Escape
     /\ UNCHANGED error

Raise(op, handlers, e) ==
  \/ /\ e \in handlers
     /\ error' = e
     /\ Returns(op, FALSE)
     /\ UNCHANGED <<frames, inTry, status>>
  \/ /\ e \notin handlers
     /\ Escape
     /\ UNCHANGED error

---------------------------------------------------------------------------
(* Allocating from the context's arena.                                    *)

AllocOk(size) ==
  \/ AllocCurrent(size)
  \/ AllocRecycle(size)
  \/ \E b \in FreeBlocks : AllocCreates(size, b)

(* arena_alloc raises e.                                                   *)
AllocRaising(size, e) ==
  \/ AllocOverflow(size, TRUE) /\ e = "ARENA_OVERFLOW"
  \/ AllocLimit(size, TRUE) /\ e = "ARENA_LIMIT_REACHED"
  \/ AllocRaises(size) /\ e = "Mem_Failed"

(* jsonv_arena_alloc returns NULL.                                         *)
AllocNull(size) == AllocOverflow(size, FALSE) \/ AllocLimit(size, FALSE)

---------------------------------------------------------------------------
(* The host: its arena, its TRY blocks, its schema.                        *)

HostNewArena ==
  /\ Idle
  /\ \/ \E b \in FreeBlocks : NewCreates(b)
     \/ NewRefused
  /\ UNCHANGED <<ctx, data, tree, error, call, result, frames, inTry, schema, status, parsed>>

HostDestroyArena ==
  /\ Idle
  /\ Destroy
  /\ ctx' = NULL
  /\ data' = Garbage
  /\ tree' = NoTree
  /\ error' = "none"
  /\ result' = [op |-> "none", ok |-> FALSE]
  /\ parsed' = NULL
  /\ UNCHANGED <<call, frames, inTry, schema, status>>

HostTry ==
  /\ Idle
  /\ ~inTry
  /\ frames' = <<"host">> \o frames
  /\ inTry' = TRUE
  /\ UNCHANGED <<vars, ctx, data, tree, error, call, result, schema, status, parsed>>

(* END_TRY pops whatever Except_stack points at.                           *)
HostEndTry ==
  /\ Idle
  /\ inTry
  /\ inTry' = FALSE
  /\ \/ /\ Head(frames) = "host"
        /\ frames' = Tail(frames)
        /\ UNCHANGED status
     \/ /\ Head(frames) = "dead"
        /\ status' = "deadFrameRead"
        /\ UNCHANGED frames
  /\ UNCHANGED <<vars, ctx, data, tree, error, call, result, schema, parsed>>

(* jsonv_schema_compile, in an arena of its own: it succeeds, or an        *)
(* exception comes out of the prescan, the limits, the parser or an        *)
(* allocation; out_error belongs to the host.                              *)
SchemaCompile ==
  /\ Idle
  /\ ~schema
  /\ \/ /\ ReturnInsideTry("compile", TRUE)
        /\ schema' = TRUE
     \/ /\ \E e \in Exceptions :
             \/ /\ e \in CompileHandlers
                /\ Returns("compile", FALSE)
                /\ UNCHANGED <<frames, inTry, status>>
             \/ e \notin CompileHandlers /\ Escape
        /\ UNCHANGED schema
  /\ UNCHANGED <<vars, ctx, data, tree, error, parsed>>

---------------------------------------------------------------------------
(* jsonv_ctx_new: the error state is cleared, the parse state is not.      *)

CtxNew ==
  /\ Idle
  /\ ctx = NULL
  /\ \/ /\ AllocOk(CtxSize)
        /\ ctx' = NewRegion
        /\ Returns("new", TRUE)
        /\ UNCHANGED <<frames, inTry, status>>
     \/ /\ AllocNull(CtxSize) \/ AllocNoArena(FALSE)
        /\ Returns("new", FALSE)
        /\ UNCHANGED <<ctx, frames, inTry, status>>
     \/ /\ AllocRaises(CtxSize)
        /\ Escape
        /\ UNCHANGED ctx
  /\ UNCHANGED <<data, tree, error, schema, parsed>>

---------------------------------------------------------------------------
(* jsonv_ctx_parse_data and jsonv_ctx_parse_yaml_data.                     *)

(* set_next_power_of_two of the 1.2 load factor.                           *)
KeysCapacity(d) ==
  CHOOSE p \in {2 ^ k : k \in 0 .. 16} :
    /\ p >= (d.values * 12) \div 10
    /\ p = 1 \/ p \div 2 < (d.values * 12) \div 10

ParseSizes(d) ==
  <<d.length * NodeSize, d.length * IntSize, d.length * IntSize,
    KeysCapacity(d) * EntrySize, KeysCapacity(d) * KeyNodeSize>>

\* Every request is one the arena is asked for, and none is empty.
ASSUME RequestAssumption ==
  /\ CtxSize \in Sizes \cap Keeps
  /\ PathSize \in Sizes
  /\ ValueSizes \in Seq(Sizes)
  /\ \A d \in Doc : d.length > 0 => \A i \in 1 .. 5 : ParseSizes(d)[i] \in Sizes \ {0}
  /\ CtxSize > 0 /\ PathSize > 0 /\ \A i \in 1 .. Len(ValueSizes) : ValueSizes[i] > 0

(* The error is cleared; an empty document is refused before any TRY; the  *)
(* prescan and the limits raise before anything is allocated.              *)
ParseBegin(d) ==
  /\ CanCall
  /\ parsed' = NULL
  /\ \/ /\ d.length = 0
        /\ error' = "MALFORMED_JSON"
        /\ Returns("parse", FALSE)
        /\ UNCHANGED <<frames, inTry, status>>
     \/ /\ d.length > 0 /\ d.prescan # "none"
        /\ Raise("parse", ParseHandlers, d.prescan)
     \/ /\ d.length > 0 /\ d.prescan = "none"
        /\ error' = "none"
        /\ call' = [op |-> "parse", doc |-> d, step |-> 1]
        /\ UNCHANGED <<result, frames, inTry, status>>
  /\ UNCHANGED <<vars, ctx, data, tree, schema>>

StartAst_TopKept(d) == [store |-> NewRegion, doc |-> d, fill |-> data.fill]

StartAst_StorageKept(d) == [data EXCEPT !.fill = "empty"]

\* stack_init empties the AST as soon as its storage is there.
StartAst(d) == [store |-> NewRegion, doc |-> d, fill |-> "empty"]

(* The allocations of parse_to_ast, each initialising what it backs.       *)
ParseAlloc ==
  /\ Running
  /\ call.op = "parse" /\ call.step <= 5
  /\ LET size == ParseSizes(call.doc)[call.step] IN
       \/ /\ AllocOk(size)
          /\ data' = IF call.step = 1 THEN StartAst(call.doc) ELSE data
          /\ tree' = IF call.step = 5 THEN [store |-> NewRegion, doc |-> call.doc] ELSE tree
          /\ call' = [call EXCEPT !.step = @ + 1]
          /\ UNCHANGED <<error, result, frames, inTry, status>>
       \/ /\ \E e \in Exceptions :
               AllocRaising(size, e) /\ Raise("parse", ParseHandlers, e)
          /\ UNCHANGED <<data, tree>>
  /\ UNCHANGED <<ctx, schema, parsed>>

(* parse_ast: the whole document, or what was read before it raised; it    *)
(* also raises when malloc cannot grow a stack or hold a long key.         *)
ParseDocument ==
  /\ Running
  /\ call.op = "parse" /\ call.step = 6
  /\ \/ /\ call.doc.parser = "none"
        /\ data' = [data EXCEPT !.fill = "whole"]
        /\ parsed' = call.doc
        /\ ReturnInsideTry("parse", TRUE)
        /\ UNCHANGED error
     \/ /\ \E fill \in {"empty", "partial"} : data' = [data EXCEPT !.fill = fill]
        /\ \E e \in {call.doc.parser, "Mem_Failed"} \ {"none"} :
             Raise("parse", ParseHandlers, e)
        /\ UNCHANGED parsed
  /\ UNCHANGED <<vars, ctx, tree, schema>>

---------------------------------------------------------------------------
(* jsonv_ctx_validate has no TRY: what the VM raises escapes.              *)

ValidateBegin ==
  /\ CanCall
  /\ schema
  /\ \/ /\ data.fill \in {"empty", "garbage"}
        /\ error' = "MALFORMED_JSON"
        /\ Returns("validate", FALSE)
        /\ UNCHANGED status
     \/ /\ data.fill = "garbage"
        /\ status' = "garbageRead"
        /\ UNCHANGED <<error, call, result>>
     \/ /\ data.fill \in {"partial", "whole"}
        /\ error' = "none"
        /\ \E step \in {1, 2} : call' = [op |-> "validate", doc |-> data.doc, step |-> step]
        /\ UNCHANGED <<result, status>>
  /\ UNCHANGED <<vars, ctx, data, tree, frames, inTry, schema, parsed>>

(* A key, a pattern or an error path is copied into the arena.             *)
ValidateAlloc ==
  /\ Running
  /\ call.op = "validate" /\ call.step = 1
  /\ \/ /\ AllocOk(PathSize)
        /\ call' = [call EXCEPT !.step = 2]
        /\ UNCHANGED <<result, frames, inTry, status>>
     \/ /\ \E e \in Exceptions : AllocRaising(PathSize, e)
        /\ Escape
  /\ UNCHANGED <<ctx, data, tree, error, schema, parsed>>

OnChain(r) == \E i \in 1 .. Len(chain) : chain[i] = r.blk

(* The verdict is that of the document when its whole AST is in memory the *)
(* arena has not taken back, anything when that memory was taken back or   *)
(* the AST is cut short, and a read of freed memory when its block is gone.*)
ValidateEnd ==
  /\ Running
  /\ call.op = "validate" /\ call.step = 2
  /\ \/ /\ OnChain(data.store)
        /\ \E ok \in IF data.fill = "whole" /\ data.store \in live
                     THEN {data.doc.conforms} ELSE BOOLEAN :
             /\ Returns("validate", ok)
             /\ error' = IF ok THEN "none" ELSE "invalid"
        /\ UNCHANGED status
     \/ /\ ~OnChain(data.store)
        /\ status' = "freedRead"
        /\ UNCHANGED <<call, result, error>>
  /\ UNCHANGED <<vars, ctx, data, tree, frames, inTry, schema, parsed>>

---------------------------------------------------------------------------
(* jsonv_ctx_get_value.                                                    *)

(* An AST with nothing in it gives false, and no error.  shape_root works  *)
(* in an arena of its own: it can return NULL, or raise when that arena    *)
(* cannot be made.                                                         *)
GetValueBegin ==
  /\ CanCall
  /\ \/ /\ data.fill \in {"empty", "garbage"}
        /\ Returns("get_value", FALSE)
        /\ UNCHANGED <<error, frames, inTry, status>>
     \/ /\ data.fill = "garbage"
        /\ status' = "garbageRead"
        /\ UNCHANGED <<error, call, result, frames, inTry>>
     \/ /\ data.fill \in {"partial", "whole"}
        /\ \/ ReturnInsideTry("get_value", FALSE) /\ UNCHANGED error
           \/ Raise("get_value", ValueHandlers, "Mem_Failed")
           \/ /\ OnChain(data.store) /\ OnChain(tree.store)
              /\ call' = [op |-> "get_value", doc |-> data.doc, step |-> 1]
              /\ UNCHANGED <<error, result, frames, inTry, status>>
           \/ /\ ~(OnChain(data.store) /\ OnChain(tree.store))
              /\ status' = "freedRead"
              /\ UNCHANGED <<error, call, result, frames, inTry>>
  /\ UNCHANGED <<vars, ctx, data, tree, schema, parsed>>

(* ast_to_value: the object, a key, its slots.  Only malloc raises; where  *)
(* the arena returns NULL the key is lost but the object or its slots are  *)
(* written through the null pointer.                                       *)
GetValueAlloc ==
  /\ Running
  /\ call.op = "get_value" /\ call.step <= Len(ValueSizes)
  /\ LET size == ValueSizes[call.step] IN
       \/ /\ \/ AllocOk(size)
             \/ AllocNull(size) /\ call.step = 2
          /\ call' = [call EXCEPT !.step = @ + 1]
          /\ UNCHANGED <<error, result, frames, inTry, status>>
       \/ /\ AllocNull(size) /\ call.step # 2
          /\ status' = "nullWrite"
          /\ UNCHANGED <<error, call, result, frames, inTry>>
       \/ /\ AllocRaises(size)
          /\ Raise("get_value", ValueHandlers, "Mem_Failed")
  /\ UNCHANGED <<ctx, data, tree, schema, parsed>>

GetValueEnd ==
  /\ Running
  /\ call.op = "get_value" /\ call.step > Len(ValueSizes)
  /\ ReturnInsideTry("get_value", TRUE)
  /\ UNCHANGED <<vars, ctx, data, tree, error, schema, parsed>>

---------------------------------------------------------------------------
(* jsonv_ctx_reset: neither ctx->data nor its key tree is cleared.         *)

CtxReset_Whole ==
  /\ CanCall
  /\ ResetTo(0)
  /\ error' = "none"
  /\ Returns("reset", TRUE)
  /\ parsed' = NULL
  /\ UNCHANGED <<ctx, data, tree, frames, inTry, schema, status>>

CtxReset ==
  /\ CanCall
  /\ ResetTo(CtxSize)
  /\ error' = "none"
  /\ Returns("reset", TRUE)
  /\ parsed' = NULL
  /\ UNCHANGED <<ctx, data, tree, frames, inTry, schema, status>>

---------------------------------------------------------------------------
CtxInit ==
  /\ Init
  /\ ctx = NULL
  /\ data = Garbage
  /\ tree = NoTree
  /\ error = "none"
  /\ call = IdleCall
  /\ result = [op |-> "none", ok |-> FALSE]
  /\ frames = <<>>
  /\ inTry = FALSE
  /\ schema = FALSE
  /\ status = "running"
  /\ parsed = NULL

CtxNext ==
  \/ HostNewArena
  \/ HostDestroyArena
  \/ HostTry
  \/ HostEndTry
  \/ SchemaCompile
  \/ CtxNew
  \/ \E d \in Doc : ParseBegin(d)
  \/ ParseAlloc
  \/ ParseDocument
  \/ ValidateBegin
  \/ ValidateAlloc
  \/ ValidateEnd
  \/ GetValueBegin
  \/ GetValueAlloc
  \/ GetValueEnd
  \/ CtxReset

CtxSpec == CtxInit /\ [][CtxNext]_ctxVars

---------------------------------------------------------------------------
(* Properties.                                                             *)

(* Every variable of the context and of the calls on it has its type.      *)
CtxTypeOK ==
  /\ TypeOK
  /\ ctx \in Region \cup {NULL}
  /\ data \in [store : Region \cup {NULL}, doc : Doc \cup {NULL},
              fill : {"garbage", "empty", "partial", "whole"}]
  /\ tree \in [store : Region \cup {NULL}, doc : Doc \cup {NULL}]
  /\ error \in Exceptions \cup {"none", "invalid"}
  /\ call \in [op : {"idle", "parse", "validate", "get_value"},
              doc : Doc \cup {NULL}, step : Nat]
  /\ result \in [op : {"none", "new", "compile", "parse", "validate", "get_value", "reset"},
                ok : BOOLEAN]
  /\ frames \in {<<>>, <<"host">>, <<"dead">>, <<"host", "dead">>}
  /\ inTry \in BOOLEAN /\ schema \in BOOLEAN
  /\ status \in {"running", "aborted", "wildJump", "deadFrameRead", "garbageRead",
                "freedRead", "nullWrite"}
  /\ parsed \in Doc \cup {NULL}

(* A context that fits in the arena's first block outlives every reset:    *)
(* jsonv_ctx_reset keeps a prefix of the head, whatever parses and trims   *)
(* went before.                                                            *)
ContextPreserved ==
  ctx # NULL /\ AlignUp(CtxSize) <= cfg.default => ctx \in live

(* After a parse that returned true the context holds the whole AST and    *)
(* the key tree of that very document, in memory of their own.             *)
DocumentUsable ==
  parsed # NULL =>
    /\ data.doc = parsed /\ tree.doc = parsed
    /\ data.fill = "whole"
    /\ {ctx, data.store, tree.store} \subseteq live
    /\ ctx # data.store /\ data.store # tree.store /\ tree.store # ctx

(* However a parse ends once its AST has storage, it does not leave an AST *)
(* with nodes in it beside the key tree of another document, or one whose  *)
(* memory is gone: get_value would read one document's nodes through the   *)
(* key order of another.                                                   *)
TreeMatchesAst ==
  [][call.op = "parse" /\ call.step > 1 /\ call' = IdleCall =>
       data'.fill = "empty" \/ (tree'.doc = data'.doc /\ tree'.store \in live')]_ctxVars

(* A parse or a validation returns false exactly when it reports an error. *)
ErrorsReported ==
  Idle /\ result.op \in {"parse", "validate"} => (result.ok <=> error = "none")

(* Nothing a parse raises gets past the parse: it returns to its caller    *)
(* whatever frames are on the stack.                                       *)
ParseContained ==
  [][call.op = "parse" \/ (\E d \in Doc : ParseBegin(d)) => status' = "running"]_ctxVars
=============================================================================
