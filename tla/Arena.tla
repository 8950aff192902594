------------------------------- MODULE Arena -------------------------------
(***************************************************************************)
(* The chained block allocator of src/src/comm/struct/arena.c.             *)
(*                                                                         *)
(* An arena is a singly linked chain of malloc'ed blocks.  `chain` is the  *)
(* list from `head` along the `next` pointers, `cur` the position of       *)
(* `current`.  `live` is what the clients hold: the regions returned since *)
(* the last reset that the reset did not promise to keep.  The code has no *)
(* such record; every property about it compares what clients were told    *)
(* with what the block headers say.                                        *)
(*                                                                         *)
(* A definition Name_Variant is a faulty form of Name, used only to show   *)
(* that a property notices the fault.                                      *)
(***************************************************************************)
EXTENDS Integers, Sequences, SequencesExt

CONSTANTS
  BlockId,   \* identities malloc gives to blocks
  Word,      \* SIZE_MAX + 1
  HeapSize,  \* bytes the process can have malloc'ed at once
  Configs,   \* the argument triples jsonv_arena_new is called with
  Sizes,     \* the sizes clients request
  Keeps      \* the keep_size arguments of jsonv_arena_reset_to

Align  == 16   \* ARENA_ALIGNMENT
Header == 32   \* sizeof(Jsonv_ArenaBlock)

ASSUME WordAssumption == Word \in Nat /\ Word > Header + Align
ASSUME HeapAssumption == HeapSize \in 0 .. Word - 1
ASSUME ConfigAssumption ==
  Configs \subseteq [default : 0 .. Word - 1, limit : 0 .. Word - 1, shrink : 0 .. Word - 1]
ASSUME SizesAssumption == Sizes \subseteq 0 .. Word - 1
\* Every caller keeps sizeof(Jsonv_Context) or nothing, far from SIZE_MAX.
ASSUME KeepsAssumption == Keeps \subseteq 0 .. Word - Align

VARIABLES
  cfg,        \* default_block_size, max_limit and shrink_at
  chain,      \* block ids from head; <<>> when there is no arena
  cap, used,  \* block headers
  cur,        \* position of `current` in chain, 0 when there is no arena
  reserved,   \* total_reserved
  lastError,  \* jsonv_last_arena_error
  ret,        \* how the last call returned
  live        \* the regions clients hold

heap == <<chain, cap, used, cur, reserved, live>>
vars == <<cfg, heap, lastError, ret>>

Errors  == {"OK", "OVERFLOW", "LIMIT_REACHED", "INVALID_ARG"}
Results == {"ptr", "null", "raise", "void"}

Exists  == chain # <<>>
HeadBlk == chain[1]
Current == chain[cur]

---------------------------------------------------------------------------
(* Arithmetic on size_t.                                                   *)

Minus(a, b) == (a - b) % Word

(* align_up: 0 stands for overflow.                                        *)
AlignUp(size) ==
  IF size > Word - 1 - (Align - 1) THEN 0
  ELSE ((size + Align - 1) \div Align) * Align

AlignOverflows(size) == AlignUp(size) = 0 /\ size > 0

BlockBytes(c) == Header + c

\* The memory of the first blocks of a chain, for each number of them.
BytesOf(blocks, capacity) ==
  LET bytes[i \in 0 .. Len(blocks)] ==
        IF i = 0 THEN 0 ELSE bytes[i - 1] + BlockBytes(capacity[blocks[i]])
  IN  bytes

(* mem_alloc takes a long and asserts it is positive, and malloc may       *)
(* refuse: in both cases it raises, so arena_create_block never returns    *)
(* NULL.                                                                   *)
HeapInUse == BytesOf(chain, cap)[Len(chain)]

CanMalloc(bytes) == bytes < Word \div 2 /\ HeapInUse + bytes <= HeapSize

FreeBlocks == BlockId \ ToSet(chain)

---------------------------------------------------------------------------
(* jsonv_arena_new.                                                        *)

NewOverflows == cfg.default > Word - 1 - Header
NewTooLarge  == BlockBytes(cfg.default) > cfg.limit

NewRefused ==
  /\ ~Exists
  /\ NewOverflows \/ NewTooLarge
  /\ lastError' = IF NewOverflows THEN "OVERFLOW" ELSE "LIMIT_REACHED"
  /\ ret' = "null"
  /\ UNCHANGED <<cfg, heap>>

(* malloc fails for the arena or for its first block.                      *)
NewRaises ==
  /\ ~Exists
  /\ ret' = "raise"
  /\ UNCHANGED <<cfg, heap, lastError>>

NewCreates(b) ==
  /\ ~Exists
  /\ ~NewOverflows
  /\ ~NewTooLarge
  /\ CanMalloc(BlockBytes(cfg.default))
  /\ chain' = <<b>>
  /\ cap' = [cap EXCEPT ![b] = cfg.default]
  /\ used' = [used EXCEPT ![b] = 0]
  /\ cur' = 1
  /\ reserved' = BlockBytes(cfg.default)
  /\ lastError' = "OK"
  /\ ret' = "ptr"
  /\ UNCHANGED <<cfg, live>>

---------------------------------------------------------------------------
(* jsonv_arena_alloc, and arena_alloc, which raises where it returns NULL. *)

Refuse(err, raising) ==
  /\ lastError' = err
  /\ ret' = IF raising THEN "raise" ELSE "null"
  /\ UNCHANGED <<cfg, heap>>

Return(size, b, off) ==
  /\ lastError' = "OK"
  /\ ret' = "ptr"
  /\ live' = live \cup {[blk |-> b, off |-> off, len |-> size]}
  /\ UNCHANGED cfg

FitsCurrent_Underflow(a) == used[Current] <= Minus(cap[Current], a)

FitsCurrent(a) == a <= cap[Current] /\ used[Current] <= cap[Current] - a

NewCapacity(a) == IF a > cfg.default THEN a ELSE cfg.default

GrowthOverflows(a) == NewCapacity(a) > Word - 1 - Header

LimitReached_NoHeader(a) == reserved > Minus(cfg.limit, NewCapacity(a))

(* max_limit - block_struct_size wraps when the block alone exceeds it.    *)
LimitReached(a) == reserved > Minus(cfg.limit, BlockBytes(NewCapacity(a)))

(* There is a block after `current`, left by an earlier reset, that holds  *)
(* the request.                                                            *)
Recyclable(a) == cur < Len(chain) /\ cap[chain[cur + 1]] >= a

(* The request needs a block other than `current` and passes the checks.   *)
Grows(size) ==
  /\ Exists
  /\ ~AlignOverflows(size)
  /\ ~FitsCurrent(AlignUp(size))
  /\ ~GrowthOverflows(AlignUp(size))
  /\ ~LimitReached(AlignUp(size))

AllocNoArena(raising) ==
  /\ ~Exists
  /\ Refuse("INVALID_ARG", raising)

AllocOverflow(size, raising) ==
  /\ Exists
  /\ \/ AlignOverflows(size)
     \/ ~FitsCurrent(AlignUp(size)) /\ GrowthOverflows(AlignUp(size))
  /\ Refuse("OVERFLOW", raising)

AllocLimit(size, raising) ==
  /\ Exists
  /\ ~AlignOverflows(size)
  /\ ~FitsCurrent(AlignUp(size))
  /\ ~GrowthOverflows(AlignUp(size))
  /\ LimitReached(AlignUp(size))
  /\ Refuse("LIMIT_REACHED", raising)

AllocCurrent(size) ==
  /\ Exists
  /\ ~AlignOverflows(size)
  /\ FitsCurrent(AlignUp(size))
  /\ used' = [used EXCEPT ![Current] = @ + AlignUp(size)]
  /\ Return(size, Current, used[Current])
  /\ UNCHANGED <<chain, cap, cur, reserved>>

AllocRecycle_Unclaimed(size) ==
  /\ Grows(size)
  /\ Recyclable(AlignUp(size))
  /\ cur' = cur + 1
  /\ used' = [used EXCEPT ![chain[cur + 1]] = 0]
  /\ Return(size, chain[cur + 1], 0)
  /\ UNCHANGED <<chain, cap, reserved>>

AllocRecycle(size) ==
  /\ Grows(size)
  /\ Recyclable(AlignUp(size))
  /\ cur' = cur + 1
  /\ used' = [used EXCEPT ![chain[cur + 1]] = AlignUp(size)]
  /\ Return(size, chain[cur + 1], 0)
  /\ UNCHANGED <<chain, cap, reserved>>

(* arena_create_block raises; jsonv_last_arena_error keeps its old value.  *)
AllocRaises(size) ==
  /\ Grows(size)
  /\ ~Recyclable(AlignUp(size))
  /\ ret' = "raise"
  /\ UNCHANGED <<cfg, heap, lastError>>

AllocCreates_DropTail(size, b) ==
  /\ Grows(size)
  /\ ~Recyclable(AlignUp(size))
  /\ CanMalloc(BlockBytes(NewCapacity(AlignUp(size))))
  /\ chain' = Append(SubSeq(chain, 1, cur), b)
  /\ cap' = [cap EXCEPT ![b] = NewCapacity(AlignUp(size))]
  /\ used' = [used EXCEPT ![b] = AlignUp(size)]
  /\ cur' = cur + 1
  /\ reserved' = (reserved + BlockBytes(NewCapacity(AlignUp(size)))) % Word
  /\ Return(size, b, 0)

(* The new block goes right after `current`, before any block a reset left *)
(* there.                                                                  *)
AllocCreates(size, b) ==
  /\ Grows(size)
  /\ ~Recyclable(AlignUp(size))
  /\ CanMalloc(BlockBytes(NewCapacity(AlignUp(size))))
  /\ chain' = InsertAt(chain, cur + 1, b)
  /\ cap' = [cap EXCEPT ![b] = NewCapacity(AlignUp(size))]
  /\ used' = [used EXCEPT ![b] = AlignUp(size)]
  /\ cur' = cur + 1
  /\ reserved' = (reserved + BlockBytes(NewCapacity(AlignUp(size)))) % Word
  /\ Return(size, b, 0)

---------------------------------------------------------------------------
(* jsonv_arena_reset_to, with jsonv_arena_reset its case keep_size = 0.    *)

Trims == reserved > cfg.shrink

ResetUsed(keep) ==
  IF AlignUp(keep) > cap[HeadBlk] THEN cap[HeadBlk] ELSE AlignUp(keep)

(* Every block but the head is freed: what a freed block held is gone.     *)
OnlyHead(f) == [b \in BlockId |-> IF b = HeadBlk THEN f[b] ELSE 0]

ResetTo(keep) ==
  /\ Exists
  /\ \/ /\ Trims
        /\ chain' = <<HeadBlk>>
        /\ cap' = OnlyHead(cap)
        /\ used' = [OnlyHead(used) EXCEPT ![HeadBlk] = ResetUsed(keep)]
        /\ reserved' = BlockBytes(cap[HeadBlk])
     \/ /\ ~Trims
        /\ used' = [used EXCEPT ![HeadBlk] = ResetUsed(keep)]
        /\ UNCHANGED <<chain, cap, reserved>>
  /\ cur' = 1
  /\ live' = {r \in live : r.blk = HeadBlk /\ r.off + r.len <= keep}
  /\ lastError' = "OK"
  /\ ret' = "void"
  /\ UNCHANGED cfg

Destroy ==
  /\ Exists
  /\ chain' = <<>>
  /\ cap' = [b \in BlockId |-> 0]
  /\ used' = [b \in BlockId |-> 0]
  /\ cur' = 0
  /\ reserved' = 0
  /\ live' = {}
  /\ lastError' = "OK"
  /\ ret' = "void"
  /\ UNCHANGED cfg

(* Reset or destroy through the NULL a failed jsonv_arena_new returned.    *)
NoArena ==
  /\ ~Exists
  /\ lastError' = "INVALID_ARG"
  /\ ret' = "void"
  /\ UNCHANGED <<cfg, heap>>

---------------------------------------------------------------------------
Init ==
  /\ cfg \in Configs
  /\ chain = <<>>
  /\ cap = [b \in BlockId |-> 0]
  /\ used = [b \in BlockId |-> 0]
  /\ cur = 0
  /\ reserved = 0
  /\ lastError = "OK"
  /\ ret = "void"
  /\ live = {}

Next ==
  \/ NewRefused
  \/ NewRaises
  \/ \E b \in FreeBlocks : NewCreates(b)
  \/ \E raising \in BOOLEAN : AllocNoArena(raising)
  \/ \E size \in Sizes, raising \in BOOLEAN :
       \/ AllocOverflow(size, raising)
       \/ AllocLimit(size, raising)
  \/ \E size \in Sizes :
       \/ AllocCurrent(size)
       \/ AllocRecycle(size)
       \/ AllocRaises(size)
       \/ \E b \in FreeBlocks : AllocCreates(size, b)
  \/ \E keep \in Keeps : ResetTo(keep)
  \/ Destroy
  \/ NoArena

Spec == Init /\ [][Next]_vars

---------------------------------------------------------------------------
(* Properties.                                                             *)

(* Every field keeps its type: sizes and offsets stay inside size_t, and   *)
(* current is a block of the chain.                                        *)
TypeOK ==
  /\ cfg \in Configs
  /\ chain \in Seq(BlockId)
  /\ cap \in [BlockId -> 0 .. Word - 1]
  /\ used \in [BlockId -> 0 .. Word - 1]
  /\ cur \in 0 .. Len(chain)
  /\ reserved \in 0 .. Word - 1
  /\ lastError \in Errors
  /\ ret \in Results
  /\ live \subseteq [blk : BlockId, off : 0 .. Word - 1, len : 0 .. Word - 1]

Regions == INSTANCE RegionAllocator
             WITH Block <- BlockId, Offset <- 0 .. Word - 1, Length <- Sizes,
                  Prefix <- Keeps

(* No byte is handed out twice: two regions clients hold never overlap,    *)
(* whatever mixture of recycled, inserted and trimmed blocks came between. *)
LiveDisjoint ==
  \A r, s \in live : r # s => ~Regions!Overlap(r, s)

(* Every region clients hold is inside the used part of a block that is    *)
(* still on the chain, no later than `current`: none was freed by a trim   *)
(* and none will be overwritten when the arena advances.                   *)
LiveBacked ==
  \A r \in live : \E i \in 1 .. cur :
    /\ chain[i] = r.blk
    /\ r.off + r.len <= used[r.blk]
    /\ used[r.blk] <= cap[r.blk]

(* Every non-empty region starts on a 16-byte boundary, although           *)
(* default_block_size need not be a multiple of 16 and reset_to can leave  *)
(* `used` at such a capacity.                                              *)
LiveAligned ==
  \A r \in live : r.len > 0 => r.off % Align = 0

(* What clients hold is theirs alone, is still there, and is aligned.      *)
LivePlaced == LiveDisjoint /\ LiveBacked /\ LiveAligned

(* total_reserved is the memory of the blocks on the chain, so nothing is  *)
(* lost from the chain while it is still accounted for, or the reverse.    *)
ReservedExact == reserved = HeapInUse

(* The ceiling holds as long as no single block is larger than it.         *)
ReservedWithinLimit ==
  Exists /\ (\A i \in 1 .. Len(chain) : BlockBytes(cap[chain[i]]) <= cfg.limit)
    => reserved <= cfg.limit

(* The arena implements the region allocator its clients rely on.          *)
RefinesRegions == Regions!RegionSpec
=============================================================================
