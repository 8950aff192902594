---------------------------- MODULE ContextProofs ---------------------------
(***************************************************************************)
(* Theorems about Arena and about Context, which uses one, for every word  *)
(* size, arena configuration, heap, document, pattern of calls and pattern *)
(* of allocation failures.  The inductive invariant of the arena adds to   *)
(* its properties how blocks, their used bytes and total_reserved go       *)
(* together; that of the context is about what it has in the arena.        *)
(***************************************************************************)
EXTENDS Context, SequenceTheorems, RecursionLemmas

---------------------------------------------------------------------------
(* The arena.                                                              *)

(* SIZE_MAX leaves room for a header and some payload.                     *)
LEMMA WordFacts == Word \in Nat /\ Word > 48
  BY WordAssumption DEF Header, Align

(* align_up rounds up to a multiple of 16, unless it wraps.                *)
LEMMA AlignUpFacts ==
  ASSUME NEW size \in 0 .. Word - 1
  PROVE  /\ AlignUp(size) \in 0 .. Word - 1
         /\ AlignUp(size) % 16 = 0
         /\ ~AlignOverflows(size) => AlignUp(size) >= size
  BY WordAssumption DEF AlignUp, AlignOverflows, Align, Header

\* Modular arithmetic does nothing to a number below the modulus.
LEMMA ModRange ==
  ASSUME NEW x \in Int
  PROVE  x % Word \in 0 .. Word - 1
  BY WordFacts

(* Arithmetic that stays below SIZE_MAX + 1 does not wrap.                 *)
LEMMA ModSmall ==
  ASSUME NEW x \in 0 .. Word - 1
  PROVE  x % Word = x
  BY WordFacts

\* t is s with e put in after its first i elements.
Inserted(S, s, i, e, t) ==
  /\ t \in Seq(S)
  /\ Len(t) = Len(s) + 1
  /\ \A j \in 1 .. i : t[j] = s[j]
  /\ t[i + 1] = e
  /\ \A j \in i + 2 .. Len(s) + 1 : t[j] = s[j - 1]

(* Linking a block into the chain moves none before it and keeps the       *)
(* order of those after it.                                                *)
LEMMA InsertAtFacts ==
  ASSUME NEW S, NEW s \in Seq(S), NEW e \in S, NEW i \in 0 .. Len(s)
  PROVE  Inserted(S, s, i, e, InsertAt(s, i + 1, e))
  <1> DEFINE before == SubSeq(s, 1, i)
             after  == SubSeq(s, i + 1, Len(s))
  <1>1. /\ before \in Seq(S) /\ Len(before) = i
        /\ \A j \in 1 .. i : before[j] = s[j]
    OBVIOUS
  <1>2. /\ after \in Seq(S) /\ Len(after) = Len(s) - i
        /\ \A j \in 1 .. Len(s) - i : after[j] = s[i + j]
    OBVIOUS
  <1>3. InsertAt(s, i + 1, e) = (before \o <<e>>) \o after
    <2>1. (i + 1) - 1 = i
      OBVIOUS
    <2> QED BY <2>1 DEF InsertAt
  <1> HIDE DEF before, after
  <1>4. /\ before \o <<e>> \in Seq(S)
        /\ Len(before \o <<e>>) = i + 1
        /\ \A j \in 1 .. i : (before \o <<e>>)[j] = s[j]
        /\ (before \o <<e>>)[i + 1] = e
    BY <1>1
  <1> DEFINE front == before \o <<e>>
  <1>5. /\ front \in Seq(S)
        /\ Len(front) = i + 1
        /\ \A j \in 1 .. i : front[j] = s[j]
        /\ front[i + 1] = e
        /\ InsertAt(s, i + 1, e) = front \o after
    BY <1>3, <1>4
  <1> HIDE DEF front
  <1>6. /\ front \o after \in Seq(S)
        /\ Len(front \o after) = Len(s) + 1
        /\ \A j \in 1 .. i + 1 : (front \o after)[j] = front[j]
    BY <1>2, <1>5
  <1>7. \A j \in i + 2 .. Len(s) + 1 : (front \o after)[j] = after[j - (i + 1)]
    BY <1>2, <1>5
  <1>8. \A j \in i + 2 .. Len(s) + 1 : (front \o after)[j] = s[j - 1]
    <2> TAKE j \in i + 2 .. Len(s) + 1
    <2>1. j - (i + 1) \in 1 .. Len(s) - i /\ i + (j - (i + 1)) = j - 1
      OBVIOUS
    <2> QED BY <1>2, <1>7, <2>1
  <1>9. \A j \in 1 .. i : (front \o after)[j] = s[j]
    BY <1>5, <1>6
  <1>10. (front \o after)[i + 1] = e
    BY <1>5, <1>6
  <1>11. Inserted(S, s, i, e, front \o after)
    BY <1>6, <1>8, <1>9, <1>10, Zenon DEF Inserted
  <1> QED BY <1>5, <1>11, Zenon

---------------------------------------------------------------------------
(* The inductive invariant.                                                *)

\* No block is on the chain twice, so claiming bytes of one block leaves the
\* others alone; `used` stays below the capacity and on a boundary, except
\* where reset_to clamps it to the capacity.
BlocksOK ==
  /\ \A i, j \in 1 .. Len(chain) : chain[i] = chain[j] => i = j
  /\ \A i \in 1 .. Len(chain) : used[chain[i]] <= cap[chain[i]]
  /\ \A i \in 1 .. Len(chain) :
       used[chain[i]] % 16 = 0 \/ used[chain[i]] = cap[chain[i]]

\* The head is the block jsonv_arena_new made: nothing is inserted before it.
HeadOK ==
  /\ Exists => cur \in 1 .. Len(chain)
  /\ Exists => cap[HeadBlk] = cfg.default /\ BlockBytes(cfg.default) <= cfg.limit
  /\ ~Exists => live = {}

IInv ==
  /\ TypeOK
  /\ BlocksOK
  /\ HeadOK
  /\ LiveBacked
  /\ LiveDisjoint
  /\ LiveAligned
  /\ ReservedWithinLimit

(* A process without an arena satisfies the invariant.                     *)
LEMMA InitIInv == Init => IInv
  <1> SUFFICES ASSUME Init PROVE IInv
    OBVIOUS
  <1>1. TypeOK
    BY WordAssumption DEF Init, TypeOK, Errors, Results, Header, Align
  <1>2. BlocksOK /\ HeadOK /\ LiveBacked /\ LiveDisjoint /\ LiveAligned /\ ReservedWithinLimit
    BY DEF Init, BlocksOK, HeadOK, LiveBacked, LiveDisjoint, LiveAligned,
           ReservedWithinLimit, Exists
  <1> QED BY <1>1, <1>2 DEF IInv

(* jsonv_arena_new makes a chain of one empty block.                       *)
LEMMA NewCreatesStep ==
  ASSUME IInv, NEW b \in FreeBlocks, NewCreates(b)
  PROVE  IInv'
  <1> USE WordFacts, ConfigAssumption
  <1>0. b \in BlockId /\ cfg.default \in 0 .. Word - 1 /\ cfg.limit \in 0 .. Word - 1
    BY DEF FreeBlocks, IInv, TypeOK
  <1>1. chain' = <<b>> /\ Len(chain') = 1 /\ chain'[1] = b
    BY DEF NewCreates
  <1>2. live = {} /\ live' = {} /\ cfg' = cfg
    BY DEF NewCreates, IInv, HeadOK
  <1>3. /\ BlockBytes(cfg.default) <= cfg.limit
        /\ BlockBytes(cfg.default) \in 0 .. Word - 1
        /\ reserved' = BlockBytes(cfg.default)
        /\ used'[b] = 0 /\ cap'[b] = cfg.default
    BY <1>0 DEF NewCreates, NewOverflows, NewTooLarge, BlockBytes, Header, IInv, TypeOK
  <1>4. TypeOK'
    <2>1. chain' \in Seq(BlockId) /\ cur' \in 0 .. Len(chain')
      BY <1>0, <1>1 DEF NewCreates
    <2>2. cap' \in [BlockId -> 0 .. Word - 1] /\ used' \in [BlockId -> 0 .. Word - 1]
      BY <1>0 DEF NewCreates, IInv, TypeOK
    <2> QED BY <1>2, <1>3, <2>1, <2>2 DEF TypeOK, NewCreates, Errors, Results, IInv
  <1>5. BlocksOK'
    BY <1>0, <1>1, <1>3 DEF BlocksOK
  <1>6. HeadOK'
    BY <1>1, <1>2, <1>3 DEF HeadOK, HeadBlk, Exists, NewCreates, BlockBytes
  <1>7. LiveBacked' /\ LiveDisjoint' /\ LiveAligned'
    BY <1>2 DEF LiveBacked, LiveDisjoint, LiveAligned
  <1>8. ReservedWithinLimit'
    BY <1>2, <1>3 DEF ReservedWithinLimit
  <1> QED BY <1>4, <1>5, <1>6, <1>7, <1>8 DEF IInv

(* A region is claimed at the end of `current`.                            *)
LEMMA AllocCurrentStep ==
  ASSUME IInv, NEW size \in Sizes, AllocCurrent(size)
  PROVE  IInv'
  <1> USE WordFacts, SizesAssumption
  <1> DEFINE a == AlignUp(size)
             off == used[Current]
             new == [blk |-> Current, off |-> off, len |-> size]
  <1>1. a \in 0 .. Word - 1 /\ a % 16 = 0 /\ a >= size /\ size \in 0 .. Word - 1
    BY AlignUpFacts DEF AllocCurrent
  <1>2. /\ cur \in 1 .. Len(chain) /\ Current \in BlockId /\ chain \in Seq(BlockId)
        /\ off \in 0 .. Word - 1 /\ cap[Current] \in 0 .. Word - 1
        /\ off + a <= cap[Current] /\ off + a \in 0 .. Word - 1
    <2>1. cur \in 1 .. Len(chain) /\ chain \in Seq(BlockId)
      BY DEF AllocCurrent, IInv, TypeOK, HeadOK
    <2>2. Current \in BlockId
      BY <2>1 DEF Current
    <2>3. off \in 0 .. Word - 1 /\ cap[Current] \in 0 .. Word - 1
      BY <2>2 DEF IInv, TypeOK
    <2>4. off <= cap[Current] - a
      BY DEF AllocCurrent, FitsCurrent
    <2> QED BY <1>1, <2>1, <2>2, <2>3, <2>4
  <1>3. /\ chain' = chain /\ cap' = cap /\ cur' = cur /\ reserved' = reserved /\ cfg' = cfg
        /\ used' = [used EXCEPT ![Current] = off + a]
        /\ live' = live \cup {new}
        /\ lastError' = "OK" /\ ret' = "ptr"
    BY DEF AllocCurrent, Return
  <1> HIDE DEF a, off
  <1>4. /\ used'[Current] = off + a /\ off = used[Current]
        /\ \A b \in BlockId : b # Current => used'[b] = used[b]
        /\ used \in [BlockId -> 0 .. Word - 1]
    BY <1>2, <1>3 DEF IInv, TypeOK, off
  <1>5. TypeOK'
    <2>1. used' \in [BlockId -> 0 .. Word - 1]
      BY <1>1, <1>2, <1>3, <1>4
    <2>2. live' \subseteq [blk : BlockId, off : 0 .. Word - 1, len : 0 .. Word - 1]
      <3>1. new \in [blk : BlockId, off : 0 .. Word - 1, len : 0 .. Word - 1]
        BY <1>1, <1>2
      <3>2. live \subseteq [blk : BlockId, off : 0 .. Word - 1, len : 0 .. Word - 1]
        BY DEF IInv, TypeOK
      <3> HIDE DEF new
      <3> QED BY <1>3, <3>1, <3>2, Zenon
    <2> QED BY <1>3, <2>1, <2>2 DEF IInv, TypeOK, Errors, Results
  <1>6. BlocksOK'
    <2>1. \A i, j \in 1 .. Len(chain') : chain'[i] = chain'[j] => i = j
      BY <1>3 DEF IInv, BlocksOK
    <2>2. ASSUME NEW i \in 1 .. Len(chain)
          PROVE  /\ used'[chain[i]] <= cap[chain[i]]
                 /\ used'[chain[i]] % 16 = 0 \/ used'[chain[i]] = cap[chain[i]]
      <3>1. CASE chain[i] = Current
        <4>1. off % 16 = 0 \/ off = cap[Current]
          BY <1>4, <3>1 DEF IInv, BlocksOK
        <4>2. off + a = cap[Current] \/ (off + a) % 16 = 0
          BY <1>1, <1>2, <4>1
        <4> QED BY <1>2, <1>4, <3>1, <4>2
      <3>2. CASE chain[i] # Current
        BY <1>2, <1>4, <3>2 DEF IInv, BlocksOK
      <3> QED BY <3>1, <3>2
    <2> QED BY <1>3, <2>1, <2>2 DEF BlocksOK
  <1>7. HeadOK'
    BY <1>2, <1>3 DEF IInv, HeadOK, HeadBlk, Exists
  <1>8. LiveBacked'
    <2>1. ASSUME NEW r \in live
          PROVE  \E i \in 1 .. cur : /\ chain[i] = r.blk
                                     /\ r.off + r.len <= used'[r.blk]
                                     /\ used'[r.blk] <= cap[r.blk]
      <3>1. PICK i \in 1 .. cur : /\ chain[i] = r.blk
                                  /\ r.off + r.len <= used[r.blk]
                                  /\ used[r.blk] <= cap[r.blk]
        BY DEF IInv, LiveBacked
      <3>2. /\ r.off \in 0 .. Word - 1 /\ r.len \in 0 .. Word - 1 /\ r.blk \in BlockId
        BY DEF IInv, TypeOK
      <3>3. r.off + r.len <= used'[r.blk] /\ used'[r.blk] <= cap[r.blk]
        <4>1. CASE r.blk = Current
          <5>1. used'[r.blk] = off + a /\ used[r.blk] = off /\ cap[r.blk] = cap[Current]
            BY <1>4, <4>1
          <5>2. r.off + r.len <= off /\ off + a <= cap[Current]
            BY <1>2, <3>1, <5>1
          <5>3. r.off + r.len <= off + a
            BY <1>1, <1>2, <3>2, <5>2
          <5> QED BY <5>1, <5>2, <5>3
        <4>2. CASE r.blk # Current
          BY <1>4, <3>1, <3>2, <4>2
        <4> QED BY <4>1, <4>2
      <3> QED BY <3>1, <3>3
    <2>2. /\ chain[cur] = new.blk
          /\ new.off + new.len <= used'[new.blk]
          /\ used'[new.blk] <= cap[new.blk]
      <3>1. new.blk = Current /\ new.off = off /\ new.len = size /\ chain[cur] = Current
        BY DEF Current
      <3>2. off + size <= off + a
        BY <1>1, <1>2
      <3> QED BY <1>2, <1>4, <3>1, <3>2
    <2> QED BY <1>2, <1>3, <2>1, <2>2 DEF LiveBacked
  <1>9. LiveDisjoint'
    <2>1. ASSUME NEW r \in live
          PROVE  ~Regions!Overlap(r, new) /\ ~Regions!Overlap(new, r)
      <3>1. r.blk = Current => r.off + r.len <= off
        BY <1>4 DEF IInv, LiveBacked
      <3>2. r.off \in 0 .. Word - 1 /\ r.len \in 0 .. Word - 1
        BY DEF IInv, TypeOK
      <3> QED BY <1>1, <1>2, <3>1, <3>2 DEF Regions!Overlap
    <2> QED BY <1>3, <2>1 DEF IInv, LiveDisjoint
  <1>10. LiveAligned'
    <2>1. new.len > 0 => new.off % 16 = 0
      <3>1. off % 16 = 0 \/ off = cap[Current]
        BY <1>2, <1>4 DEF IInv, BlocksOK, Current
      <3> QED BY <1>1, <1>2, <3>1
    <2> QED BY <1>3, <2>1 DEF IInv, LiveAligned, Align
  <1>11. ReservedWithinLimit'
    BY <1>3 DEF IInv, ReservedWithinLimit, Exists
  <1> QED BY <1>5, <1>6, <1>7, <1>8, <1>9, <1>10, <1>11 DEF IInv

(* A region is claimed at the start of the block after `current`.          *)
LEMMA AllocRecycleStep ==
  ASSUME IInv, NEW size \in Sizes, AllocRecycle(size)
  PROVE  IInv'
  <1> USE WordFacts, SizesAssumption
  <1> DEFINE a == AlignUp(size)
             b == chain[cur + 1]
             new == [blk |-> b, off |-> 0, len |-> size]
  <1>1. a \in 0 .. Word - 1 /\ a % 16 = 0 /\ a >= size /\ size \in 0 .. Word - 1
    BY AlignUpFacts DEF AllocRecycle, Grows
  <1>2. /\ cur \in 1 .. Len(chain) /\ cur + 1 \in 1 .. Len(chain) /\ chain \in Seq(BlockId)
        /\ b \in BlockId /\ cap[b] \in 0 .. Word - 1 /\ a <= cap[b]
    <2>1. cur \in 1 .. Len(chain) /\ chain \in Seq(BlockId)
      BY DEF AllocRecycle, Grows, IInv, TypeOK, HeadOK
    <2>2. cur < Len(chain) /\ a <= cap[b]
      BY DEF AllocRecycle, Recyclable
    <2>3. cur + 1 \in 1 .. Len(chain) /\ b \in BlockId
      BY <2>1, <2>2
    <2> QED BY <2>1, <2>2, <2>3 DEF IInv, TypeOK
  <1>3. /\ chain' = chain /\ cap' = cap /\ cur' = cur + 1 /\ reserved' = reserved /\ cfg' = cfg
        /\ used' = [used EXCEPT ![b] = a]
        /\ live' = live \cup {new}
        /\ lastError' = "OK" /\ ret' = "ptr"
    BY DEF AllocRecycle, Return
  <1>4. \A i \in 1 .. cur : chain[i] # b
    BY <1>2 DEF IInv, BlocksOK
  <1> HIDE DEF a
  <1>5. /\ used'[b] = a
        /\ \A c \in BlockId : c # b => used'[c] = used[c]
        /\ \A r \in live : r.blk # b
    BY <1>2, <1>3, <1>4 DEF IInv, TypeOK, LiveBacked
  <1>6. TypeOK'
    <2>1. used' \in [BlockId -> 0 .. Word - 1]
      BY <1>1, <1>2, <1>3 DEF IInv, TypeOK
    <2>2. live' \subseteq [blk : BlockId, off : 0 .. Word - 1, len : 0 .. Word - 1]
      <3>1. new \in [blk : BlockId, off : 0 .. Word - 1, len : 0 .. Word - 1]
        BY <1>1, <1>2
      <3>2. live \subseteq [blk : BlockId, off : 0 .. Word - 1, len : 0 .. Word - 1]
        BY DEF IInv, TypeOK
      <3> HIDE DEF new
      <3> QED BY <1>3, <3>1, <3>2, Zenon
    <2>3. cur' \in 0 .. Len(chain')
      BY <1>2, <1>3
    <2> QED BY <1>3, <2>1, <2>2, <2>3 DEF IInv, TypeOK, Errors, Results
  <1>7. BlocksOK'
    <2>1. ASSUME NEW i \in 1 .. Len(chain)
          PROVE  /\ used'[chain[i]] <= cap[chain[i]]
                 /\ used'[chain[i]] % 16 = 0 \/ used'[chain[i]] = cap[chain[i]]
      <3>1. CASE chain[i] = b
        BY <1>1, <1>2, <1>5, <3>1
      <3>2. CASE chain[i] # b
        BY <1>2, <1>5, <3>2 DEF IInv, BlocksOK
      <3> QED BY <3>1, <3>2
    <2> QED BY <1>3, <2>1 DEF IInv, BlocksOK
  <1>8. HeadOK'
    BY <1>2, <1>3 DEF IInv, HeadOK, HeadBlk, Exists
  <1> HIDE DEF b
  <1>9. LiveBacked'
    <2>1. ASSUME NEW r \in live
          PROVE  \E i \in 1 .. cur + 1 : /\ chain[i] = r.blk
                                         /\ r.off + r.len <= used'[r.blk]
                                         /\ used'[r.blk] <= cap[r.blk]
      <3>1. PICK i \in 1 .. cur : /\ chain[i] = r.blk
                                  /\ r.off + r.len <= used[r.blk]
                                  /\ used[r.blk] <= cap[r.blk]
        BY DEF IInv, LiveBacked
      <3>2. r.blk \in BlockId
        BY DEF IInv, TypeOK
      <3> QED BY <1>2, <1>5, <3>1, <3>2
    <2>2. /\ chain[cur + 1] = new.blk
          /\ new.off + new.len <= used'[new.blk]
          /\ used'[new.blk] <= cap[new.blk]
      BY <1>1, <1>2, <1>5 DEF b
    <2> QED BY <1>2, <1>3, <2>1, <2>2 DEF LiveBacked
  <1>10. LiveDisjoint'
    <2>1. \A r \in live : ~Regions!Overlap(r, new) /\ ~Regions!Overlap(new, r)
      BY <1>5 DEF Regions!Overlap
    <2> QED BY <1>3, <2>1 DEF IInv, LiveDisjoint
  <1>11. LiveAligned'
    BY <1>3 DEF IInv, LiveAligned, Align
  <1>12. ReservedWithinLimit'
    BY <1>3 DEF IInv, ReservedWithinLimit, Exists
  <1> QED BY <1>6, <1>7, <1>8, <1>9, <1>10, <1>11, <1>12 DEF IInv

(* A block is made and put after `current`; the region is its first part.  *)
LEMMA AllocCreatesStep ==
  ASSUME IInv, NEW size \in Sizes, NEW b \in FreeBlocks, AllocCreates(size, b)
  PROVE  IInv'
  <1> USE WordFacts, SizesAssumption
  <1> DEFINE a == AlignUp(size)
             c == NewCapacity(a)
             bytes == BlockBytes(c)
             new == [blk |-> b, off |-> 0, len |-> size]
  <1>1. a \in 0 .. Word - 1 /\ a % 16 = 0 /\ a >= size /\ size \in 0 .. Word - 1
    BY AlignUpFacts DEF AllocCreates, Grows
  <1>2. /\ cur \in 1 .. Len(chain) /\ chain \in Seq(BlockId) /\ b \in BlockId
        /\ \A i \in 1 .. Len(chain) : chain[i] # b
    <2>1. cur \in 1 .. Len(chain) /\ chain \in Seq(BlockId)
      BY DEF AllocCreates, Grows, IInv, TypeOK, HeadOK
    <2> QED BY <2>1 DEF FreeBlocks, ToSet
  <1>3. /\ cfg.default \in 0 .. Word - 1 /\ cfg.limit \in 0 .. Word - 1
        /\ reserved \in 0 .. Word - 1
    BY ConfigAssumption DEF IInv, TypeOK
  <1>4. c \in 0 .. Word - 1 /\ a <= c /\ bytes \in 0 .. Word - 1
    <2>1. c \in Nat /\ a <= c
      BY <1>1, <1>3 DEF NewCapacity
    <2>2. ~(c > Word - 1 - Header)
      BY DEF AllocCreates, Grows, GrowthOverflows
    <2> QED BY <2>1, <2>2 DEF BlockBytes, Header
  <1>5. /\ chain' = InsertAt(chain, cur + 1, b) /\ cur' = cur + 1 /\ cfg' = cfg
        /\ cap' = [cap EXCEPT ![b] = c]
        /\ used' = [used EXCEPT ![b] = a]
        /\ reserved' = (reserved + bytes) % Word
        /\ live' = live \cup {new}
        /\ lastError' = "OK" /\ ret' = "ptr"
    BY DEF AllocCreates, Return
  <1>6. /\ chain' \in Seq(BlockId)
        /\ Len(chain') = Len(chain) + 1
        /\ \A i \in 1 .. cur : chain'[i] = chain[i]
        /\ chain'[cur + 1] = b
        /\ \A i \in cur + 2 .. Len(chain) + 1 : chain'[i] = chain[i - 1]
    <2>1. cur \in 0 .. Len(chain)
      BY <1>2
    <2>2. chain \in Seq(BlockId)
      BY <1>2
    <2>3. b \in BlockId
      BY <1>2
    <2>4. Inserted(BlockId, chain, cur, b, InsertAt(chain, cur + 1, b))
      BY <2>1, <2>2, <2>3, InsertAtFacts, Zenon
    <2> QED BY <1>5, <2>4, Zenon DEF Inserted
  <1>7. ~(reserved > (cfg.limit - bytes) % Word)
    BY DEF AllocCreates, Grows, LimitReached, Minus
  <1> HIDE DEF a, c, bytes
  <1>8. /\ used'[b] = a /\ cap'[b] = c
        /\ \A d \in BlockId : d # b => used'[d] = used[d] /\ cap'[d] = cap[d]
        /\ \A r \in live : r.blk # b
    <2>1. \A r \in live : r.blk # b
      BY <1>2 DEF IInv, LiveBacked
    <2> QED BY <1>2, <1>5, <2>1 DEF IInv, TypeOK
  <1>9. TypeOK'
    <2>1. used' \in [BlockId -> 0 .. Word - 1] /\ cap' \in [BlockId -> 0 .. Word - 1]
      BY <1>1, <1>2, <1>4, <1>5 DEF IInv, TypeOK
    <2>2. live' \subseteq [blk : BlockId, off : 0 .. Word - 1, len : 0 .. Word - 1]
      <3>1. new \in [blk : BlockId, off : 0 .. Word - 1, len : 0 .. Word - 1]
        BY <1>1, <1>2
      <3>2. live \subseteq [blk : BlockId, off : 0 .. Word - 1, len : 0 .. Word - 1]
        BY DEF IInv, TypeOK
      <3> HIDE DEF new
      <3> QED BY <1>5, <3>1, <3>2, Zenon
    <2>3. cur' \in 0 .. Len(chain')
      BY <1>2, <1>5, <1>6
    <2>4. reserved' \in 0 .. Word - 1
      BY <1>3, <1>4, <1>5, ModRange
    <2> QED BY <1>5, <1>6, <2>1, <2>2, <2>3, <2>4 DEF IInv, TypeOK, Errors, Results
  \* Each block of the new chain is the new one or one of the old chain.
  <1>10. ASSUME NEW i \in 1 .. Len(chain')
         PROVE  \/ i = cur + 1 /\ chain'[i] = b
                \/ i \in 1 .. cur /\ chain'[i] = chain[i]
                \/ i \in cur + 2 .. Len(chain) + 1 /\ i - 1 \in 1 .. Len(chain)
                     /\ chain'[i] = chain[i - 1]
    BY <1>2, <1>6
  <1>11. BlocksOK'
    <2>1. ASSUME NEW i \in 1 .. Len(chain'), NEW j \in 1 .. Len(chain'), chain'[i] = chain'[j]
          PROVE  i = j
      <3> DEFINE old(k) == IF k \in 1 .. cur THEN k ELSE k - 1
      <3>1. CASE chain'[i] = b
        <4> SUFFICES ASSUME NEW k \in 1 .. Len(chain'), chain'[k] = b
                     PROVE  k = cur + 1
          BY <2>1, <3>1
        <4>1. \A i1 \in 1 .. cur : i1 \in 1 .. Len(chain)
          BY <1>2
        <4>2. ~(k \in 1 .. cur /\ chain'[k] = chain[k])
          BY <1>2, <4>1, Zenon
        <4>3. ~(k - 1 \in 1 .. Len(chain) /\ chain'[k] = chain[k - 1])
          BY <1>2, Zenon
        <4> QED BY <1>10, <4>2, <4>3, Zenon
      <3>2. CASE chain'[i] # b
        <4>1. /\ i # cur + 1 /\ j # cur + 1
              /\ old(i) \in 1 .. Len(chain) /\ chain'[i] = chain[old(i)]
              /\ old(j) \in 1 .. Len(chain) /\ chain'[j] = chain[old(j)]
          BY <1>2, <1>6, <1>10, <2>1, <3>2
        <4>2. old(i) = old(j)
          BY <2>1, <4>1 DEF IInv, BlocksOK
        <4> QED BY <1>2, <1>6, <4>1, <4>2
      <3> QED BY <3>1, <3>2
    <2>2. ASSUME NEW i \in 1 .. Len(chain')
          PROVE  /\ used'[chain'[i]] <= cap'[chain'[i]]
                 /\ used'[chain'[i]] % 16 = 0 \/ used'[chain'[i]] = cap'[chain'[i]]
      <3>1. CASE chain'[i] = b
        BY <1>1, <1>4, <1>8, <3>1
      <3>2. CASE chain'[i] # b
        <4>1. PICK k \in 1 .. Len(chain) : chain'[i] = chain[k]
          BY <1>2, <1>10, <3>2
        <4> QED BY <1>2, <1>8, <3>2, <4>1 DEF IInv, BlocksOK
      <3> QED BY <3>1, <3>2
    <2> QED BY <2>1, <2>2 DEF BlocksOK
  <1>12. HeadOK'
    <2>1. chain'[1] = chain[1] /\ chain' # <<>> /\ cur' \in 1 .. Len(chain')
      BY <1>2, <1>5, <1>6
    <2>2. cap'[chain[1]] = cap[chain[1]]
      BY <1>2, <1>8
    <2>3. chain # <<>>
      BY <1>2
    <2> QED BY <1>5, <2>1, <2>2, <2>3 DEF IInv, HeadOK, HeadBlk, Exists
  <1>13. LiveBacked'
    <2>1. ASSUME NEW r \in live
          PROVE  \E i \in 1 .. cur + 1 : /\ chain'[i] = r.blk
                                         /\ r.off + r.len <= used'[r.blk]
                                         /\ used'[r.blk] <= cap'[r.blk]
      <3>1. PICK i \in 1 .. cur : /\ chain[i] = r.blk
                                  /\ r.off + r.len <= used[r.blk]
                                  /\ used[r.blk] <= cap[r.blk]
        BY DEF IInv, LiveBacked
      <3>2. r.blk \in BlockId
        BY DEF IInv, TypeOK
      <3> QED BY <1>2, <1>6, <1>8, <3>1, <3>2
    <2>2. /\ chain'[cur + 1] = new.blk
          /\ new.off + new.len <= used'[new.blk]
          /\ used'[new.blk] <= cap'[new.blk]
      <3>1. new.blk = b /\ new.off = 0 /\ new.len = size
        OBVIOUS
      <3>2. 0 + size <= a /\ a <= c
        BY <1>1, <1>4
      <3> QED BY <1>6, <1>8, <3>1, <3>2
    <2> QED BY <1>2, <1>5, <2>1, <2>2 DEF LiveBacked
  <1>14. LiveDisjoint'
    <2>1. \A r \in live : ~Regions!Overlap(r, new) /\ ~Regions!Overlap(new, r)
      BY <1>8 DEF Regions!Overlap
    <2> QED BY <1>5, <2>1 DEF IInv, LiveDisjoint
  <1>15. LiveAligned'
    BY <1>5 DEF IInv, LiveAligned, Align
  <1>16. ReservedWithinLimit'
    <2> SUFFICES ASSUME \A i \in 1 .. Len(chain') : BlockBytes(cap'[chain'[i]]) <= cfg.limit
                 PROVE  reserved' <= cfg.limit
      BY <1>5 DEF ReservedWithinLimit
    <2>1. bytes <= cfg.limit
      BY <1>2, <1>6, <1>8 DEF bytes
    <2>2. reserved + bytes <= cfg.limit
      <3>1. cfg.limit - bytes \in 0 .. Word - 1
        BY <1>3, <1>4, <2>1
      <3>2. (cfg.limit - bytes) % Word = cfg.limit - bytes
        BY <3>1, ModSmall, Zenon
      <3> QED BY <1>3, <1>4, <1>7, <3>2
    <2>3. (reserved + bytes) % Word = reserved + bytes
      <3>1. reserved + bytes \in 0 .. Word - 1
        BY <1>3, <1>4, <2>2
      <3> QED BY <3>1, ModSmall, Zenon
    <2> QED BY <1>5, <2>2, <2>3
  <1> QED BY <1>9, <1>11, <1>12, <1>13, <1>14, <1>15, <1>16 DEF IInv

(* A reset keeps the head, and of the regions those in its kept prefix.    *)
LEMMA ResetToStep ==
  ASSUME IInv, NEW keep \in Keeps, ResetTo(keep)
  PROVE  IInv'
  <1> USE WordFacts
  <1> DEFINE h == HeadBlk
             u == ResetUsed(keep)
             kept == {r \in live : r.blk = h /\ r.off + r.len <= keep}
  <1>1. /\ keep \in 0 .. Word - 1 /\ keep <= AlignUp(keep)
        /\ AlignUp(keep) \in 0 .. Word - 1 /\ AlignUp(keep) % 16 = 0
    <2>1. keep \in 0 .. Word - 16 /\ keep \in 0 .. Word - 1
      BY KeepsAssumption DEF Align
    <2>2. ~AlignOverflows(keep)
      BY <2>1 DEF AlignOverflows, AlignUp, Align
    <2> QED BY <2>1, <2>2, AlignUpFacts
  <1>2. /\ cur \in 1 .. Len(chain) /\ chain \in Seq(BlockId) /\ 1 \in 1 .. Len(chain)
        /\ h = chain[1] /\ h \in BlockId
    <2>1. cur \in 1 .. Len(chain) /\ chain \in Seq(BlockId)
      BY DEF ResetTo, IInv, TypeOK, HeadOK
    <2> QED BY <2>1 DEF HeadBlk
  <1>3. cap[h] \in 0 .. Word - 1 /\ used[h] \in 0 .. Word - 1 /\ used[h] <= cap[h]
    BY <1>2 DEF IInv, TypeOK, BlocksOK
  <1>4. /\ u \in 0 .. Word - 1
        /\ u <= cap[h]
        /\ u % 16 = 0 \/ u = cap[h]
        /\ u = cap[h] \/ keep <= u
    BY <1>1, <1>3 DEF ResetUsed
  <1> HIDE DEF h, u
  <1>5. /\ cur' = 1 /\ live' = kept /\ cfg' = cfg /\ lastError' = "OK" /\ ret' = "void"
        /\ \/ /\ chain' = <<h>>
              /\ cap' = [b \in BlockId |-> IF b = h THEN cap[b] ELSE 0]
              /\ used' = [[b \in BlockId |-> IF b = h THEN used[b] ELSE 0] EXCEPT ![h] = u]
              /\ reserved' = BlockBytes(cap[h])
           \/ /\ used' = [used EXCEPT ![h] = u]
              /\ chain' = chain /\ cap' = cap /\ reserved' = reserved
    BY DEF ResetTo, OnlyHead, h, u
  <1>6. /\ chain' \in Seq(BlockId) /\ Len(chain') >= 1 /\ chain'[1] = h
        /\ cap'[h] = cap[h] /\ used'[h] = u
        /\ cap' \in [BlockId -> 0 .. Word - 1] /\ used' \in [BlockId -> 0 .. Word - 1]
    <2>1. cap \in [BlockId -> 0 .. Word - 1] /\ used \in [BlockId -> 0 .. Word - 1]
      BY DEF IInv, TypeOK
    <2>2. CASE chain' = <<h>>
      <3>1. \/ /\ cap' = [b \in BlockId |-> IF b = h THEN cap[b] ELSE 0]
               /\ used' = [[b \in BlockId |-> IF b = h THEN used[b] ELSE 0] EXCEPT ![h] = u]
            \/ /\ cap' = cap
               /\ used' = [used EXCEPT ![h] = u]
        BY <1>5
      <3>2. chain' \in Seq(BlockId) /\ Len(chain') = 1 /\ chain'[1] = h
        BY <1>2, <2>2
      <3>3. /\ cap'[h] = cap[h] /\ used'[h] = u
            /\ cap' \in [BlockId -> 0 .. Word - 1] /\ used' \in [BlockId -> 0 .. Word - 1]
        <4>1. CASE /\ cap' = [b \in BlockId |-> IF b = h THEN cap[b] ELSE 0]
                   /\ used' = [[b \in BlockId |-> IF b = h THEN used[b] ELSE 0] EXCEPT ![h] = u]
          <5>1. /\ cap'[h] = cap[h] /\ used'[h] = u
                /\ \A b \in BlockId : b # h => cap'[b] = 0 /\ used'[b] = 0
            BY <1>2, <4>1
          <5>2. 0 \in 0 .. Word - 1
            OBVIOUS
          <5> QED BY <1>2, <1>3, <1>4, <4>1, <5>1, <5>2
        <4>2. CASE cap' = cap /\ used' = [used EXCEPT ![h] = u]
          BY <1>2, <1>4, <2>1, <4>2
        <4> QED BY <3>1, <4>1, <4>2
      <3> QED BY <3>2, <3>3
    <2>3. CASE used' = [used EXCEPT ![h] = u] /\ chain' = chain /\ cap' = cap
      BY <1>2, <1>3, <1>4, <2>1, <2>3
    <2> QED BY <1>5, <2>2, <2>3
  <1>7. cfg.default = cap[h] /\ BlockBytes(cfg.default) <= cfg.limit
        /\ cfg.limit \in 0 .. Word - 1 /\ BlockBytes(cfg.default) \in 0 .. Word - 1
    <2>1. cfg.default = cap[h] /\ BlockBytes(cfg.default) <= cfg.limit
      BY DEF ResetTo, IInv, HeadOK, h
    <2>2. cfg.limit \in 0 .. Word - 1
      BY ConfigAssumption DEF IInv, TypeOK
    <2> QED BY <1>3, <2>1, <2>2 DEF BlockBytes, Header
  <1>8. TypeOK'
    <2>1. cur' \in 0 .. Len(chain')
      BY <1>5, <1>6
    <2>2. reserved' \in 0 .. Word - 1
      BY <1>5, <1>7 DEF IInv, TypeOK
    <2>3. live' \subseteq [blk : BlockId, off : 0 .. Word - 1, len : 0 .. Word - 1]
      BY <1>5 DEF IInv, TypeOK
    <2> QED BY <1>5, <1>6, <2>1, <2>2, <2>3 DEF IInv, TypeOK, Errors, Results
  <1>9. BlocksOK'
    <2>1. CASE chain' = <<h>>
      BY <1>4, <1>6, <2>1 DEF BlocksOK
    <2>2. CASE used' = [used EXCEPT ![h] = u] /\ chain' = chain /\ cap' = cap
      <3>1. ASSUME NEW i \in 1 .. Len(chain)
            PROVE  /\ used'[chain[i]] <= cap[chain[i]]
                   /\ used'[chain[i]] % 16 = 0 \/ used'[chain[i]] = cap[chain[i]]
        <4>1. CASE chain[i] = h
          BY <1>4, <1>6, <4>1
        <4>2. CASE chain[i] # h
          <5>1. used'[chain[i]] = used[chain[i]]
            BY <1>2, <2>2, <4>2 DEF IInv, TypeOK
          <5> QED BY <5>1 DEF IInv, BlocksOK
        <4> QED BY <4>1, <4>2
      <3> QED BY <2>2, <3>1 DEF IInv, BlocksOK
    <2> QED BY <1>5, <2>1, <2>2
  <1>10. HeadOK'
    <2>1. chain' # <<>> /\ cur' \in 1 .. Len(chain')
      BY <1>5, <1>6
    <2> QED BY <1>5, <1>6, <1>7, <2>1 DEF HeadOK, HeadBlk, Exists
  <1>11. LiveBacked'
    <2> SUFFICES ASSUME NEW r \in kept
                 PROVE  /\ chain'[1] = r.blk
                        /\ r.off + r.len <= used'[r.blk]
                        /\ used'[r.blk] <= cap'[r.blk]
      BY <1>5 DEF LiveBacked
    <2>1. r \in live /\ r.blk = h /\ r.off + r.len <= keep
      OBVIOUS
    <2>2. r.off \in 0 .. Word - 1 /\ r.len \in 0 .. Word - 1
      BY <2>1 DEF IInv, TypeOK
    <2>3. r.off + r.len <= used[h]
      BY <2>1 DEF IInv, LiveBacked
    <2>4. r.off + r.len <= u
      BY <1>1, <1>3, <1>4, <2>1, <2>2, <2>3
    <2> QED BY <1>4, <1>6, <2>1, <2>4
  <1>12. LiveDisjoint' /\ LiveAligned'
    BY <1>5 DEF IInv, LiveDisjoint, LiveAligned
  <1>13. ReservedWithinLimit'
    BY <1>5, <1>7 DEF IInv, ReservedWithinLimit, ResetTo, Exists
  <1> QED BY <1>8, <1>9, <1>10, <1>11, <1>12, <1>13 DEF IInv

(* Destroying the arena, and the calls that leave its blocks alone.        *)
LEMMA DestroyStep ==
  ASSUME IInv, Destroy
  PROVE  IInv'
  <1> USE WordFacts
  <1>1. TypeOK'
    BY DEF IInv, TypeOK, Destroy, Errors, Results
  <1>2. BlocksOK' /\ HeadOK' /\ LiveBacked' /\ LiveDisjoint' /\ LiveAligned' /\ ReservedWithinLimit'
    BY DEF Destroy, BlocksOK, HeadOK, LiveBacked, LiveDisjoint, LiveAligned,
           ReservedWithinLimit, Exists
  <1> QED BY <1>1, <1>2 DEF IInv

(* A call that changes neither the blocks nor the regions keeps the        *)
(* invariant.                                                              *)
LEMMA QuietStep ==
  ASSUME IInv, UNCHANGED <<cfg, heap>>, lastError' \in Errors, ret' \in Results
  PROVE  IInv'
  <1>1. /\ cfg' = cfg /\ chain' = chain /\ cap' = cap /\ used' = used
        /\ cur' = cur /\ reserved' = reserved /\ live' = live
    BY DEF heap
  <1>2. TypeOK'
    BY <1>1 DEF IInv, TypeOK
  <1>3. BlocksOK' /\ HeadOK'
    BY <1>1 DEF IInv, BlocksOK, HeadOK, HeadBlk, Exists
  <1>4. LiveBacked' /\ LiveDisjoint' /\ LiveAligned' /\ ReservedWithinLimit'
    BY <1>1 DEF IInv, LiveBacked, LiveDisjoint, LiveAligned, ReservedWithinLimit, Exists
  <1> QED BY <1>2, <1>3, <1>4 DEF IInv

(* Every call of the interface keeps the invariant.                        *)
LEMMA NextIInv == IInv /\ [Next]_vars => IInv'
  <1> SUFFICES ASSUME IInv, [Next]_vars PROVE IInv'
    OBVIOUS
  <1>1. lastError \in Errors /\ ret \in Results
    BY DEF IInv, TypeOK
  <1>2. CASE NewRefused \/ NewRaises \/ NoArena
    BY <1>1, <1>2, QuietStep DEF NewRefused, NewRaises, NoArena, Errors, Results
  <1>3. ASSUME NEW b \in FreeBlocks, NewCreates(b) PROVE IInv'
    BY <1>3, NewCreatesStep
  <1>4. ASSUME NEW size \in Sizes, NEW raising \in BOOLEAN,
               AllocNoArena(raising) \/ AllocOverflow(size, raising) \/ AllocLimit(size, raising)
        PROVE  IInv'
    BY <1>4, QuietStep DEF AllocNoArena, AllocOverflow, AllocLimit, Refuse, Errors, Results
  <1>5. ASSUME NEW raising \in BOOLEAN, AllocNoArena(raising) PROVE IInv'
    BY <1>5, QuietStep DEF AllocNoArena, Refuse, Errors, Results
  <1>6. ASSUME NEW size \in Sizes, AllocCurrent(size) PROVE IInv'
    BY <1>6, AllocCurrentStep
  <1>7. ASSUME NEW size \in Sizes, AllocRecycle(size) PROVE IInv'
    BY <1>7, AllocRecycleStep
  <1>8. ASSUME NEW size \in Sizes, AllocRaises(size) PROVE IInv'
    BY <1>1, <1>8, QuietStep DEF AllocRaises, Results
  <1>9. ASSUME NEW size \in Sizes, NEW b \in FreeBlocks, AllocCreates(size, b) PROVE IInv'
    BY <1>9, AllocCreatesStep
  <1>10. ASSUME NEW keep \in Keeps, ResetTo(keep) PROVE IInv'
    BY <1>10, ResetToStep
  <1>11. CASE Destroy
    BY <1>11, DestroyStep
  <1>12. CASE UNCHANGED vars
    BY <1>1, <1>12, QuietStep DEF vars
  <1> QED BY <1>2, <1>3, <1>4, <1>5, <1>6, <1>7, <1>8, <1>9, <1>10, <1>11, <1>12 DEF Next

(* Every reachable state satisfies the inductive invariant.                *)
THEOREM InductiveInvariant == Spec => []IInv
  BY InitIInv, NextIInv, PTL DEF Spec

(* Arena fields keep their types: no size_t computation leaves its range.  *)
THEOREM TypeCorrect == Spec => []TypeOK
  BY InductiveInvariant, PTL DEF IInv

(* No byte is handed to two clients, for every block size, request size    *)
(* and sequence of resets.                                                 *)
THEOREM DisjointRegions == Spec => []LiveDisjoint
  BY InductiveInvariant, PTL DEF IInv

(* Every region a client holds is in the claimed part of a block that is   *)
(* on the chain and will not be claimed again.                             *)
THEOREM BackedRegions == Spec => []LiveBacked
  BY InductiveInvariant, PTL DEF IInv

(* Non-empty regions start on 16-byte boundaries of their block, whatever  *)
(* the default block size and the kept prefix.                             *)
THEOREM AlignedRegions == Spec => []LiveAligned
  BY InductiveInvariant, PTL DEF IInv

(* What clients hold is theirs alone, is still there, and is aligned.      *)
THEOREM PlacedRegions == Spec => []LivePlaced
  BY InductiveInvariant, PTL DEF IInv, LivePlaced

(* The ceiling holds whenever each block by itself fits under it: the      *)
(* wrap-around of max_limit - block_struct_size is the only way past it.   *)
THEOREM CeilingUnlessOversized == Spec => []ReservedWithinLimit
  BY InductiveInvariant, PTL DEF IInv

---------------------------------------------------------------------------
(* The memory accounted for is that of the chain.                          *)

(* The memory of a chain is what its definition says it is.                *)
LEMMA BytesUnfold ==
  ASSUME NEW blocks \in Seq(BlockId), NEW capacity \in [BlockId -> Nat]
  PROVE  /\ BytesOf(blocks, capacity) \in [0 .. Len(blocks) -> Nat]
         /\ BytesOf(blocks, capacity)[0] = 0
         /\ \A i \in 1 .. Len(blocks) :
              BytesOf(blocks, capacity)[i] =
                BytesOf(blocks, capacity)[i - 1] + BlockBytes(capacity[blocks[i]])
  <1> DEFINE N == Len(blocks)
             Is(f) == f = [i \in 0 .. N |->
                             IF i = 0 THEN 0 ELSE f[i - 1] + BlockBytes(capacity[blocks[i]])]
             up   == [i \in 1 .. N |-> i - 1]
             val  == [i \in 0 .. N |-> 0]
             step == [i \in 0 .. N |-> [x \in Nat |-> IF i = 0 THEN 0 ELSE x + BlockBytes(capacity[blocks[i]])]]
  <1>1. /\ N \in Nat
        /\ \A i \in 1 .. N : BlockBytes(capacity[blocks[i]]) \in Nat
    BY DEF BlockBytes, Header
  <1>2. PICK f : Recursion(f, N, {0}, val, up, step) /\ f \in [0 .. N -> Nat]
    <2>1. /\ N \in Nat
          /\ 0 \in {0}
          /\ \A i \in 1 .. N : i \notin {0} => up[i] \in 0 .. i - 1
          /\ \A i \in 0 .. N : i \in {0} => val[i] \in Nat
      BY <1>1
    <2>2. ASSUME NEW i \in 0 .. N
          PROVE  step[i] \in [Nat -> Nat]
      <3> DEFINE d == BlockBytes(capacity[blocks[i]])
      <3>1. i # 0 => d \in Nat
        BY <1>1
      <3>2. step[i] = [x \in Nat |-> IF i = 0 THEN 0 ELSE x + d]
        OBVIOUS
      <3> HIDE DEF d, step
      <3>3. CASE i = 0
        BY <3>2, <3>3
      <3>4. CASE i # 0
        <4>1. step[i] = [x \in Nat |-> x + d] /\ d \in Nat
          BY <3>1, <3>2, <3>4
        <4> QED
          BY <4>1
      <3> QED
        BY <3>3, <3>4
    <2> HIDE DEF N, up, val, step
    <2> QED
      BY <2>1, <2>2, RecursionExists
  <1>3. Is(f)
    <2>1. ASSUME NEW i \in 0 .. N
          PROVE  f[i] = IF i = 0 THEN 0 ELSE f[i - 1] + BlockBytes(capacity[blocks[i]])
      <3>1. f[i] = IF i \in {0} THEN val[i] ELSE step[i][f[up[i]]]
        <4> HIDE DEF N, up, val, step
        <4> QED
          BY <1>2 DEF Recursion
      <3>2. ASSUME i # 0 PROVE up[i] = i - 1 /\ f[i - 1] \in Nat
        <4>1. i \in 1 .. N /\ i - 1 \in 0 .. N
          BY <1>1, <3>2
        <4>2. up[i] = i - 1
          BY <4>1
        <4> HIDE DEF N
        <4> QED
          BY <1>2, <4>1, <4>2
      <3> QED
        BY <3>1, <3>2
    <2>2. f = [i \in 0 .. N |-> f[i]]
      BY <1>2
    <2> QED
      BY <2>1, <2>2
  <1> DEFINE bytes == BytesOf(blocks, capacity)
  <1>4. Is(bytes)
    <2>1. bytes = CHOOSE g : Is(g)
      BY DEF BytesOf
    <2>2. Is(CHOOSE g : Is(g))
      <3> HIDE DEF Is
      <3> QED
        BY <1>3
    <2> QED
      BY <2>1, <2>2
  <1> HIDE DEF bytes, N
  <1>5. /\ bytes = [i \in 0 .. N |-> bytes[i]]
        /\ bytes[0] = 0
        /\ \A i \in 1 .. N : bytes[i] = bytes[i - 1] + BlockBytes(capacity[blocks[i]])
    <2>1. bytes = [i \in 0 .. N |-> IF i = 0 THEN 0 ELSE bytes[i - 1] + BlockBytes(capacity[blocks[i]])]
      BY <1>4
    <2>2. \A i \in 0 .. N : bytes[i] = IF i = 0 THEN 0 ELSE bytes[i - 1] + BlockBytes(capacity[blocks[i]])
      BY <2>1
    <2>3. bytes = [i \in 0 .. N |-> bytes[i]]
      BY <2>1
    <2>4. 0 \in 0 .. N /\ \A i \in 1 .. N : i \in 0 .. N /\ i # 0
      BY <1>1
    <2>5. bytes[0] = 0
      BY <2>2, <2>4
    <2>6. \A i \in 1 .. N : bytes[i] = bytes[i - 1] + BlockBytes(capacity[blocks[i]])
      BY <2>2, <2>4
    <2> QED
      BY <2>3, <2>5, <2>6
  <1>6. \A i \in 0 .. N : bytes[i] \in Nat
    <2> DEFINE T == {i \in 0 .. N : bytes[i] \notin Nat}
    <2> SUFFICES ASSUME T # {} PROVE FALSE
      OBVIOUS
    <2>1. PICK i \in T : \A j \in T : i <= j
      <3>1. T \subseteq Nat
        OBVIOUS
      <3> HIDE DEF T
      <3> QED
        BY <3>1, LeastNat
    <2>2. i \in 1 .. N /\ i - 1 \in 0 .. N /\ bytes[i] \notin Nat
      BY <1>1, <1>5, <2>1
    <2>3. bytes[i - 1] \in Nat
      BY <2>1, <2>2
    <2>4. BlockBytes(capacity[blocks[i]]) \in Nat
      BY <1>1, <2>2
    <2>5. bytes[i] = bytes[i - 1] + BlockBytes(capacity[blocks[i]])
      BY <1>5, <2>2
    <2> QED
      BY <2>2, <2>3, <2>4, <2>5
  <1>7. bytes \in [0 .. N -> Nat]
    BY <1>5, <1>6
  <1> QED
    BY <1>5, <1>7 DEF bytes, N

(* Chains that agree on their first blocks have the same memory there.     *)
LEMMA BytesAgree ==
  ASSUME NEW blocks \in Seq(BlockId), NEW capacity \in [BlockId -> Nat],
         NEW blocks2 \in Seq(BlockId), NEW capacity2 \in [BlockId -> Nat],
         NEW n \in Nat, n <= Len(blocks), n <= Len(blocks2),
         \A i \in 1 .. n : capacity2[blocks2[i]] = capacity[blocks[i]]
  PROVE  \A i \in 0 .. n : BytesOf(blocks2, capacity2)[i] = BytesOf(blocks, capacity)[i]
  <1> DEFINE one == BytesOf(blocks, capacity)
             two == BytesOf(blocks2, capacity2)
             T == {i \in 0 .. n : two[i] # one[i]}
  <1>1. /\ one[0] = 0 /\ \A i \in 1 .. n : one[i] = one[i - 1] + BlockBytes(capacity[blocks[i]])
        /\ two[0] = 0 /\ \A i \in 1 .. n : two[i] = two[i - 1] + BlockBytes(capacity2[blocks2[i]])
    <2>1. \A i \in 1 .. n : i \in 1 .. Len(blocks) /\ i \in 1 .. Len(blocks2)
      OBVIOUS
    <2> QED
      BY <2>1, BytesUnfold, Zenon
  <1> HIDE DEF one, two
  <1> SUFFICES ASSUME T # {} PROVE FALSE
    BY DEF one, two
  <1>2. PICK i \in T : \A j \in T : i <= j
    <2>1. T \subseteq Nat
      OBVIOUS
    <2> HIDE DEF T
    <2> QED
      BY <2>1, LeastNat
  <1>3. i \in 1 .. n /\ i - 1 \in 0 .. n /\ two[i] # one[i]
    BY <1>1, <1>2
  <1>4. two[i - 1] = one[i - 1]
    BY <1>2, <1>3
  <1> QED
    BY <1>1, <1>3, <1>4

(* A block put into a chain adds its own memory.                           *)
LEMMA BytesInserted ==
  ASSUME NEW blocks \in Seq(BlockId), NEW capacity \in [BlockId -> Nat],
         NEW blocks2 \in Seq(BlockId), NEW capacity2 \in [BlockId -> Nat],
         NEW n \in 0 .. Len(blocks), NEW b \in BlockId,
         Inserted(BlockId, blocks, n, b, blocks2),
         \A i \in 1 .. Len(blocks) : capacity2[blocks[i]] = capacity[blocks[i]]
  PROVE  BytesOf(blocks2, capacity2)[Len(blocks2)] =
           BytesOf(blocks, capacity)[Len(blocks)] + BlockBytes(capacity2[b])
  <1> DEFINE one == BytesOf(blocks, capacity)
             two == BytesOf(blocks2, capacity2)
             N == Len(blocks)
             T == {i \in n .. N : two[i + 1] # one[i] + BlockBytes(capacity2[b])}
  <1>0. N \in Nat /\ n \in 0 .. N
    OBVIOUS
  <1>1. /\ Len(blocks2) = N + 1
        /\ \A i \in 1 .. n : blocks2[i] = blocks[i]
        /\ blocks2[n + 1] = b
        /\ \A i \in n + 2 .. N + 1 : blocks2[i] = blocks[i - 1]
    BY Zenon DEF Inserted
  <1>2. /\ one \in [0 .. N -> Nat]
        /\ \A i \in 1 .. N : one[i] = one[i - 1] + BlockBytes(capacity[blocks[i]])
    BY BytesUnfold, Zenon
  <1>2a. \A i \in 1 .. N + 1 : two[i] = two[i - 1] + BlockBytes(capacity2[blocks2[i]])
    <2>1. \A i \in 1 .. Len(blocks2) : two[i] = two[i - 1] + BlockBytes(capacity2[blocks2[i]])
      BY BytesUnfold, Zenon
    <2> QED
      BY <1>1, <2>1, Zenon
  <1>3. two[n] = one[n]
    <2>1. \A i \in 1 .. n : capacity2[blocks2[i]] = capacity[blocks[i]]
      <3>1. \A i \in 1 .. n : i \in 1 .. N
        BY <1>0
      <3> HIDE DEF one, two, T
      <3> QED
        BY <1>1, <3>1
    <2>2. n <= N /\ n <= Len(blocks2) /\ n \in Nat /\ n \in 0 .. n
      <3> HIDE DEF one, two, T, N
      <3> QED
        BY <1>0, <1>1
    <2> HIDE DEF T
    <2> QED
      BY <2>1, <2>2, BytesAgree, Zenon
  <1>4. /\ \A i \in 1 .. N : blocks[i] \in BlockId /\ capacity2[blocks[i]] = capacity[blocks[i]]
        /\ \A d \in BlockId : BlockBytes(capacity[d]) \in Nat /\ BlockBytes(capacity2[d]) \in Nat
    BY DEF BlockBytes, Header
  <1> HIDE DEF one, two, N
  <1>5. T = {}
    <2> SUFFICES ASSUME T # {} PROVE FALSE
      OBVIOUS
    <2>1. PICK i \in T : \A j \in T : i <= j
      <3>1. T \subseteq Nat
        BY <1>0
      <3> HIDE DEF T
      <3> QED
        BY <3>1, LeastNat
    <2>2. i \in n .. N /\ i \in Nat /\ two[i + 1] # one[i] + BlockBytes(capacity2[b])
      BY <1>0, <2>1
    <2>3. i # n
      <3>1. two[n + 1] = two[n] + BlockBytes(capacity2[b])
        <4>1. n + 1 \in 1 .. N + 1 /\ (n + 1) - 1 = n
          BY <1>0
        <4> QED
          BY <1>1, <1>2a, <4>1
      <3> QED
        BY <1>3, <2>2, <3>1
    <2>4. /\ i - 1 \in n .. N /\ i - 1 \in 0 .. N /\ i \in 1 .. N
          /\ i + 1 \in 1 .. N + 1 /\ i + 1 \in n + 2 .. N + 1
          /\ (i + 1) - 1 = i /\ (i - 1) + 1 = i
      BY <1>0, <2>2, <2>3
    <2>5. two[i] = one[i - 1] + BlockBytes(capacity2[b])
      <3>1. i - 1 \notin T
        BY <2>1, <2>4
      <3> QED
        BY <2>4, <3>1
    <2>6. two[i + 1] = two[i] + BlockBytes(capacity[blocks[i]])
      <3>1. two[i + 1] = two[(i + 1) - 1] + BlockBytes(capacity2[blocks2[i + 1]])
        BY <1>2a, <2>4
      <3>2. blocks2[i + 1] = blocks[(i + 1) - 1]
        BY <1>1, <2>4
      <3>3. capacity2[blocks[i]] = capacity[blocks[i]]
        BY <1>4, <2>4
      <3> QED
        BY <2>4, <3>1, <3>2, <3>3, Zenon
    <2>7. one[i] = one[i - 1] + BlockBytes(capacity[blocks[i]]) /\ one[i - 1] \in Nat
      BY <1>2, <2>4
    <2>8. BlockBytes(capacity2[b]) \in Nat /\ BlockBytes(capacity[blocks[i]]) \in Nat
      BY <1>4, <2>4
    <2> QED
      BY <2>2, <2>5, <2>6, <2>7, <2>8
  <1>6. N \in n .. N
    BY <1>0
  <1> QED
    BY <1>1, <1>5, <1>6 DEF one, two, N

(* The memory of a chain of one block is its block's.                      *)
LEMMA BytesOfOne ==
  ASSUME NEW b \in BlockId, NEW capacity \in [BlockId -> Nat]
  PROVE  BytesOf(<<b>>, capacity)[1] = BlockBytes(capacity[b])
  <1>1. <<b>> \in Seq(BlockId) /\ Len(<<b>>) = 1 /\ <<b>>[1] = b
    OBVIOUS
  <1>2. BlockBytes(capacity[b]) \in Nat
    BY DEF BlockBytes, Header
  <1>3. BytesOf(<<b>>, capacity)[0] = 0
    BY <1>1, BytesUnfold
  <1>4. BytesOf(<<b>>, capacity)[1] = BytesOf(<<b>>, capacity)[1 - 1] + BlockBytes(capacity[<<b>>[1]])
    <2>1. \A i \in 1 .. 1 : BytesOf(<<b>>, capacity)[i] =
                             BytesOf(<<b>>, capacity)[i - 1] + BlockBytes(capacity[<<b>>[i]])
      BY <1>1, BytesUnfold, Zenon
    <2> QED
      BY <2>1
  <1> QED
    BY <1>1, <1>2, <1>3, <1>4

(* Calls account for exactly the blocks they make and free.                *)
LEMMA NextReserved == IInv /\ IInv' /\ ReservedExact /\ [Next]_vars => ReservedExact'
  <1> SUFFICES ASSUME IInv, IInv', ReservedExact, [Next]_vars PROVE ReservedExact'
    OBVIOUS
  <1>1. /\ chain \in Seq(BlockId) /\ chain' \in Seq(BlockId)
        /\ cap \in [BlockId -> 0 .. Word - 1] /\ cap' \in [BlockId -> 0 .. Word - 1]
        /\ reserved = BytesOf(chain, cap)[Len(chain)]
        /\ Word \in Nat
    BY WordFacts DEF IInv, TypeOK, ReservedExact, HeapInUse
  <1>2. cap \in [BlockId -> Nat] /\ cap' \in [BlockId -> Nat]
    <2>1. \A c \in [BlockId -> 0 .. Word - 1] : c \in [BlockId -> Nat]
      OBVIOUS
    <2> QED
      BY <1>1, <2>1, Zenon
  <1>3. SUFFICES reserved' = BytesOf(chain', cap')[Len(chain')]
    BY DEF ReservedExact, HeapInUse
  <1>4. CASE UNCHANGED <<chain, cap, reserved>>
    BY <1>1, <1>4
  <1>5. ASSUME NEW b \in FreeBlocks, NewCreates(b)
        PROVE  reserved' = BytesOf(chain', cap')[Len(chain')]
    <2>1. b \in BlockId /\ chain' = <<b>> /\ Len(chain') = 1
      BY <1>5 DEF FreeBlocks, NewCreates
    <2>2. cap'[b] = cfg.default /\ reserved' = BlockBytes(cfg.default)
      BY <1>1, <1>5, <2>1 DEF NewCreates
    <2> QED
      BY <1>2, <2>1, <2>2, BytesOfOne
  <1>6. ASSUME NEW size \in Sizes, NEW b \in FreeBlocks, AllocCreates(size, b)
        PROVE  reserved' = BytesOf(chain', cap')[Len(chain')]
    <2> DEFINE c == NewCapacity(AlignUp(size))
    <2>1. /\ b \in BlockId /\ cur \in 1 .. Len(chain)
          /\ \A i \in 1 .. Len(chain) : chain[i] # b
      <3>1. cur \in 1 .. Len(chain)
        BY <1>6 DEF AllocCreates, Grows, IInv, HeadOK
      <3> QED
        BY <1>1, <3>1 DEF FreeBlocks, ToSet
    <2>2. /\ chain' = InsertAt(chain, cur + 1, b)
          /\ cap' = [cap EXCEPT ![b] = c]
          /\ reserved' = (reserved + BlockBytes(c)) % Word
          /\ reserved + BlockBytes(c) <= HeapSize
      BY <1>1, <1>6 DEF AllocCreates, CanMalloc, HeapInUse
    <2>3. cur \in 0 .. Len(chain) /\ Len(chain) \in Nat
      BY <1>1, <2>1
    <2>4. Inserted(BlockId, chain, cur, b, chain')
      BY <1>1, <2>1, <2>2, <2>3, InsertAtFacts, Zenon
    <2>5. cap'[b] = c /\ \A i \in 1 .. Len(chain) : cap'[chain[i]] = cap[chain[i]]
      <3> HIDE DEF c
      <3> QED
        BY <1>1, <2>1, <2>2
    <2>6. BytesOf(chain', cap')[Len(chain')] = reserved + BlockBytes(c)
      <3> HIDE DEF c
      <3>1. BytesOf(chain', cap')[Len(chain')] = BytesOf(chain, cap)[Len(chain)] + BlockBytes(cap'[b])
        BY <1>1, <1>2, <2>1, <2>3, <2>4, <2>5, BytesInserted, Zenon
      <3> QED
        BY <1>1, <2>5, <3>1
    <2>7. reserved + BlockBytes(c) \in 0 .. Word - 1
      <3>1. c \in Nat
        <4>1. c = cap'[b] /\ cap'[b] \in Nat
          BY <1>2, <2>1, <2>5
        <4> QED
          BY <4>1
      <3>2. reserved \in Nat
        BY DEF IInv, TypeOK
      <3>3. BlockBytes(c) \in Nat
        <4> HIDE DEF c
        <4> QED
          BY <3>1 DEF BlockBytes, Header
      <3>4. reserved + BlockBytes(c) <= HeapSize
        BY <2>2
      <3> DEFINE bytes == BlockBytes(c)
      <3> HIDE DEF bytes, c
      <3>5. bytes \in Nat /\ reserved + bytes <= HeapSize
        BY <3>3, <3>4 DEF bytes
      <3>6. reserved + bytes \in 0 .. Word - 1
        BY <1>1, <3>2, <3>5, HeapAssumption
      <3> QED
        BY <3>6 DEF bytes
    <2> HIDE DEF c
    <2> QED
      BY <2>2, <2>6, <2>7, ModSmall, Zenon
  <1>7. ASSUME NEW keep \in Keeps, ResetTo(keep)
        PROVE  reserved' = BytesOf(chain', cap')[Len(chain')]
    <2>1. CASE UNCHANGED <<chain, cap, reserved>>
      BY <1>4, <2>1
    <2>2. CASE chain' = <<HeadBlk>> /\ cap' = OnlyHead(cap) /\ reserved' = BlockBytes(cap[HeadBlk])
      <3>1. HeadBlk \in BlockId /\ Len(chain') = 1
        BY <1>1, <1>7, <2>2 DEF ResetTo, Exists, HeadBlk
      <3>2. cap'[HeadBlk] = cap[HeadBlk]
        BY <2>2, <3>1 DEF OnlyHead
      <3> QED
        BY <1>2, <2>2, <3>1, <3>2, BytesOfOne
    <2> QED
      BY <1>7, <2>1, <2>2 DEF ResetTo
  <1>8. CASE Destroy
    <2>1. chain' = <<>> /\ Len(chain') = 0 /\ reserved' = 0
      BY <1>8 DEF Destroy
    <2> QED
      BY <1>1, <1>2, <2>1, BytesUnfold
  <1>9. CASE NewRefused \/ NewRaises \/ NoArena
    BY <1>4, <1>9 DEF NewRefused, NewRaises, NoArena, heap
  <1>10. ASSUME NEW size \in Sizes, NEW raising \in BOOLEAN,
                AllocNoArena(raising) \/ AllocOverflow(size, raising) \/ AllocLimit(size, raising)
         PROVE  reserved' = BytesOf(chain', cap')[Len(chain')]
    BY <1>4, <1>10 DEF AllocNoArena, AllocOverflow, AllocLimit, Refuse, heap
  <1>11. ASSUME NEW raising \in BOOLEAN, AllocNoArena(raising)
         PROVE  reserved' = BytesOf(chain', cap')[Len(chain')]
    BY <1>4, <1>11 DEF AllocNoArena, Refuse, heap
  <1>12. ASSUME NEW size \in Sizes, AllocCurrent(size) \/ AllocRecycle(size) \/ AllocRaises(size)
         PROVE  reserved' = BytesOf(chain', cap')[Len(chain')]
    BY <1>4, <1>12 DEF AllocCurrent, AllocRecycle, AllocRaises, heap
  <1>13. CASE UNCHANGED vars
    BY <1>4, <1>13 DEF vars, heap
  <1> QED
    BY <1>5, <1>6, <1>7, <1>8, <1>9, <1>10, <1>11, <1>12, <1>13 DEF Next

(* total_reserved is always the memory of the blocks on the chain, whatever *)
(* was inserted, trimmed or refused: the sum never wraps, since malloc can *)
(* not give out more than there are addresses.                             *)
THEOREM ReservedIsExact == Spec => []ReservedExact
  <1>1. Init => ReservedExact
    <2> SUFFICES ASSUME Init PROVE ReservedExact
      OBVIOUS
    <2>1. chain \in Seq(BlockId) /\ Len(chain) = 0 /\ cap \in [BlockId -> Nat] /\ reserved = 0
      BY DEF Init
    <2> QED
      BY <2>1, BytesUnfold DEF ReservedExact, HeapInUse
  <1> QED
    BY <1>1, InductiveInvariant, NextReserved, PTL DEF Spec

---------------------------------------------------------------------------
(* The arena implements the region allocator.                              *)

(* A region past everything clients hold is one the region allocator may   *)
(* grant.                                                                  *)
LEMMA AllocRefines ==
  ASSUME NEW r \in Regions!Region, live' = live \cup {r}, LiveDisjoint'
  PROVE  [Regions!RegionNext]_live
  <1>1. CASE r \in live
    BY <1>1
  <1>2. CASE r \notin live
    <2>1. \A s \in live : ~Regions!Overlap(s, r) /\ ~Regions!Overlap(r, s)
      BY <1>2 DEF LiveDisjoint
    <2> QED BY <2>1 DEF Regions!RegionNext, Regions!Allocate
  <1> QED BY <1>1, <1>2

(* Every call is a call of the region allocator, or nothing to it.         *)
LEMMA StepRefines == IInv /\ IInv' /\ [Next]_vars => [Regions!RegionNext]_live
  <1> SUFFICES ASSUME IInv, IInv', [Next]_vars PROVE [Regions!RegionNext]_live
    OBVIOUS
  <1> USE WordFacts
  <1>1. CASE UNCHANGED live
    BY <1>1
  <1>2. ASSUME NEW size \in Sizes, NEW b \in BlockId, NEW off \in 0 .. Word - 1,
               live' = live \cup {[blk |-> b, off |-> off, len |-> size]}
        PROVE  [Regions!RegionNext]_live
    <2>1. [blk |-> b, off |-> off, len |-> size] \in Regions!Region
      BY DEF Regions!Region
    <2> QED BY <1>2, <2>1, AllocRefines DEF IInv
  <1>3. ASSUME NEW size \in Sizes, AllocCurrent(size)
        PROVE  [Regions!RegionNext]_live
    <2>1. Current \in BlockId /\ used[Current] \in 0 .. Word - 1
      BY <1>3 DEF AllocCurrent, IInv, TypeOK, HeadOK, Current
    <2> QED BY <1>2, <1>3, <2>1 DEF AllocCurrent, Return
  <1>4. ASSUME NEW size \in Sizes, AllocRecycle(size)
        PROVE  [Regions!RegionNext]_live
    <2>1. chain[cur + 1] \in BlockId
      BY <1>4 DEF AllocRecycle, Grows, Recyclable, IInv, TypeOK, HeadOK
    <2> QED BY <1>2, <1>4, <2>1 DEF AllocRecycle, Return
  <1>5. ASSUME NEW size \in Sizes, NEW b \in FreeBlocks, AllocCreates(size, b)
        PROVE  [Regions!RegionNext]_live
    BY <1>2, <1>5 DEF AllocCreates, Return, FreeBlocks
  <1>6. ASSUME NEW keep \in Keeps, ResetTo(keep)
        PROVE  [Regions!RegionNext]_live
    <2>1. HeadBlk \in BlockId
      <3>1. chain \in Seq(BlockId) /\ 1 \in 1 .. Len(chain)
        BY <1>6 DEF ResetTo, IInv, TypeOK, HeadOK
      <3> QED BY <3>1 DEF HeadBlk
    <2>2. Regions!Retain(HeadBlk, keep)
      BY <1>6 DEF ResetTo, Regions!Retain, Regions!InPrefix
    <2> QED BY <2>1, <2>2 DEF Regions!RegionNext
  <1>7. CASE Destroy
    BY <1>7 DEF Destroy, Regions!RegionNext, Regions!ReleaseAll
  <1>8. CASE NewRefused \/ NewRaises \/ NoArena \/ UNCHANGED vars
    BY <1>8 DEF NewRefused, NewRaises, NoArena, vars, heap
  <1>9. ASSUME NEW b \in FreeBlocks, NewCreates(b) PROVE [Regions!RegionNext]_live
    BY <1>9 DEF NewCreates
  <1>10. ASSUME NEW size \in Sizes, NEW raising \in BOOLEAN,
                AllocOverflow(size, raising) \/ AllocLimit(size, raising)
         PROVE  [Regions!RegionNext]_live
    BY <1>10 DEF AllocOverflow, AllocLimit, Refuse, heap
  <1>11. ASSUME NEW raising \in BOOLEAN, AllocNoArena(raising)
         PROVE  [Regions!RegionNext]_live
    BY <1>11 DEF AllocNoArena, Refuse, heap
  <1>12. ASSUME NEW size \in Sizes, AllocRaises(size)
         PROVE  [Regions!RegionNext]_live
    BY <1>12 DEF AllocRaises, heap
  <1> QED BY <1>3, <1>4, <1>5, <1>6, <1>7, <1>8, <1>9, <1>10, <1>11, <1>12 DEF Next

(* Every behaviour of the arena is a behaviour of the region allocator.    *)
THEOREM ArenaRefinesRegions == Spec => RefinesRegions
  <1>1. Init => Regions!RegionInit
    BY DEF Init, Regions!RegionInit
  <1> QED BY <1>1, StepRefines, InductiveInvariant, PTL
            DEF Spec, RefinesRegions, Regions!RegionSpec

---------------------------------------------------------------------------
(* The inductive invariant.                                                *)

\* The context is the first thing allocated from its arena: until then the
\* head is untouched, afterwards it is the first region of the head.
CtxPlace ==
  /\ ctx = NULL /\ Exists => cur = 1 /\ used[HeadBlk] = 0
  /\ ctx # NULL => Exists
  /\ ctx # NULL /\ AlignUp(CtxSize) <= cfg.default =>
       ctx \in live /\ ctx = [blk |-> HeadBlk, off |-> 0, len |-> CtxSize]

\* The exception frames tell whether the host is in a TRY, unless a call
\* returned out of its own.
FramesOK ==
  /\ ~inTry => frames \in {<<>>, <<"dead">>}
  /\ inTry => frames \in {<<"host">>, <<"dead">>, <<"host", "dead">>}

\* What a parse has built so far is in live memory, in distinct regions.
ParseProgress ==
  call.op = "parse" =>
    /\ call.doc \in Doc /\ call.doc.length > 0
    /\ parsed = NULL /\ error = "none"
    /\ ctx \in live
    /\ call.step \in 1 .. 6
    /\ call.step > 1 => /\ data.store \in live /\ data.store # ctx
                        /\ data.doc = call.doc /\ data.fill = "empty"
    /\ call.step > 5 => /\ tree.store \in live /\ tree.store # ctx
                        /\ tree.store # data.store
                        /\ tree.doc = call.doc

\* Every call under way is a call on a context.
CallOnContext == call.op # "idle" => ctx # NULL /\ call.step > 0

\* What a parse left is what it read of some document.
DataOK ==
  /\ data \in [store : Region \cup {NULL}, doc : Doc \cup {NULL},
              fill : {"garbage", "empty", "partial", "whole"}]
  /\ data.fill # "garbage" => data.doc \in Doc

CtxInv ==
  /\ IInv
  /\ CtxTypeOK
  /\ CtxPlace
  /\ FramesOK
  /\ CallOnContext
  /\ DataOK
  /\ ParseProgress
  /\ DocumentUsable
  /\ ErrorsReported

---------------------------------------------------------------------------
(* Allocating from the arena.                                              *)

(* A granted, non-empty request adds exactly one region to the live ones.  *)
LEMMA AllocOkRegion ==
  ASSUME IInv, NEW size \in Sizes, size > 0, AllocOk(size)
  PROVE  \E r : r \notin live /\ live' = live \cup {r} /\ r.len = size
  <1> USE WordFacts, SizesAssumption
  <1>1. /\ chain \in Seq(BlockId) /\ Exists /\ cur \in 1 .. Len(chain)
        /\ used \in [BlockId -> 0 .. Word - 1] /\ size \in 0 .. Word - 1
    BY DEF IInv, TypeOK, HeadOK, AllocOk, AllocCurrent, AllocRecycle, AllocCreates, Grows
  <1>2. ASSUME AllocCurrent(size)
        PROVE  \E r : r \notin live /\ live' = live \cup {r} /\ r.len = size
    <2> DEFINE r == [blk |-> Current, off |-> used[Current], len |-> size]
    <2>1. live' = live \cup {r} /\ r.len = size
      BY <1>2 DEF AllocCurrent, Return
    <2>2. Current \in BlockId /\ used[Current] \in 0 .. Word - 1
      BY <1>1 DEF Current
    <2>3. r \notin live
      <3> SUFFICES ASSUME r \in live PROVE FALSE
        OBVIOUS
      <3>1. r.off + r.len <= used[r.blk]
        BY DEF IInv, LiveBacked
      <3>2. r.off = used[Current] /\ r.blk = Current /\ r.len = size
        OBVIOUS
      <3> HIDE DEF r
      <3> QED BY <3>1, <3>2, <2>2, <1>1
    <2> QED BY <2>1, <2>3
  <1>3. ASSUME NEW b, NEW off, live' = live \cup {[blk |-> b, off |-> off, len |-> size]},
               \A i \in 1 .. cur : chain[i] # b
        PROVE  \E r : r \notin live /\ live' = live \cup {r} /\ r.len = size
    <2> DEFINE r == [blk |-> b, off |-> off, len |-> size]
    <2>1. r \notin live
      BY <1>3 DEF IInv, LiveBacked
    <2> QED BY <2>1, <1>3
  <1>4. ASSUME AllocRecycle(size)
        PROVE  \E r : r \notin live /\ live' = live \cup {r} /\ r.len = size
    <2>1. live' = live \cup {[blk |-> chain[cur + 1], off |-> 0, len |-> size]}
      BY <1>4 DEF AllocRecycle, Return
    <2>2. cur + 1 \in 1 .. Len(chain)
      BY <1>1, <1>4 DEF AllocRecycle, Recyclable
    <2>3. \A i \in 1 .. cur : chain[i] # chain[cur + 1]
      BY <1>1, <2>2 DEF IInv, BlocksOK
    <2> QED BY <1>3, <2>1, <2>3
  <1>5. ASSUME NEW b \in FreeBlocks, AllocCreates(size, b)
        PROVE  \E r : r \notin live /\ live' = live \cup {r} /\ r.len = size
    <2>1. live' = live \cup {[blk |-> b, off |-> 0, len |-> size]}
      BY <1>5 DEF AllocCreates, Return
    <2>2. \A i \in 1 .. cur : chain[i] # b
      BY <1>1, <1>5 DEF FreeBlocks, ToSet
    <2> QED BY <1>3, <2>1, <2>2
  <1> QED BY <1>2, <1>4, <1>5 DEF AllocOk

(* NewRegion is that region; the head and the configuration stay put.      *)
LEMMA AllocOkFacts ==
  ASSUME IInv, NEW size \in Sizes, size > 0, AllocOk(size)
  PROVE  /\ live' = live \cup {NewRegion} /\ NewRegion \notin live
         /\ cfg' = cfg /\ Exists /\ Exists' /\ HeadBlk' = HeadBlk
         /\ [Next]_vars
  <1> USE WordFacts, SizesAssumption
  <1>1. /\ chain \in Seq(BlockId) /\ Exists /\ cur \in 1 .. Len(chain)
        /\ cfg' = cfg
    BY DEF IInv, TypeOK, HeadOK, AllocOk, AllocCurrent, AllocRecycle, AllocCreates, Grows, Return
  <1>2. PICK r : r \notin live /\ live' = live \cup {r}
    BY AllocOkRegion
  <1>3. NewRegion = r
    <2>1. \A x : x \in live' /\ x \notin live <=> x = r
      BY <1>2
    <2>2. r \in live' /\ r \notin live
      BY <2>1
    <2>3. NewRegion \in live' /\ NewRegion \notin live
      BY <2>2 DEF NewRegion
    <2> QED BY <2>1, <2>3
  <1>4. Exists' /\ HeadBlk' = HeadBlk
    <2>1. CASE chain' = chain
      BY <1>1, <2>1 DEF Exists, HeadBlk
    <2>2. ASSUME NEW b \in FreeBlocks, AllocCreates(size, b) PROVE Exists' /\ HeadBlk' = HeadBlk
      <3>1. b \in BlockId /\ cur \in 0 .. Len(chain)
        BY <1>1 DEF FreeBlocks
      <3>2. /\ Len(InsertAt(chain, cur + 1, b)) = Len(chain) + 1
            /\ \A j \in 1 .. cur : InsertAt(chain, cur + 1, b)[j] = chain[j]
        <4>1. chain \in Seq(BlockId)
          BY <1>1
        <4>2. b \in BlockId
          BY <3>1
        <4>3. cur \in 0 .. Len(chain)
          BY <3>1
        <4>4. Inserted(BlockId, chain, cur, b, InsertAt(chain, cur + 1, b))
          BY <4>1, <4>2, <4>3, InsertAtFacts, Zenon
        <4> QED BY <4>4, Zenon DEF Inserted
      <3>3. chain' = InsertAt(chain, cur + 1, b)
        BY <2>2 DEF AllocCreates
      <3> QED BY <1>1, <3>2, <3>3 DEF Exists, HeadBlk
    <2> QED BY <2>1, <2>2 DEF AllocOk, AllocCurrent, AllocRecycle
  <1>5. [Next]_vars
    BY DEF Next, AllocOk
  <1> QED BY <1>1, <1>2, <1>3, <1>4, <1>5

---------------------------------------------------------------------------
(* Returning and raising.                                                  *)

\* The part of the type invariant that a return or a raise is about.
ControlOK ==
  /\ error \in Exceptions \cup {"none", "invalid"}
  /\ result \in [op : {"none", "new", "compile", "parse", "validate", "get_value", "reset"},
                ok : BOOLEAN]
  /\ frames \in {<<>>, <<"host">>, <<"dead">>, <<"host", "dead">>}
  /\ inTry \in BOOLEAN
  /\ status \in {"running", "aborted", "wildJump", "deadFrameRead", "garbageRead",
                "freedRead", "nullWrite"}
  /\ FramesOK

Ops == {"none", "new", "compile", "parse", "validate", "get_value", "reset"}

(* A plain return leaves the frames and the error state well formed.       *)
LEMMA ReturnFacts ==
  ASSUME CtxInv, NEW op \in Ops, NEW ok \in BOOLEAN, Returns(op, ok),
         UNCHANGED <<frames, inTry>>,
         error' \in Exceptions \cup {"none", "invalid"},
         UNCHANGED status
  PROVE  ControlOK' /\ call' = IdleCall
  BY DEF ControlOK, CtxInv, CtxTypeOK, Returns, FramesOK, Ops

(* What leaves the call through a frame of the host, or through none.      *)
LEMMA EscapeFacts ==
  ASSUME CtxInv, Escape, UNCHANGED error
  PROVE  /\ ControlOK' /\ call' = IdleCall
         /\ result' = [op |-> "none", ok |-> FALSE]
  <1> USE DEF CtxInv, CtxTypeOK
  <1>1. call' = IdleCall /\ result' = [op |-> "none", ok |-> FALSE] /\ error' = error
    BY DEF Escape, Returns
  <1>2. CASE UNCHANGED <<frames, inTry>> /\ status' \in {"aborted", "wildJump"}
    BY <1>1, <1>2 DEF ControlOK, FramesOK
  <1>3. CASE /\ frames # <<>> /\ Head(frames) = "host"
             /\ frames' = Tail(frames) /\ inTry' = FALSE /\ UNCHANGED status
    <2>1. frames \in {<<"host">>, <<"host", "dead">>}
      <3>1. frames # <<"dead">>
        BY <1>3
      <3> QED BY <3>1, <1>3
    <2>2. frames' \in {<<>>, <<"dead">>}
      <3>1. Tail(<<"host">>) = <<>> /\ Tail(<<"host", "dead">>) = <<"dead">>
        OBVIOUS
      <3> QED BY <1>3, <2>1, <3>1
    <2> QED BY <1>1, <1>3, <2>2 DEF ControlOK, FramesOK
  <1> QED BY <1>1, <1>2, <1>3 DEF Escape

(* A return from inside a TRY leaves one dead frame.                       *)
LEMMA ReturnInsideTryFacts ==
  ASSUME CtxInv, NEW op \in Ops, NEW ok \in BOOLEAN, ReturnInsideTry(op, ok),
         error' \in Exceptions \cup {"none", "invalid"}
  PROVE  ControlOK' /\ call' = IdleCall
  BY DEF ControlOK, CtxInv, CtxTypeOK, ReturnInsideTry, Returns, FramesOK, Ops

(* An exception is handled, and then reported, or it escapes.              *)
LEMMA RaiseFacts ==
  ASSUME CtxInv, NEW op \in Ops, NEW handlers \in SUBSET Exceptions, NEW e,
         Raise(op, handlers, e)
  PROVE  /\ ControlOK' /\ call' = IdleCall
         /\ \/ result' = [op |-> op, ok |-> FALSE] /\ error' \in Exceptions
            \/ result' = [op |-> "none", ok |-> FALSE]
  <1>1. CASE /\ e \in handlers /\ error' = e /\ Returns(op, FALSE)
             /\ UNCHANGED <<frames, inTry, status>>
    <2>1. error' \in Exceptions
      BY <1>1
    <2> QED BY <1>1, <2>1, ReturnFacts DEF Returns
  <1>2. CASE Escape /\ UNCHANGED error
    BY <1>2, EscapeFacts
  <1> QED BY <1>1, <1>2 DEF Raise

---------------------------------------------------------------------------
(* What a step that does not touch a part of the state preserves.          *)

(* No step on an unchanged arena moves the context.                        *)
LEMMA PlaceKept ==
  ASSUME CtxInv, UNCHANGED <<cfg, heap, ctx>>
  PROVE  CtxPlace'
  <1>1. UNCHANGED <<cfg, chain, used, cur, live, ctx>>
    BY DEF heap
  <1> QED BY <1>1 DEF CtxInv, CtxPlace, Exists, HeadBlk, AlignUp

(* A document stays usable while nothing is taken back.                    *)
LEMMA DocumentKept ==
  ASSUME CtxInv, live \subseteq live', parsed' = NULL \/ UNCHANGED <<ctx, data, tree, parsed>>
  PROVE  DocumentUsable'
  BY DEF CtxInv, DocumentUsable

(* While arena, context and document stay as they are, so does what        *)
(* DataOK says of them.                                                    *)
LEMMA DataKept ==
  ASSUME CtxInv, UNCHANGED data
  PROVE  DataOK'
  BY DEF CtxInv, DataOK

(* Once no call is under way and the return was reported, CtxInv is a      *)
(* matter of the arena, the context's place and the document.              *)
LEMMA BackToIdle ==
  ASSUME CtxInv, IInv', call' = IdleCall, ControlOK', CtxPlace', DocumentUsable',
         ErrorsReported',
         ctx' \in Region \cup {NULL}, UNCHANGED <<tree, schema>>, DataOK',
         parsed' \in Doc \cup {NULL}
  PROVE  CtxInv'
  <1>1. call' \in [op : {"idle", "parse", "validate", "get_value"},
                  doc : Doc \cup {NULL}, step : Nat]
    BY DEF IdleCall
  <1>2. TypeOK'
    BY DEF IInv
  <1>3. CtxTypeOK'
    BY <1>1, <1>2 DEF ControlOK, DataOK, CtxInv, CtxTypeOK
  <1>4. ParseProgress' /\ FramesOK' /\ CallOnContext'
    BY DEF ParseProgress, IdleCall, ControlOK, CallOnContext
  <1> QED BY <1>3, <1>4 DEF CtxInv

---------------------------------------------------------------------------
(* One lemma for each kind of step.                                        *)

(* The constants as the proofs use them.                                   *)
LEMMA RequestFacts ==
  /\ CtxSize \in Sizes /\ CtxSize \in Keeps /\ CtxSize > 0
  /\ PathSize \in Sizes /\ PathSize > 0
  /\ \A i \in 1 .. Len(ValueSizes) : ValueSizes[i] \in Sizes /\ ValueSizes[i] > 0
  /\ \A d \in Doc : d.length \in Nat
  /\ \A d \in Doc, i \in 1 .. 5 :
       d.length > 0 => ParseSizes(d)[i] \in Sizes /\ ParseSizes(d)[i] > 0
  <1>1. \A x \in Sizes : x \in Nat
    BY SizesAssumption, WordFacts
  <1>2. \A d \in Doc, i \in 1 .. 5 :
          d.length > 0 => ParseSizes(d)[i] \in Sizes /\ ParseSizes(d)[i] > 0
    <2> SUFFICES ASSUME NEW d \in Doc, NEW i \in 1 .. 5, d.length > 0
                 PROVE  ParseSizes(d)[i] \in Sizes /\ ParseSizes(d)[i] > 0
      OBVIOUS
    <2>1. ParseSizes(d)[i] \in Sizes \ {0}
      BY RequestAssumption
    <2> DEFINE z == ParseSizes(d)[i]
    <2>2. z \in Nat /\ z # 0
      BY <2>1, <1>1
    <2> HIDE DEF z
    <2>3. z > 0
      BY <2>2
    <2> QED BY <2>1, <2>3 DEF z
  <1>3. \A d \in Doc : d.length \in Nat
    BY DocAssumption
  <1>4. \A i \in 1 .. Len(ValueSizes) : ValueSizes[i] \in Sizes /\ ValueSizes[i] > 0
    BY RequestAssumption
  <1> QED BY <1>2, <1>3, <1>4, RequestAssumption

(* What the arena does alone: it is a step of Arena, and what it refuses   *)
(* changes nothing.                                                        *)
LEMMA RefusedFacts ==
  ASSUME IInv, NEW size \in Sizes,
         \/ AllocNull(size) \/ AllocNoArena(FALSE) \/ AllocRaises(size)
         \/ \E e \in Exceptions : AllocRaising(size, e)
  PROVE  UNCHANGED <<cfg, heap>> /\ [Next]_vars /\ IInv'
  <1>1. UNCHANGED <<cfg, heap>>
    BY DEF AllocNull, AllocNoArena, AllocRaises, AllocRaising, AllocOverflow, AllocLimit, Refuse
  <1>2. Next
    BY DEF Next, AllocNull, AllocRaising
  <1> QED BY <1>1, <1>2, NextIInv

(* A step that leaves the arena, the context and the parse state alone     *)
(* and the process between calls.                                          *)
LEMMA ControlStep ==
  ASSUME CtxInv, UNCHANGED <<vars, ctx, data, tree, schema>>,
         parsed' = NULL \/ UNCHANGED parsed,
         call' = IdleCall, ControlOK', ErrorsReported'
  PROVE  CtxInv' /\ [Next]_vars
  <1>1. [Next]_vars /\ IInv' /\ UNCHANGED <<cfg, heap>> /\ live' = live
    BY NextIInv DEF CtxInv, vars, heap
  <1>2. CtxPlace' /\ DocumentUsable'
    BY <1>1, PlaceKept, DocumentKept
  <1> QED BY <1>1, <1>2, DataKept, BackToIdle DEF CtxInv, CtxTypeOK

(* A host entering or leaving a TRY of its own keeps the invariant.        *)
LEMMA HostTryStep ==
  ASSUME CtxInv, HostTry \/ HostEndTry \/ UNCHANGED ctxVars
  PROVE  CtxInv' /\ [Next]_vars
  <1>1. /\ UNCHANGED <<vars, ctx, data, tree, error, call, result, schema, parsed>>
    BY DEF HostTry, HostEndTry, ctxVars
  <1>2. [Next]_vars /\ IInv' /\ UNCHANGED <<cfg, heap>> /\ live' = live
    BY <1>1, NextIInv DEF CtxInv, vars, heap
  <1>3. CtxPlace' /\ DocumentUsable'
    BY <1>1, <1>2, PlaceKept, DocumentKept
  <1>4. ParseProgress' /\ CallOnContext'
    BY <1>1, <1>2 DEF ParseProgress, CallOnContext, CtxInv
  <1>5. ErrorsReported'
    <2>1. Running' => Running
      BY DEF HostTry, HostEndTry, Idle, Running, ctxVars
    <2> QED BY <1>1, <2>1 DEF ErrorsReported, Idle, CtxInv
  <1>6. /\ frames' \in {<<>>, <<"host">>, <<"dead">>, <<"host", "dead">>}
        /\ inTry' \in BOOLEAN
        /\ status' \in {"running", "aborted", "wildJump", "deadFrameRead", "garbageRead",
                      "freedRead", "nullWrite"}
        /\ FramesOK'
    <2> USE DEF CtxInv, CtxTypeOK, FramesOK
    <2>1. CASE UNCHANGED <<frames, inTry, status>>
      BY <2>1
    <2>2. CASE HostTry
      <3>1. /\ <<"host">> \o <<>> = <<"host">>
            /\ <<"host">> \o <<"dead">> = <<"host", "dead">>
        <4> DEFINE Frame == {"host", "dead"}
        <4>1. <<"host">> \in Seq(Frame) /\ <<"dead">> \in Seq(Frame)
          OBVIOUS
        <4>2. <<"host">> \o <<>> = <<"host">>
          BY <4>1, ConcatEmptySeq
        <4>3. <<"host">> \o <<"dead">> = Append(<<"host">>, "dead")
          BY <4>1, AppendIsConcat
        <4>4. Append(<<"host">>, "dead") = <<"host", "dead">>
          <5> DEFINE s == Append(<<"host">>, "dead")
                     t == <<"host", "dead">>
          <5>1. s \in Seq(Frame) /\ Len(s) = 2 /\ s[1] = "host" /\ s[2] = "dead"
            BY <4>1
          <5>2. t \in Seq(Frame) /\ Len(t) = 2 /\ t[1] = "host" /\ t[2] = "dead"
            OBVIOUS
          <5> HIDE DEF s, t, Frame
          <5>3. \A i \in 1 .. Len(s) : s[i] = t[i]
            BY <5>1, <5>2
          <5>4. s = t
            BY <5>1, <5>2, <5>3, SeqEqual
          <5> QED BY <5>4 DEF s, t
        <4> QED BY <4>2, <4>3, <4>4
      <3> QED BY <2>2, <3>1 DEF HostTry
    <2>3. CASE HostEndTry
      <3>1. inTry /\ inTry' = FALSE
        BY <2>3 DEF HostEndTry
      <3>2. CASE Head(frames) = "host" /\ frames' = Tail(frames) /\ UNCHANGED status
        <4>1. frames \in {<<"host">>, <<"host", "dead">>}
          <5>1. frames # <<"dead">>
            BY <3>2
          <5> QED BY <3>1, <5>1
        <4>2. Tail(<<"host">>) = <<>> /\ Tail(<<"host", "dead">>) = <<"dead">>
          OBVIOUS
        <4> QED BY <3>1, <3>2, <4>1, <4>2
      <3>3. CASE Head(frames) = "dead" /\ UNCHANGED frames /\ status' = "deadFrameRead"
        <4>1. frames = <<"dead">>
          <5>1. Head(<<"host">>) # "dead" /\ Head(<<"host", "dead">>) # "dead"
            OBVIOUS
          <5> QED BY <3>1, <3>3, <5>1
        <4> QED BY <3>1, <3>3, <4>1
      <3> QED BY <2>3, <3>2, <3>3 DEF HostEndTry
    <2> QED BY <2>1, <2>2, <2>3 DEF ctxVars
  <1>7. CtxTypeOK'
    BY <1>1, <1>2, <1>6 DEF CtxInv, CtxTypeOK, IInv
  <1> QED BY <1>1, <1>2, <1>3, <1>4, <1>5, <1>6, <1>7, DataKept DEF CtxInv

(* An attempt of the host to make an arena keeps the invariant.            *)
LEMMA HostNewArenaStep ==
  ASSUME CtxInv, HostNewArena
  PROVE  CtxInv' /\ [Next]_vars
  <1>1. UNCHANGED <<ctx, data, tree, error, call, result, frames, inTry, schema, status, parsed>>
    BY DEF HostNewArena
  <1>2. [Next]_vars /\ IInv' /\ live' = live
    BY NextIInv DEF HostNewArena, Next, CtxInv, NewCreates, NewRefused, heap
  <1>3. CtxPlace'
    <2>1. CASE NewRefused
      BY <1>1, <2>1, PlaceKept DEF NewRefused
    <2>2. ASSUME NEW b \in FreeBlocks, NewCreates(b) PROVE CtxPlace'
      <3>1. ctx = NULL
        BY <2>2 DEF NewCreates, CtxInv, CtxPlace
      <3>2. chain' = <<b>> /\ cur' = 1 /\ used' = [used EXCEPT ![b] = 0]
        BY <2>2 DEF NewCreates
      <3>3. HeadBlk' = b
        BY <3>2 DEF HeadBlk
      <3>4. used'[b] = 0
        BY <3>2 DEF CtxInv, CtxTypeOK, TypeOK, FreeBlocks
      <3> QED BY <1>1, <3>1, <3>2, <3>3, <3>4 DEF CtxPlace
    <2> QED BY <2>1, <2>2 DEF HostNewArena
  <1>4. DocumentUsable'
    BY <1>1, <1>2, DocumentKept
  <1>5. ParseProgress' /\ FramesOK' /\ CallOnContext'
    BY <1>1, <1>2 DEF ParseProgress, FramesOK, CallOnContext, CtxInv
  <1>6. ErrorsReported'
    BY <1>1 DEF ErrorsReported, Idle, Running, CtxInv
  <1>7. CtxTypeOK'
    BY <1>1, <1>2 DEF CtxInv, CtxTypeOK, IInv
  <1> QED BY <1>1, <1>2, <1>3, <1>4, <1>5, <1>6, <1>7, DataKept DEF CtxInv

(* Destroying the arena takes the context with it.                         *)
LEMMA HostDestroyArenaStep ==
  ASSUME CtxInv, HostDestroyArena
  PROVE  CtxInv' /\ [Next]_vars
  <1>1. /\ Destroy /\ call.op = "idle" /\ ctx' = NULL /\ error' = "none" /\ parsed' = NULL
        /\ data' = Garbage /\ tree' = NoTree
        /\ result' = [op |-> "none", ok |-> FALSE]
        /\ UNCHANGED <<call, frames, inTry, schema, status>>
    BY DEF HostDestroyArena, Idle
  <1>2. [Next]_vars /\ IInv'
    BY <1>1, NextIInv DEF Next, CtxInv
  <1>3. CtxPlace' /\ DocumentUsable' /\ ParseProgress'
    <2>1. ~Exists'
      BY <1>1 DEF Destroy, Exists
    <2> QED BY <1>1, <2>1 DEF CtxPlace, DocumentUsable, ParseProgress
  <1>4. FramesOK' /\ ErrorsReported' /\ CallOnContext' /\ DataOK'
    BY <1>1 DEF FramesOK, ErrorsReported, CallOnContext, DataOK, Garbage, CtxInv
  <1>5. CtxTypeOK'
    BY <1>1, <1>2 DEF CtxInv, CtxTypeOK, IInv, Garbage, NoTree
  <1> QED BY <1>2, <1>3, <1>4, <1>5 DEF CtxInv

(* Compiling a schema touches only the frames and the result.              *)
LEMMA SchemaCompileStep ==
  ASSUME CtxInv, SchemaCompile
  PROVE  CtxInv' /\ [Next]_vars
  <1>1. UNCHANGED <<vars, ctx, data, tree, error, parsed>>
    BY DEF SchemaCompile
  <1>2. [Next]_vars /\ IInv' /\ UNCHANGED <<cfg, heap>> /\ live' = live
    BY <1>1, NextIInv DEF CtxInv, vars, heap
  <1>3. ControlOK' /\ call' = IdleCall /\ schema' \in BOOLEAN
    <2>1. error' \in Exceptions \cup {"none", "invalid"}
      BY <1>1 DEF CtxInv, CtxTypeOK
    <2>2. CASE ReturnInsideTry("compile", TRUE) /\ schema' = TRUE
      BY <2>1, <2>2, ReturnInsideTryFacts DEF Ops
    <2>3. CASE Returns("compile", FALSE) /\ UNCHANGED <<frames, inTry, status, schema>>
      BY <2>1, <2>3, ReturnFacts DEF Ops, CtxInv, CtxTypeOK
    <2>4. CASE Escape /\ UNCHANGED schema
      BY <1>1, <2>4, EscapeFacts DEF CtxInv, CtxTypeOK
    <2> QED BY <2>2, <2>3, <2>4 DEF SchemaCompile
  <1>4. ErrorsReported'
    BY DEF SchemaCompile, ReturnInsideTry, Returns, Escape, ErrorsReported
  <1>5. CtxPlace' /\ DocumentUsable'
    BY <1>1, <1>2, PlaceKept, DocumentKept
  <1>6. ParseProgress' /\ CallOnContext'
    BY <1>3 DEF ParseProgress, CallOnContext, IdleCall
  <1>7. CtxTypeOK'
    <2>1. call' \in [op : {"idle", "parse", "validate", "get_value"},
                    doc : Doc \cup {NULL}, step : Nat]
      BY <1>3 DEF IdleCall
    <2> QED BY <1>1, <1>2, <1>3, <2>1 DEF ControlOK, CtxInv, CtxTypeOK, IInv
  <1> QED BY <1>1, <1>2, <1>3, <1>4, <1>5, <1>6, <1>7, DataKept DEF CtxInv, ControlOK

(* A granted request keeps the context in its place.                       *)
LEMMA GrantedStep ==
  ASSUME CtxInv, ctx # NULL, UNCHANGED ctx,
         NEW size \in Sizes, size > 0, AllocOk(size)
  PROVE  /\ live' = live \cup {NewRegion} /\ NewRegion \notin live
         /\ NewRegion \in Region
         /\ IInv' /\ [Next]_vars /\ CtxPlace'
  <1>1. /\ live' = live \cup {NewRegion} /\ NewRegion \notin live
        /\ cfg' = cfg /\ Exists /\ Exists' /\ HeadBlk' = HeadBlk
        /\ [Next]_vars
    BY AllocOkFacts DEF CtxInv
  <1>2. IInv'
    BY <1>1, NextIInv DEF CtxInv
  <1>3. NewRegion \in Region
    BY <1>1, <1>2 DEF IInv, TypeOK, Region
  <1>4. CtxPlace'
    BY <1>1 DEF CtxInv, CtxPlace, AlignUp
  <1> QED BY <1>1, <1>2, <1>3, <1>4

(* On an untouched head whose block holds a context, the context is the    *)
(* first region of the head.                                               *)
LEMMA FirstRegion ==
  ASSUME CtxInv, ctx = NULL, Exists, AllocOk(CtxSize), AlignUp(CtxSize) <= cfg.default
  PROVE  NewRegion = [blk |-> HeadBlk, off |-> 0, len |-> CtxSize]
  <1> USE WordFacts
  <1>1. cur = 1 /\ used[HeadBlk] = 0 /\ cap[HeadBlk] = cfg.default
    BY DEF CtxInv, CtxPlace, IInv, HeadOK
  <1>2. Current = HeadBlk
    BY <1>1 DEF Current, HeadBlk
  <1>3. CtxSize \in Sizes /\ CtxSize > 0 /\ CtxSize \in 0 .. Word - 1
    BY RequestFacts, SizesAssumption
  <1>4. AlignUp(CtxSize) \in 0 .. Word - 1 /\ cfg.default \in 0 .. Word - 1
    <2>1. cfg.default \in 0 .. Word - 1
      BY ConfigAssumption DEF CtxInv, IInv, TypeOK
    <2> QED BY <1>3, <2>1, AlignUpFacts
  <1> DEFINE a == AlignUp(CtxSize)
             d == cfg.default
  <1>5. FitsCurrent(AlignUp(CtxSize))
    <2>1. used[Current] = 0 /\ cap[Current] = d /\ a \in Nat /\ d \in Nat /\ a <= d
      BY <1>1, <1>2, <1>4
    <2>2. FitsCurrent(AlignUp(CtxSize)) <=> a <= cap[Current] /\ used[Current] <= cap[Current] - a
      BY DEF FitsCurrent
    <2> HIDE DEF a, d
    <2> QED BY <2>1, <2>2
  <1>6. AllocCurrent(CtxSize)
    BY <1>5 DEF AllocOk, AllocRecycle, AllocCreates, Grows
  <1>7. live' = live \cup {[blk |-> HeadBlk, off |-> 0, len |-> CtxSize]}
    BY <1>1, <1>2, <1>6 DEF AllocCurrent, Return
  <1>8. live' = live \cup {NewRegion} /\ NewRegion \notin live
    BY <1>3, AllocOkFacts DEF CtxInv
  <1> QED BY <1>7, <1>8

(* jsonv_ctx_new puts the context first in an untouched arena.             *)
LEMMA CtxNewStep ==
  ASSUME CtxInv, CtxNew
  PROVE  CtxInv' /\ [Next]_vars
  <1>1. /\ ctx = NULL /\ call.op = "idle"
        /\ UNCHANGED <<data, tree, error, schema, parsed>>
        /\ CtxSize \in Sizes /\ CtxSize > 0
        /\ error' \in Exceptions \cup {"none", "invalid"}
    BY RequestFacts DEF CtxNew, Idle, CtxInv, CtxTypeOK
  <1>2. CASE AllocOk(CtxSize) /\ ctx' = NewRegion /\ Returns("new", TRUE)
             /\ UNCHANGED <<frames, inTry, status>>
    <2>1. /\ live' = live \cup {NewRegion} /\ NewRegion \notin live
          /\ cfg' = cfg /\ Exists /\ Exists' /\ HeadBlk' = HeadBlk
          /\ [Next]_vars
      BY <1>1, <1>2, AllocOkFacts DEF CtxInv
    <2>2. IInv'
      BY <2>1, NextIInv DEF CtxInv
    <2>3. ctx' \in Region /\ ctx' \in live' /\ ctx' # NULL
      <3>1. ctx' \in Region /\ ctx' \in live'
        BY <1>2, <2>1, <2>2 DEF IInv, TypeOK, Region
      <3> QED BY <3>1, NullAssumption
    <2>4. CtxPlace'
      <3>1. ASSUME AlignUp(CtxSize) <= cfg.default
            PROVE  ctx' = [blk |-> HeadBlk, off |-> 0, len |-> CtxSize]
        BY <1>1, <1>2, <2>1, <3>1, FirstRegion
      <3>2. (AlignUp(CtxSize) <= cfg.default)' <=> AlignUp(CtxSize) <= cfg.default
        BY <2>1 DEF AlignUp
      <3> QED BY <2>1, <2>3, <3>1, <3>2 DEF CtxPlace
    <2>5. DocumentUsable'
      <3>1. parsed = NULL
        <4>1. ctx \notin live
          BY <1>1, NullAssumption DEF CtxInv, IInv, TypeOK, Region
        <4> QED BY <4>1 DEF CtxInv, DocumentUsable
      <3> QED BY <1>1, <3>1 DEF DocumentUsable
    <2>6. ControlOK' /\ call' = IdleCall
      BY <1>1, <1>2, ReturnFacts DEF Ops
    <2>7. ErrorsReported'
      BY <1>2 DEF ErrorsReported, Returns
    <2> QED BY <1>1, <2>1, <2>2, <2>3, <2>4, <2>5, <2>6, <2>7, DataKept, BackToIdle DEF CtxInv, CtxTypeOK
  <1>3. CASE UNCHANGED <<cfg, heap, ctx>> /\ [Next]_vars /\ IInv'
             /\ ControlOK' /\ call' = IdleCall /\ ErrorsReported'
    <2>1. CtxPlace' /\ DocumentUsable'
      BY <1>1, <1>3, PlaceKept, DocumentKept DEF heap
    <2> QED BY <1>1, <1>3, <2>1, DataKept, BackToIdle DEF CtxInv, CtxTypeOK
  <1>4. CASE /\ AllocNull(CtxSize) \/ AllocNoArena(FALSE)
             /\ Returns("new", FALSE)
             /\ UNCHANGED <<ctx, frames, inTry, status>>
    <2>1. UNCHANGED <<cfg, heap>> /\ [Next]_vars /\ IInv'
      BY <1>1, <1>4, RefusedFacts DEF CtxInv
    <2>2. ControlOK' /\ call' = IdleCall
      BY <1>1, <1>4, ReturnFacts DEF Ops
    <2>3. ErrorsReported'
      BY <1>4 DEF ErrorsReported, Returns
    <2> QED BY <1>3, <1>4, <2>1, <2>2, <2>3
  <1>5. CASE AllocRaises(CtxSize) /\ Escape /\ UNCHANGED ctx
    <2>1. UNCHANGED <<cfg, heap>> /\ [Next]_vars /\ IInv'
      BY <1>1, <1>5, RefusedFacts DEF CtxInv
    <2>2. /\ ControlOK' /\ call' = IdleCall
          /\ result' = [op |-> "none", ok |-> FALSE]
      BY <1>1, <1>5, EscapeFacts
    <2>3. ErrorsReported'
      BY <2>2 DEF ErrorsReported
    <2> QED BY <1>3, <1>5, <2>1, <2>2, <2>3
  <1> QED BY <1>2, <1>4, <1>5 DEF CtxNew

(* A parse starts by clearing the error of the last call.                  *)
LEMMA ParseBeginStep ==
  ASSUME CtxInv, NEW d \in Doc, ParseBegin(d)
  PROVE  CtxInv' /\ [Next]_vars
  <1>1. /\ UNCHANGED <<vars, ctx, data, tree, schema>>
        /\ parsed' = NULL /\ call.op = "idle" /\ ctx \in live
    BY DEF ParseBegin, CanCall, Idle
  <1>2. [Next]_vars /\ IInv' /\ UNCHANGED <<cfg, heap>> /\ live' = live
    BY <1>1, NextIInv DEF CtxInv, vars, heap
  <1>3. CtxPlace' /\ DocumentUsable'
    BY <1>1, <1>2, PlaceKept, DocumentKept
  <1>4. CASE /\ error' = "MALFORMED_JSON" /\ Returns("parse", FALSE)
             /\ UNCHANGED <<frames, inTry, status>>
    <2>1. ControlOK' /\ call' = IdleCall
      BY <1>4, ReturnFacts DEF Ops, Exceptions
    <2>2. ErrorsReported'
      BY <1>4 DEF ErrorsReported, Returns
    <2> QED BY <1>1, <2>1, <2>2, ControlStep
  <1>5. CASE Raise("parse", ParseHandlers, d.prescan)
    <2>1. /\ ControlOK' /\ call' = IdleCall
          /\ \/ result' = [op |-> "parse", ok |-> FALSE] /\ error' \in Exceptions
             \/ result' = [op |-> "none", ok |-> FALSE]
      BY <1>5, RaiseFacts DEF Ops, ParseHandlers
    <2>2. ErrorsReported'
      BY <2>1 DEF ErrorsReported, Exceptions, LimitExceptions
    <2> QED BY <1>1, <2>1, <2>2, ControlStep
  <1>6. CASE /\ d.length > 0 /\ error' = "none"
             /\ call' = [op |-> "parse", doc |-> d, step |-> 1]
             /\ UNCHANGED <<result, frames, inTry, status>>
    <2>1. CtxTypeOK'
      BY <1>1, <1>2, <1>6 DEF CtxInv, CtxTypeOK, IInv
    <2>2. ParseProgress'
      BY <1>1, <1>2, <1>6 DEF ParseProgress
    <2>3. FramesOK' /\ ErrorsReported'
      BY <1>6 DEF FramesOK, ErrorsReported, Idle, CtxInv
    <2>4. CallOnContext'
      BY <1>1, <1>6, NullAssumption DEF CallOnContext, CtxInv, IInv, TypeOK, Region
    <2> QED BY <1>1, DataKept, <1>2, <1>3, <2>1, <2>2, <2>3, <2>4 DEF CtxInv
  <1> QED BY <1>4, <1>5, <1>6 DEF ParseBegin

(* What a parse has built survives the next allocation.                    *)
LEMMA ParseAllocStep ==
  ASSUME CtxInv, ParseAlloc
  PROVE  CtxInv' /\ [Next]_vars
  <1> DEFINE size == ParseSizes(call.doc)[call.step]
  <1>1. /\ call.op = "parse" /\ call.step \in 1 .. 5 /\ call.doc \in Doc
        /\ call.doc.length > 0 /\ parsed = NULL /\ error = "none" /\ ctx \in live
        /\ UNCHANGED <<ctx, schema, parsed>>
    BY DEF ParseAlloc, CtxInv, ParseProgress
  <1>2. size \in Sizes /\ size > 0
    BY <1>1, RequestFacts
  <1>3. ctx # NULL
    BY <1>1, NullAssumption DEF CtxInv, IInv, TypeOK, Region
  <1> HIDE DEF size
  <1>4. CASE /\ AllocOk(size)
             /\ data' = IF call.step = 1 THEN StartAst(call.doc) ELSE data
             /\ tree' = IF call.step = 5 THEN [store |-> NewRegion, doc |-> call.doc] ELSE tree
             /\ call' = [call EXCEPT !.step = @ + 1]
             /\ UNCHANGED <<error, result, frames, inTry, status>>
    <2>1. /\ live' = live \cup {NewRegion} /\ NewRegion \notin live
          /\ NewRegion \in Region
          /\ IInv' /\ [Next]_vars /\ CtxPlace'
      BY <1>1, <1>2, <1>3, <1>4, GrantedStep
    <2>2. /\ call'.op = "parse" /\ call'.doc = call.doc /\ call'.step = call.step + 1
          /\ call' \in [op : {"idle", "parse", "validate", "get_value"},
                       doc : Doc \cup {NULL}, step : Nat]
      BY <1>1, <1>4 DEF CtxInv, CtxTypeOK
    <2>3. ParseProgress'
      <3>1. /\ data'.store \in live' /\ data'.store # ctx'
            /\ data'.doc = call'.doc /\ data'.fill = "empty"
        <4>1. CASE call.step = 1
          BY <1>1, <1>4, <2>1, <2>2, <4>1 DEF StartAst
        <4>2. CASE call.step # 1
          <5>1. call.step > 1
            BY <1>1, <4>2
          <5> QED BY <1>1, <1>4, <2>1, <2>2, <4>2, <5>1 DEF CtxInv, ParseProgress
        <4> QED BY <4>1, <4>2
      <3>2. ASSUME call'.step > 5
            PROVE  /\ tree'.store \in live' /\ tree'.store # ctx'
                   /\ tree'.store # data'.store
                   /\ tree'.doc = call'.doc
        <4>1. call.step = 5
          BY <1>1, <2>2, <3>2
        <4>2. tree' = [store |-> NewRegion, doc |-> call.doc] /\ data' = data
          BY <1>4, <4>1
        <4>3. data.store \in live
          BY <1>1, <4>1 DEF CtxInv, ParseProgress
        <4> QED BY <1>1, <2>1, <2>2, <4>2, <4>3
      <3>3. call'.step \in 1 .. 6
        BY <1>1, <2>2
      <3> QED BY <1>1, <1>4, <2>1, <2>2, <3>1, <3>2, <3>3 DEF ParseProgress
    <2>4. DocumentUsable'
      BY <1>1 DEF DocumentUsable
    <2>5. FramesOK' /\ ErrorsReported'
      BY <1>4, <2>2 DEF CtxInv, FramesOK, ErrorsReported, Idle
    <2>6. CtxTypeOK'
      <3>1. DataOK'
        BY <1>1, <1>4, <2>1 DEF CtxInv, CtxTypeOK, DataOK, StartAst
      <3>2. tree' \in [store : Region \cup {NULL}, doc : Doc \cup {NULL}]
        BY <1>1, <1>4, <2>1 DEF CtxInv, CtxTypeOK
      <3> QED BY <1>1, <1>4, <2>1, <2>2, <3>1, <3>2 DEF CtxInv, CtxTypeOK, DataOK, IInv
    <2>7. CallOnContext' /\ DataOK'
      BY <1>1, <1>3, <1>4, <2>1, <2>2 DEF CallOnContext, CtxInv, CtxTypeOK, DataOK, StartAst
    <2> QED BY <2>1, <2>3, <2>4, <2>5, <2>6, <2>7 DEF CtxInv
  <1>5. ASSUME NEW e \in Exceptions, AllocRaising(size, e), Raise("parse", ParseHandlers, e),
               UNCHANGED <<data, tree>>
        PROVE  CtxInv' /\ [Next]_vars
    <2>1. UNCHANGED <<cfg, heap>> /\ [Next]_vars /\ IInv'
      BY <1>2, <1>5, RefusedFacts DEF CtxInv
    <2>2. /\ ControlOK' /\ call' = IdleCall
          /\ \/ result' = [op |-> "parse", ok |-> FALSE] /\ error' \in Exceptions
             \/ result' = [op |-> "none", ok |-> FALSE]
      BY <1>5, RaiseFacts DEF Ops, ParseHandlers
    <2>3. ErrorsReported'
      BY <2>2 DEF ErrorsReported, Exceptions, LimitExceptions
    <2>4. CtxPlace' /\ DocumentUsable'
      BY <1>1, <1>5, <2>1, PlaceKept DEF DocumentUsable
    <2> QED BY <1>1, <1>5, <2>1, <2>2, <2>3, <2>4, DataKept, BackToIdle DEF CtxInv, CtxTypeOK
  <1> QED BY <1>4, <1>5 DEF ParseAlloc, size

(* A parse that has all its memory builds the whole AST, or raises.        *)
LEMMA ParseDocumentStep ==
  ASSUME CtxInv, ParseDocument
  PROVE  CtxInv' /\ [Next]_vars
  <1>1. /\ call.op = "parse" /\ call.step = 6 /\ call.doc \in Doc
        /\ parsed = NULL /\ error = "none"
        /\ {ctx, data.store, tree.store} \subseteq live
        /\ ctx # data.store /\ data.store # tree.store /\ tree.store # ctx
        /\ data.doc = call.doc /\ tree.doc = call.doc
        /\ UNCHANGED <<vars, ctx, tree, schema>>
    BY DEF ParseDocument, CtxInv, ParseProgress
  <1>2. [Next]_vars /\ IInv' /\ UNCHANGED <<cfg, heap>> /\ live' = live
    BY <1>1, NextIInv DEF CtxInv, vars, heap
  <1>3. CtxPlace'
    BY <1>1, <1>2, PlaceKept
  <1>4. CASE /\ data' = [data EXCEPT !.fill = "whole"] /\ parsed' = call.doc
             /\ ReturnInsideTry("parse", TRUE) /\ UNCHANGED error
    <2>1. /\ data'.store = data.store /\ data'.doc = data.doc /\ data'.fill = "whole"
          /\ DataOK'
      BY <1>1, <1>4 DEF CtxInv, DataOK
    <2>2. DocumentUsable'
      BY <1>1, <1>2, <1>4, <2>1 DEF DocumentUsable
    <2>3. ControlOK' /\ call' = IdleCall
      BY <1>1, <1>4, ReturnInsideTryFacts DEF Ops
    <2>4. ErrorsReported'
      BY <1>1, <1>4 DEF ErrorsReported, ReturnInsideTry, Returns
    <2> QED BY <1>1, <1>2, <1>3, <1>4, <2>1, <2>2, <2>3, <2>4, BackToIdle DEF CtxInv, CtxTypeOK
  <1>5. ASSUME NEW fill \in {"empty", "partial"}, data' = [data EXCEPT !.fill = fill],
               NEW e, Raise("parse", ParseHandlers, e), UNCHANGED parsed
        PROVE  CtxInv' /\ [Next]_vars
    <2>1. DataOK'
      BY <1>1, <1>5 DEF CtxInv, DataOK
    <2>2. /\ ControlOK' /\ call' = IdleCall
          /\ \/ result' = [op |-> "parse", ok |-> FALSE] /\ error' \in Exceptions
             \/ result' = [op |-> "none", ok |-> FALSE]
      BY <1>5, RaiseFacts DEF Ops, ParseHandlers
    <2>3. ErrorsReported'
      BY <2>2 DEF ErrorsReported, Exceptions, LimitExceptions
    <2>4. DocumentUsable'
      BY <1>1, <1>5 DEF DocumentUsable
    <2> QED BY <1>1, <1>2, <1>3, <1>5, <2>1, <2>2, <2>3, <2>4, BackToIdle DEF CtxInv, CtxTypeOK
  <1> QED BY <1>4, <1>5 DEF ParseDocument

(* A validation or a get_value goes on, or the process stops in it.        *)
LEMMA MidCall ==
  ASSUME CtxInv, IInv', CtxPlace', DocumentUsable',
         UNCHANGED <<ctx, data, tree, schema, parsed, frames, inTry, result>>,
         error' \in Exceptions \cup {"none", "invalid"},
         status' \in {"running", "garbageRead", "freedRead", "nullWrite"} \cup {status},
         call' \in [op : {"idle", "parse", "validate", "get_value"},
                   doc : Doc \cup {NULL}, step : Nat],
         call'.op # "parse", call'.op = "idle" => status' # "running",
         call'.op # "idle" => ctx # NULL /\ call'.step > 0
  PROVE  CtxInv'
  <1>1. CtxTypeOK'
    BY DEF CtxInv, CtxTypeOK, IInv
  <1>2. ParseProgress' /\ FramesOK' /\ CallOnContext'
    BY DEF CtxInv, ParseProgress, FramesOK, CallOnContext
  <1>3. ErrorsReported'
    BY DEF ErrorsReported, Idle, Running
  <1> QED BY <1>1, <1>2, <1>3, DataKept DEF CtxInv

(* A validation starts on the document, or is refused.                     *)
LEMMA ValidateBeginStep ==
  ASSUME CtxInv, ValidateBegin
  PROVE  CtxInv' /\ [Next]_vars
  <1>1. /\ UNCHANGED <<vars, ctx, data, tree, frames, inTry, schema, parsed>>
        /\ call.op = "idle" /\ ctx # NULL
    BY DEF ValidateBegin, CanCall, Idle
  <1>2. [Next]_vars /\ IInv' /\ UNCHANGED <<cfg, heap>> /\ live' = live
    BY <1>1, NextIInv DEF CtxInv, vars, heap
  <1>3. CtxPlace' /\ DocumentUsable'
    BY <1>1, <1>2, PlaceKept, DocumentKept
  <1>4. CASE error' = "MALFORMED_JSON" /\ Returns("validate", FALSE) /\ UNCHANGED status
    <2>1. ControlOK' /\ call' = IdleCall
      BY <1>1, <1>4, ReturnFacts DEF Ops, Exceptions
    <2>2. ErrorsReported'
      BY <1>4 DEF ErrorsReported, Returns
    <2> QED BY <1>1, <2>1, <2>2, ControlStep
  <1>5. CASE status' = "garbageRead" /\ UNCHANGED <<error, call, result>>
    BY <1>1, <1>2, <1>3, <1>5, MidCall DEF CtxInv, CtxTypeOK
  <1>6. ASSUME NEW step \in {1, 2}, error' = "none",
               call' = [op |-> "validate", doc |-> data.doc, step |-> step],
               UNCHANGED <<result, status>>
        PROVE  CtxInv' /\ [Next]_vars
    <2>1. data.doc \in Doc \cup {NULL}
      BY DEF CtxInv, CtxTypeOK
    <2>2. /\ call' \in [op : {"idle", "parse", "validate", "get_value"},
                       doc : Doc \cup {NULL}, step : Nat]
          /\ call'.op = "validate" /\ call'.step > 0
      BY <1>6, <2>1
    <2> QED BY <1>1, <1>2, <1>3, <1>6, <2>2, MidCall
  <1> QED BY <1>4, <1>5, <1>6 DEF ValidateBegin

(* What a validation allocates leaves the document alone.                  *)
LEMMA ValidateAllocStep ==
  ASSUME CtxInv, ValidateAlloc
  PROVE  CtxInv' /\ [Next]_vars
  <1>1. /\ UNCHANGED <<ctx, data, tree, error, schema, parsed>>
        /\ call.op = "validate" /\ call.step = 1 /\ ctx # NULL
        /\ PathSize \in Sizes /\ PathSize > 0
        /\ error' \in Exceptions \cup {"none", "invalid"}
    BY RequestFacts DEF ValidateAlloc, CtxInv, CtxTypeOK, CallOnContext
  <1>2. CASE AllocOk(PathSize) /\ call' = [call EXCEPT !.step = 2]
             /\ UNCHANGED <<result, frames, inTry, status>>
    <2>1. call' \in [op : {"idle", "parse", "validate", "get_value"},
                    doc : Doc \cup {NULL}, step : Nat]
          /\ call'.op = "validate" /\ call'.step > 0
      BY <1>1, <1>2 DEF CtxInv, CtxTypeOK
    <2>2. IInv' /\ [Next]_vars /\ live \subseteq live' /\ CtxPlace'
      BY <1>1, <1>2, GrantedStep
    <2>3. DocumentUsable'
      BY <1>1, <2>2, DocumentKept
    <2> QED BY <1>1, <1>2, <2>1, <2>2, <2>3, MidCall
  <1>3. ASSUME NEW e \in Exceptions, AllocRaising(PathSize, e), Escape
        PROVE  CtxInv' /\ [Next]_vars
    <2>1. UNCHANGED <<cfg, heap>> /\ [Next]_vars /\ IInv'
      BY <1>1, <1>3, RefusedFacts DEF CtxInv
    <2>2. /\ ControlOK' /\ call' = IdleCall
          /\ result' = [op |-> "none", ok |-> FALSE]
      BY <1>1, <1>3, EscapeFacts
    <2>3. ErrorsReported'
      BY <2>2 DEF ErrorsReported
    <2>4. CtxPlace' /\ DocumentUsable'
      BY <1>1, <2>1, PlaceKept, DocumentKept DEF heap
    <2> QED BY <1>1, <2>1, <2>2, <2>3, <2>4, DataKept, BackToIdle DEF CtxInv, CtxTypeOK
  <1> QED BY <1>2, <1>3 DEF ValidateAlloc

(* A validation ends with a verdict and a matching error.                  *)
LEMMA ValidateEndStep ==
  ASSUME CtxInv, ValidateEnd
  PROVE  CtxInv' /\ [Next]_vars
  <1>1. /\ UNCHANGED <<vars, ctx, data, tree, frames, inTry, schema, parsed>>
        /\ call.op = "validate" /\ ctx # NULL
    BY DEF ValidateEnd, CtxInv, CallOnContext
  <1>2. [Next]_vars /\ IInv' /\ UNCHANGED <<cfg, heap>> /\ live' = live
    BY <1>1, NextIInv DEF CtxInv, vars, heap
  <1>3. CtxPlace' /\ DocumentUsable'
    BY <1>1, <1>2, PlaceKept, DocumentKept
  <1>4. ASSUME NEW ok \in IF data.fill = "whole" /\ data.store \in live
                          THEN {data.doc.conforms} ELSE BOOLEAN,
               Returns("validate", ok), error' = IF ok THEN "none" ELSE "invalid",
               UNCHANGED status
        PROVE  CtxInv' /\ [Next]_vars
    <2>1. ok \in BOOLEAN
      <3>1. ASSUME data.fill = "whole" PROVE data.doc.conforms \in BOOLEAN
        BY <3>1, DocAssumption DEF CtxInv, DataOK
      <3> QED BY <1>4, <3>1
    <2>2. ControlOK' /\ call' = IdleCall
      BY <1>1, <1>4, <2>1, ReturnFacts DEF Ops
    <2>3. ErrorsReported'
      BY <1>4, <2>1 DEF ErrorsReported, Returns
    <2> QED BY <1>1, <2>2, <2>3, ControlStep
  <1>5. CASE status' = "freedRead" /\ UNCHANGED <<call, result, error>>
    BY <1>1, <1>2, <1>3, <1>5, MidCall DEF CtxInv, CtxTypeOK, CallOnContext
  <1> QED BY <1>4, <1>5 DEF ValidateEnd

(* jsonv_ctx_get_value starts on the document, or is refused.              *)
LEMMA GetValueBeginStep ==
  ASSUME CtxInv, GetValueBegin
  PROVE  CtxInv' /\ [Next]_vars
  <1>1. /\ UNCHANGED <<vars, ctx, data, tree, schema, parsed>>
        /\ call.op = "idle" /\ ctx # NULL
        /\ error \in Exceptions \cup {"none", "invalid"}
    BY DEF GetValueBegin, CanCall, Idle, CtxInv, CtxTypeOK
  <1>2. [Next]_vars /\ IInv' /\ UNCHANGED <<cfg, heap>> /\ live' = live
    BY <1>1, NextIInv DEF CtxInv, vars, heap
  <1>3. CtxPlace' /\ DocumentUsable'
    BY <1>1, <1>2, PlaceKept, DocumentKept
  <1>4. CASE Returns("get_value", FALSE) /\ UNCHANGED <<error, frames, inTry, status>>
    <2>1. ControlOK' /\ call' = IdleCall
      BY <1>1, <1>4, ReturnFacts DEF Ops
    <2>2. ErrorsReported'
      BY <1>4 DEF ErrorsReported, Returns
    <2> QED BY <1>1, <2>1, <2>2, ControlStep
  <1>5. CASE status' \in {"garbageRead", "freedRead"}
             /\ UNCHANGED <<error, call, result, frames, inTry>>
    BY <1>1, <1>2, <1>3, <1>5, MidCall DEF CtxInv, CtxTypeOK
  <1>6. CASE ReturnInsideTry("get_value", FALSE) /\ UNCHANGED error
    <2>1. ControlOK' /\ call' = IdleCall
      BY <1>1, <1>6, ReturnInsideTryFacts DEF Ops
    <2>2. ErrorsReported'
      BY <1>6 DEF ErrorsReported, ReturnInsideTry, Returns
    <2> QED BY <1>1, <2>1, <2>2, ControlStep
  <1>7. CASE Raise("get_value", ValueHandlers, "Mem_Failed")
    <2>1. /\ ControlOK' /\ call' = IdleCall
          /\ \/ result' = [op |-> "get_value", ok |-> FALSE] /\ error' \in Exceptions
             \/ result' = [op |-> "none", ok |-> FALSE]
      BY <1>7, RaiseFacts DEF Ops, ValueHandlers, Exceptions
    <2>2. ErrorsReported'
      BY <2>1 DEF ErrorsReported
    <2> QED BY <1>1, <2>1, <2>2, ControlStep
  <1>8. CASE /\ call' = [op |-> "get_value", doc |-> data.doc, step |-> 1]
             /\ UNCHANGED <<error, result, frames, inTry, status>>
    <2>1. /\ call' \in [op : {"idle", "parse", "validate", "get_value"},
                       doc : Doc \cup {NULL}, step : Nat]
          /\ call'.op = "get_value" /\ call'.step > 0
      BY <1>8 DEF CtxInv, CtxTypeOK
    <2> QED BY <1>1, <1>2, <1>3, <1>8, <2>1, MidCall
  <1> QED BY <1>4, <1>5, <1>6, <1>7, <1>8 DEF GetValueBegin

(* What a conversion allocates leaves the document alone.                  *)
LEMMA GetValueAllocStep ==
  ASSUME CtxInv, GetValueAlloc
  PROVE  CtxInv' /\ [Next]_vars
  <1> DEFINE size == ValueSizes[call.step]
  <1>1. /\ UNCHANGED <<ctx, data, tree, schema, parsed>>
        /\ call.op = "get_value" /\ call.step <= Len(ValueSizes) /\ call.step \in Nat \ {0}
        /\ ctx # NULL
        /\ error \in Exceptions \cup {"none", "invalid"}
    BY DEF GetValueAlloc, CtxInv, CtxTypeOK, CallOnContext
  <1>2. size \in Sizes /\ size > 0
    <2>1. call.step \in 1 .. Len(ValueSizes)
      BY <1>1, RequestAssumption
    <2> QED BY <2>1, RequestFacts
  <1> HIDE DEF size
  <1>3. ASSUME call' = [call EXCEPT !.step = @ + 1]
        PROVE  /\ call' \in [op : {"idle", "parse", "validate", "get_value"},
                            doc : Doc \cup {NULL}, step : Nat]
               /\ call'.op = "get_value" /\ call'.step > 0
    BY <1>1, <1>3 DEF CtxInv, CtxTypeOK
  <1>4. CASE AllocOk(size) /\ call' = [call EXCEPT !.step = @ + 1]
             /\ UNCHANGED <<error, result, frames, inTry, status>>
    <2>1. IInv' /\ [Next]_vars /\ live \subseteq live' /\ CtxPlace'
      BY <1>1, <1>2, <1>4, GrantedStep
    <2>2. DocumentUsable'
      BY <1>1, <2>1, DocumentKept
    <2> QED BY <1>1, <1>3, <1>4, <2>1, <2>2, MidCall
  <1>5. ASSUME AllocNull(size) \/ AllocRaises(size)
        PROVE  /\ UNCHANGED <<cfg, heap>> /\ [Next]_vars /\ IInv'
               /\ CtxPlace' /\ DocumentUsable'
    <2>1. UNCHANGED <<cfg, heap>> /\ [Next]_vars /\ IInv'
      BY <1>2, <1>5, RefusedFacts DEF CtxInv
    <2> QED BY <1>1, <2>1, PlaceKept, DocumentKept DEF heap
  <1>6. CASE AllocNull(size) /\ call' = [call EXCEPT !.step = @ + 1]
             /\ UNCHANGED <<error, result, frames, inTry, status>>
    BY <1>1, <1>3, <1>5, <1>6, MidCall
  <1>7. CASE AllocNull(size) /\ status' = "nullWrite"
             /\ UNCHANGED <<error, call, result, frames, inTry>>
    BY <1>1, <1>5, <1>7, MidCall DEF CtxInv, CtxTypeOK
  <1>8. CASE AllocRaises(size) /\ Raise("get_value", ValueHandlers, "Mem_Failed")
    <2>1. /\ ControlOK' /\ call' = IdleCall
          /\ \/ result' = [op |-> "get_value", ok |-> FALSE] /\ error' \in Exceptions
             \/ result' = [op |-> "none", ok |-> FALSE]
      BY <1>8, RaiseFacts DEF Ops, ValueHandlers, Exceptions
    <2>2. ErrorsReported'
      BY <2>1 DEF ErrorsReported
    <2> QED BY <1>1, <1>5, <1>8, <2>1, <2>2, DataKept, BackToIdle DEF CtxInv, CtxTypeOK
  <1> QED BY <1>4, <1>6, <1>7, <1>8 DEF GetValueAlloc, size

(* A conversion ends by returning from inside its TRY.                     *)
LEMMA GetValueEndStep ==
  ASSUME CtxInv, GetValueEnd
  PROVE  CtxInv' /\ [Next]_vars
  <1>1. ReturnInsideTry("get_value", TRUE)
        /\ UNCHANGED <<vars, ctx, data, tree, error, schema, parsed>>
    BY DEF GetValueEnd
  <1>2. ControlOK' /\ call' = IdleCall
    BY <1>1, ReturnInsideTryFacts DEF Ops, CtxInv, CtxTypeOK
  <1>3. ErrorsReported'
    BY <1>1 DEF ErrorsReported, ReturnInsideTry, Returns
  <1> QED BY <1>1, <1>2, <1>3, ControlStep

(* jsonv_ctx_reset keeps the first CtxSize bytes of the head: the context, *)
(* where the head holds one.                                               *)
LEMMA CtxResetStep ==
  ASSUME CtxInv, CtxReset
  PROVE  CtxInv' /\ [Next]_vars
  <1>1. /\ ctx # NULL /\ CtxSize \in Keeps /\ CtxSize \in Sizes /\ CtxSize > 0
        /\ ResetTo(CtxSize) /\ error' = "none" /\ Returns("reset", TRUE) /\ parsed' = NULL
        /\ UNCHANGED <<ctx, data, tree, frames, inTry, schema, status>>
    BY RequestFacts DEF CtxReset, CanCall
  <1>2. [Next]_vars /\ IInv'
    BY <1>1, NextIInv DEF Next, CtxInv
  <1>3. CtxPlace'
    <2>1. /\ Exists' /\ HeadBlk' = HeadBlk /\ cfg' = cfg
          /\ live' = {r \in live : r.blk = HeadBlk /\ r.off + r.len <= CtxSize}
      <3>1. chain' = chain \/ chain' = <<HeadBlk>>
        BY <1>1 DEF ResetTo
      <3>2. Exists
        BY <1>1 DEF ResetTo
      <3> QED BY <1>1, <3>1, <3>2 DEF ResetTo, Exists, HeadBlk
    <2>2. ASSUME AlignUp(CtxSize) <= cfg.default
          PROVE  ctx \in live' /\ ctx = [blk |-> HeadBlk, off |-> 0, len |-> CtxSize]
      <3>1. ctx \in live /\ ctx = [blk |-> HeadBlk, off |-> 0, len |-> CtxSize]
        BY <1>1, <2>2 DEF CtxInv, CtxPlace
      <3>2. CtxSize \in Nat
        BY <1>1, SizesAssumption, WordFacts
      <3>3. ctx.blk = HeadBlk /\ ctx.off + ctx.len <= CtxSize
        BY <3>1, <3>2
      <3> QED BY <2>1, <3>1, <3>3
    <2> QED BY <1>1, <2>1, <2>2 DEF CtxPlace, AlignUp
  <1>4. ControlOK' /\ call' = IdleCall
    BY <1>1, ReturnFacts DEF Ops
  <1>5. ErrorsReported' /\ DocumentUsable'
    BY <1>1 DEF ErrorsReported, DocumentUsable, Returns
  <1> QED BY <1>1, <1>2, <1>3, <1>4, <1>5, DataKept, BackToIdle DEF CtxInv, CtxTypeOK

---------------------------------------------------------------------------
(* The theorems.                                                           *)

(* A process without a context satisfies the invariant.                    *)
LEMMA CtxInitInv == CtxInit => CtxInv
  <1> SUFFICES ASSUME CtxInit PROVE CtxInv
    OBVIOUS
  <1>1. IInv /\ ~Exists
    BY InitIInv DEF CtxInit, Init, Exists
  <1> QED BY <1>1 DEF CtxInit, CtxInv, CtxTypeOK, IInv, CtxPlace, FramesOK, CallOnContext, DataOK,
               ParseProgress, DocumentUsable, ErrorsReported, IdleCall, Garbage, NoTree

(* Every step of a call on a context keeps the invariant, and is a step    *)
(* of the arena or leaves it alone.                                        *)
LEMMA CtxNextInv == CtxInv /\ [CtxNext]_ctxVars => CtxInv' /\ [Next]_vars
  <1> SUFFICES ASSUME CtxInv, [CtxNext]_ctxVars PROVE CtxInv' /\ [Next]_vars
    OBVIOUS
  <1> QED BY HostTryStep, HostNewArenaStep, HostDestroyArenaStep, SchemaCompileStep,
             CtxNewStep, ParseBeginStep, ParseAllocStep, ParseDocumentStep,
             ValidateBeginStep, ValidateAllocStep, ValidateEndStep,
             GetValueBeginStep, GetValueAllocStep, GetValueEndStep, CtxResetStep
          DEF CtxNext

(* The strengthening every theorem below is read off.                      *)
THEOREM InductiveContext == CtxSpec => []CtxInv
  BY CtxInitInv, CtxNextInv, PTL DEF CtxSpec

(* Every variable of a context keeps its type.                             *)
THEOREM ContextTypeCorrect == CtxSpec => []CtxTypeOK
  BY InductiveContext, PTL DEF CtxInv

(* A context that fits the first block is never taken back by a reset.     *)
THEOREM ContextOutlivesResets == CtxSpec => []ContextPreserved
  <1>1. CtxInv => ContextPreserved
    BY DEF CtxInv, CtxPlace, ContextPreserved
  <1> QED BY <1>1, InductiveContext, PTL

(* Until a reset, what a parse that returned true left can be used.        *)
THEOREM ParsedDocumentUsable == CtxSpec => []DocumentUsable
  BY InductiveContext, PTL DEF CtxInv

(* Parsing and validating return false exactly when they report an error.  *)
THEOREM FalseMeansError == CtxSpec => []ErrorsReported
  BY InductiveContext, PTL DEF CtxInv

(* A parse that fails after its AST has storage does not leave nodes       *)
(* beside the key tree of another document.                                *)
THEOREM AstHasItsTree == CtxSpec => TreeMatchesAst
  <1>1. ASSUME CtxInv, CtxNext, call.op = "parse", call.step > 1, call' = IdleCall
        PROVE  data'.fill = "empty" \/ (tree'.doc = data'.doc /\ tree'.store \in live')
    <2>1. /\ call.step \in 1 .. 6 /\ data.fill = "empty"
          /\ call.step > 5 => tree.store \in live /\ tree.doc = data.doc
      BY <1>1 DEF CtxInv, ParseProgress
    <2>2. CASE ParseAlloc
      <3>1. call' # [call EXCEPT !.step = @ + 1]
        BY <1>1 DEF CtxInv, CtxTypeOK, IdleCall
      <3> QED BY <2>1, <2>2, <3>1 DEF ParseAlloc
    <2>3. CASE ParseDocument
      <3>1. call.step > 5 /\ tree' = tree /\ live' = live /\ data'.doc = data.doc
        <4>1. call.step = 6 /\ tree' = tree /\ live' = live
          BY <2>3 DEF ParseDocument, vars, heap
        <4>2. \E fill : data' = [data EXCEPT !.fill = fill]
          BY <2>3 DEF ParseDocument
        <4>3. data'.doc = data.doc
          BY <1>1, <4>2 DEF CtxInv, CtxTypeOK
        <4> QED BY <4>1, <4>3
      <3> QED BY <2>1, <3>1
    <2> QED BY <1>1, <2>2, <2>3
        DEF CtxNext, HostNewArena, HostDestroyArena, HostTry, HostEndTry, SchemaCompile, CtxNew,
            ParseBegin, ValidateBegin, ValidateAlloc, ValidateEnd, GetValueBegin, GetValueAlloc,
            GetValueEnd, CtxReset, CanCall, Idle
  <1>2. CtxInv /\ [CtxNext]_ctxVars =>
          [call.op = "parse" /\ call.step > 1 /\ call' = IdleCall =>
             data'.fill = "empty" \/ (tree'.doc = data'.doc /\ tree'.store \in live')]_ctxVars
    BY <1>1
  <1> QED BY <1>2, InductiveContext, PTL DEF CtxSpec, TreeMatchesAst

(* Whatever a context does is something its arena may do: every theorem    *)
(* above about Arena holds of the arena under a context.                   *)
THEOREM ContextUsesArena == CtxSpec => Spec
  <1>1. CtxInit => Init
    BY DEF CtxInit
  <1> QED BY <1>1, CtxNextInv, InductiveContext, PTL DEF CtxSpec, Spec

(* When no request comes within a header of SIZE_MAX, nothing a parse      *)
(* raises gets past it.                                                    *)
THEOREM ParseNeverEscapes ==
  ASSUME \A size \in Sizes : size < Word - Header - Align
  PROVE  CtxSpec => ParseContained
  <1> USE WordFacts
  <1>1. ASSUME CtxInv, NEW size \in Sizes
        PROVE  ~AllocRaising(size, "ARENA_OVERFLOW")
    <2>1. /\ size \in 0 .. Word - 1 /\ size < Word - 48
          /\ cfg.default \in 0 .. Word - 1 /\ cfg.limit \in 0 .. Word - 1
      BY SizesAssumption, ConfigAssumption, <1>1 DEF CtxInv, IInv, TypeOK, Header, Align
    <2>2. ~AlignOverflows(size) /\ AlignUp(size) <= Word - 33
      BY <2>1 DEF AlignOverflows, AlignUp, Align
    <2>3. AlignUp(size) \in 0 .. Word - 1
      BY <2>1, AlignUpFacts
    <2>4. Exists => ~GrowthOverflows(AlignUp(size))
      <3>1. Exists => cfg.default <= Word - 33
        <4>1. Exists => 32 + cfg.default <= cfg.limit
          BY <1>1 DEF CtxInv, IInv, HeadOK, BlockBytes, Header
        <4> DEFINE d == cfg.default
                   m == cfg.limit
        <4>2. d \in Nat /\ m \in Nat /\ m <= Word - 1 /\ (Exists => 32 + d <= m)
          BY <2>1, <4>1
        <4> HIDE DEF d, m
        <4>3. Exists => d <= Word - 33
          BY <4>2
        <4> QED BY <4>3 DEF d
      <3>2. NewCapacity(AlignUp(size)) \in {AlignUp(size), cfg.default}
        BY DEF NewCapacity
      <3> QED BY <2>1, <2>2, <2>3, <3>1, <3>2 DEF GrowthOverflows, Header
    <2> QED BY <2>2, <2>4 DEF AllocRaising, AllocOverflow
  <1>2. ASSUME NEW e \in Exceptions, e # "ARENA_OVERFLOW", Raise("parse", ParseHandlers, e)
        PROVE  UNCHANGED status
    BY <1>2 DEF Raise, ParseHandlers
  <1>3. ASSUME CtxInv, ParseAlloc
        PROVE  status' = "running"
    <2> DEFINE size == ParseSizes(call.doc)[call.step]
    <2>1. status = "running" /\ size \in Sizes
      <3>1. call.step \in 1 .. 5 /\ call.doc \in Doc /\ call.doc.length > 0
        BY <1>3 DEF ParseAlloc, CtxInv, ParseProgress
      <3> QED BY <1>3, <3>1, RequestFacts DEF ParseAlloc, Running
    <2> HIDE DEF size
    <2>2. CASE UNCHANGED status
      BY <2>1, <2>2
    <2>3. ASSUME NEW e \in Exceptions, AllocRaising(size, e), Raise("parse", ParseHandlers, e)
          PROVE  status' = "running"
      <3>1. e # "ARENA_OVERFLOW"
        BY <1>1, <1>3, <2>1, <2>3
      <3> QED BY <1>2, <2>1, <2>3, <3>1
    <2> QED BY <1>3, <2>2, <2>3 DEF ParseAlloc, size
  <1>4. ASSUME CtxInv, ParseDocument
        PROVE  status' = "running"
    <2>1. status = "running" /\ call.doc \in Doc
      BY <1>4 DEF ParseDocument, Running, CtxInv, ParseProgress
    <2>2. ASSUME NEW e \in {call.doc.parser, "Mem_Failed"} \ {"none"}
          PROVE  e \in Exceptions /\ e # "ARENA_OVERFLOW"
      <3>1. call.doc.parser \in {"MALFORMED_JSON", "MAXIMUM_NESTED_DEPTH_REACHED", "none"}
        BY <2>1, DocAssumption
      <3> QED BY <3>1 DEF Exceptions, LimitExceptions
    <2> QED BY <1>2, <1>4, <2>1, <2>2 DEF ParseDocument, ReturnInsideTry
  <1>5. ASSUME NEW d \in Doc, ParseBegin(d)
        PROVE  status' = "running"
    <2>1. status = "running"
      BY <1>5 DEF ParseBegin, CanCall, Idle, Running
    <2>2. CASE UNCHANGED status
      BY <2>1, <2>2
    <2>3. CASE d.prescan # "none" /\ Raise("parse", ParseHandlers, d.prescan)
      <3>1. d.prescan \in Exceptions /\ d.prescan # "ARENA_OVERFLOW"
        BY <2>3, DocAssumption DEF Exceptions, LimitExceptions
      <3> QED BY <1>2, <2>1, <2>3, <3>1
    <2> QED BY <1>5, <2>2, <2>3 DEF ParseBegin
  <1>6. ASSUME CtxInv, CtxNext, call.op = "parse"
        PROVE  ParseAlloc \/ ParseDocument
    BY <1>6 DEF CtxNext, HostNewArena, HostDestroyArena, HostTry, HostEndTry, SchemaCompile,
            CtxNew, ParseBegin, ValidateBegin, ValidateAlloc, ValidateEnd, GetValueBegin,
            GetValueAlloc, GetValueEnd, CtxReset, CanCall, Idle
  <1>7. CtxInv /\ [CtxNext]_ctxVars =>
          [call.op = "parse" \/ (\E d \in Doc : ParseBegin(d)) => status' = "running"]_ctxVars
    BY <1>3, <1>4, <1>5, <1>6
  <1> QED BY <1>7, InductiveContext, PTL DEF CtxSpec, ParseContained
=============================================================================
