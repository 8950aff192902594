-------------------------- MODULE RegionAllocator --------------------------
(***************************************************************************)
(* What an arena promises its clients, with no blocks, chains or limits:   *)
(* a set of live regions, each new one disjoint from all live ones, and a  *)
(* release that keeps exactly the regions inside a prefix of one block.    *)
(***************************************************************************)
EXTENDS Integers

CONSTANTS
  Block,    \* the memory blocks regions are carved from
  Offset,   \* the offsets inside a block
  Length,   \* the lengths a client asks for
  Prefix    \* the prefix lengths a client may ask to keep

VARIABLE live   \* the regions handed out and not released

Region == [blk : Block, off : Offset, len : Length]

(* Two regions of the same block share a byte.                             *)
Overlap(r, s) ==
  /\ r.blk = s.blk
  /\ r.off < s.off + s.len
  /\ s.off < r.off + r.len

(* The region lies in the first k bytes of block b.                        *)
InPrefix(r, b, k) == r.blk = b /\ r.off + r.len <= k

RegionInit == live = {}

Allocate(r) ==
  /\ \A s \in live : ~Overlap(r, s)
  /\ live' = live \cup {r}

Retain(b, k) == live' = {r \in live : InPrefix(r, b, k)}

ReleaseAll == live' = {}

\* An allocated region is live after the step, so live' bounds the choice.
RegionNext ==
  \/ \E r \in live' : r \in Region /\ Allocate(r)
  \/ \E b \in Block, k \in Prefix : Retain(b, k)
  \/ ReleaseAll

RegionSpec == RegionInit /\ [][RegionNext]_live
=============================================================================
