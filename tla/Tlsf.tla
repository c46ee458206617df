---------------------------------- MODULE Tlsf ----------------------------------
(***************************************************************************)
(* The two-level segregated fit allocator behind MemoryPool, as operators  *)
(* on a pool.  Memory is counted in words of ALIGN_SIZE bytes.  A block is *)
(* named by the address of the word that holds its size; its size excludes *)
(* that word, and the next block follows it directly.                      *)
(*                                                                         *)
(* A free list is a sequence, a bitmap the set of its set bits.  The field *)
(* prev_phys_block overlaps the previous block's data and is NoBlock while *)
(* that block is used.                                                     *)
(***************************************************************************)
EXTENDS Integers, Sequences, FiniteSets, SequencesExt

CONSTANTS
    PoolWords,      \* pool_bytes, in words
    SlLog2          \* SL_INDEX_COUNT_LOG2 (5)

NoBlock == -1
BlockSizeMin == 3           \* block_size_min
HeaderWords == 4            \* sizeof(block_header_t)

\* tlsf_add_pool refuses a pool that has no room for one block.
ASSUME PoolAssumption == PoolWords \in Nat /\ PoolWords >= BlockSizeMin /\ SlLog2 \in Nat

\* 1 << k.
Bit[k \in Nat] == IF k = 0 THEN 1 ELSE 2 * Bit[k - 1]

SmallBlockSize == Bit[SlLog2]   \* SMALL_BLOCK_SIZE

\* tlsf_fls: the index of the highest bit that is set.
Fls(n) == CHOOSE k \in 0..n : Bit[k] <= n /\ n < Bit[k + 1]

--------------------------------------------------------------------------------
(***************************************************************************)
(* Size classes.                                                           *)
(***************************************************************************)
MappingInsert(size) ==
    IF size < SmallBlockSize
    THEN [fl |-> 0, sl |-> size]
    ELSE [fl |-> Fls(size) - SlLog2 + 1,
          sl |-> (size \div Bit[Fls(size) - SlLog2]) - SmallBlockSize]

MappingSearch(size) ==
    IF size < SmallBlockSize THEN MappingInsert(size)
    ELSE MappingInsert(size + Bit[Fls(size) - SlLog2] - 1)

Classes == {MappingInsert(n) : n \in 0..(2 * PoolWords)}

\* adjust_request_size, with the size in words already.
Adjust(size) == IF size = 0 THEN 0 ELSE IF size < BlockSizeMin THEN BlockSizeMin ELSE size

Least(S) == CHOOSE x \in S : \A y \in S : x <= y

\* search_suitable_block: the class to take a block from; NoClass when both bitmaps
\* are empty from there on.
NoClass == [fl |-> NoBlock, sl |-> NoBlock]

SearchSuitable(pool, c) ==
    LET here == {s \in pool.slBitmap : s.fl = c.fl /\ s.sl >= c.sl}
        above == {f \in pool.flBitmap : f > c.fl}
    IN  IF here # {} THEN [fl |-> c.fl, sl |-> Least({s.sl : s \in here})]
        ELSE IF above = {} THEN NoClass
        ELSE [fl |-> Least(above),
              sl |-> Least({s.sl : s \in {x \in pool.slBitmap : x.fl = Least(above)}})]

--------------------------------------------------------------------------------
(***************************************************************************)
(* Free lists.  These operators leave the headers alone.                   *)
(***************************************************************************)
Delete(s, b) ==
    IF \E i \in DOMAIN s : s[i] = b THEN RemoveAt(s, CHOOSE i \in DOMAIN s : s[i] = b) ELSE s

RemoveFreeBlock(pool, b, c) ==
    LET left == Delete(pool.blocks[c], b)
        bits == IF left = <<>> THEN pool.slBitmap \ {c} ELSE pool.slBitmap
    IN  [header |-> pool.header,
         blocks |-> [pool.blocks EXCEPT ![c] = left],
         slBitmap |-> bits,
         flBitmap |-> IF \E s \in bits : s.fl = c.fl THEN pool.flBitmap
                      ELSE pool.flBitmap \ {c.fl}]

InsertFreeBlock(pool, b, c) ==
    [header |-> pool.header,
     blocks |-> [pool.blocks EXCEPT ![c] = <<b>> \o @],
     slBitmap |-> pool.slBitmap \cup {c},
     flBitmap |-> pool.flBitmap \cup {c.fl}]

BlockRemove(pool, b) == RemoveFreeBlock(pool, b, MappingInsert(pool.header[b].size))
BlockInsert(pool, b) == InsertFreeBlock(pool, b, MappingInsert(pool.header[b].size))

--------------------------------------------------------------------------------
(***************************************************************************)
(* Blocks and their physical neighbours.  These operators are on the       *)
(* headers of the pool.                                                    *)
(***************************************************************************)
BlockNext(header, b) == b + 1 + header[b].size

BlockLinkNext(header, b) == [header EXCEPT ![BlockNext(header, b)].prevPhys = b]

BlockMarkAsFree(header, b) ==
    [BlockLinkNext(header, b) EXCEPT ![BlockNext(header, b)].prevFree = TRUE,
                                     ![b].free = TRUE]

BlockMarkAsUsed(header, b) ==
    [header EXCEPT ![BlockNext(header, b)].prevFree = FALSE,
                   ![BlockNext(header, b)].prevPhys = NoBlock,
                   ![b].free = FALSE]

\* block_split: the second part becomes a free block.
BlockSplit(header, b, size) ==
    LET rest == b + 1 + size
        fresh == [size |-> header[b].size - size - 1, free |-> FALSE,
                  prevFree |-> FALSE, prevPhys |-> NoBlock]
        cut == [x \in DOMAIN header \cup {rest} |->
                   IF x = rest THEN fresh
                   ELSE IF x = b THEN [header[b] EXCEPT !.size = size] ELSE header[x]]
    IN  BlockMarkAsFree(cut, rest)

\* block_absorb: the header of the second block is part of the first one now.
BlockAbsorb(header, prev, b) ==
    LET size == header[prev].size + header[b].size + 1
        joined == [x \in DOMAIN header \ {b} |->
                      IF x = prev THEN [header[prev] EXCEPT !.size = size] ELSE header[x]]
    IN  BlockLinkNext(joined, prev)

--------------------------------------------------------------------------------
(***************************************************************************)
(* The interface.                                                          *)
(***************************************************************************)
WithHeader(pool, header) ==
    [header |-> header, blocks |-> pool.blocks, slBitmap |-> pool.slBitmap,
     flBitmap |-> pool.flBitmap]

\* tlsf_create_with_pool: one free block and the sentinel behind it.
Create ==
    LET sentinel == PoolWords + 1
    IN  BlockInsert(
          [header |-> [b \in {0, sentinel} |->
              IF b = 0
              THEN [size |-> PoolWords, free |-> TRUE, prevFree |-> FALSE, prevPhys |-> NoBlock]
              ELSE [size |-> 0, free |-> FALSE, prevFree |-> TRUE, prevPhys |-> 0]],
           blocks |-> [c \in Classes |-> <<>>],
           slBitmap |-> {},
           flBitmap |-> {}], 0)

\* block_trim_free: what the request does not need goes back to the pool.
BlockTrimFree(pool, b, size) ==
    IF pool.header[b].size >= HeaderWords + size
    THEN LET split == BlockSplit(pool.header, b, size)
             rest == BlockNext(split, b)
             linked == [BlockLinkNext(split, b) EXCEPT ![rest].prevFree = TRUE]
         IN  BlockInsert(WithHeader(pool, linked), rest)
    ELSE pool

\* The block tlsf_malloc takes, or NoBlock.
Located(pool, size) ==
    LET c == SearchSuitable(pool, MappingSearch(Adjust(size)))
    IN  IF Adjust(size) = 0 \/ c = NoClass THEN NoBlock ELSE pool.blocks[c][1]

Malloc(pool, size) ==
    LET c == SearchSuitable(pool, MappingSearch(Adjust(size)))
        b == Located(pool, size)
        trimmed == BlockTrimFree(RemoveFreeBlock(pool, b, c), b, Adjust(size))
    IN  WithHeader(trimmed, BlockMarkAsUsed(trimmed.header, b))

\* block_merge_prev and block_merge_next: the pool, and the block that is left.
BlockMergePrev(pool, b) ==
    IF pool.header[b].prevFree
    THEN LET prev == pool.header[b].prevPhys
         IN  [pool |-> WithHeader(BlockRemove(pool, prev), BlockAbsorb(pool.header, prev, b)),
              block |-> prev]
    ELSE [pool |-> pool, block |-> b]

BlockMergeNext(pool, b) ==
    LET next == BlockNext(pool.header, b)
    IN  IF pool.header[next].free
        THEN [pool |-> WithHeader(BlockRemove(pool, next), BlockAbsorb(pool.header, b, next)),
              block |-> b]
        ELSE [pool |-> pool, block |-> b]

FreeBlock(pool, b) ==
    LET freed == WithHeader(pool, BlockMarkAsFree(pool.header, b))
        back == BlockMergePrev(freed, b)
        both == BlockMergeNext(back.pool, back.block)
    IN  BlockInsert(both.pool, both.block)

--------------------------------------------------------------------------------
(***************************************************************************)
(* What holds of every pool.                                               *)
(***************************************************************************)
Used(pool) == {b \in DOMAIN pool.header : ~pool.header[b].free /\ pool.header[b].size > 0}
Unused(pool) == {b \in DOMAIN pool.header : pool.header[b].free}

\* tlsf_check_pool: walking from block to block meets every header, ends at the
\* sentinel, and each block knows whether and where the one before it is free.
Partition(pool) ==
    /\ \A b \in DOMAIN pool.header \ {PoolWords + 1} : BlockNext(pool.header, b) \in DOMAIN pool.header
    /\ \A b \in DOMAIN pool.header \ {0} :
          \E a \in DOMAIN pool.header \ {PoolWords + 1} :
              /\ BlockNext(pool.header, a) = b
              /\ pool.header[b].prevFree = pool.header[a].free
              /\ pool.header[b].prevPhys = IF pool.header[a].free THEN a ELSE NoBlock

\* tlsf_check: free neighbours have been merged, every free block is in the list of
\* its size and in no other, and the bitmaps tell which lists have blocks.
ListsAccurate(pool) ==
    /\ \A b \in Unused(pool) : ~pool.header[b].prevFree /\ pool.header[b].size >= BlockSizeMin
    /\ \A c \in DOMAIN pool.blocks :
          /\ pool.blocks[c] # <<>> <=> c \in pool.slBitmap
          /\ \A i \in DOMAIN pool.blocks[c] :
                /\ pool.blocks[c][i] \in Unused(pool)
                /\ MappingInsert(pool.header[pool.blocks[c][i]].size) = c
    /\ \A b \in Unused(pool) :
          Cardinality({i \in DOMAIN pool.blocks[MappingInsert(pool.header[b].size)] :
                          pool.blocks[MappingInsert(pool.header[b].size)][i] = b}) = 1
    /\ pool.flBitmap = {c.fl : c \in pool.slBitmap}

================================================================================
