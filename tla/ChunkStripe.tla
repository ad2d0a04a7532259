----------------------------- MODULE ChunkStripe -----------------------------
(***************************************************************************)
(* The chunk-stripe layout of the store of custom-test/test2.c (and of the *)
(* RDMA programs grown from it): populate_chunk_stripe writes block b of   *)
(* every request side by side into chunks of chunk_slots slots, one chunk  *)
(* behind the other; block_ptr, used by the readers, computes the place of *)
(* (request, block) by division and remainder.                             *)
(*                                                                         *)
(* A store is a sequence of places as long as one block: every offset in   *)
(* the code is a multiple of block_bytes.  A place holds a block's tag     *)
(* <<req, blk>> (magic and fill byte are functions of it) or Zeros.        *)
(***************************************************************************)
EXTENDS Integers, SequencesExt

Zeros == <<-1, 0>>        \* no request's tag

ChunksPerBlock(c) == (c.requests + c.chunk_slots - 1) \div c.chunk_slots

Tag(c) == (0 .. c.requests - 1) \X (0 .. c.req_per_blocks - 1)

\* Mutant: the stripe is read as in test3-mt.c, one chunk for a block.
OneChunkPerBlock(c, req, blk) == blk * c.chunk_slots + (req % c.chunk_slots)

block_ptr(c, req, blk) ==
  (blk * ChunksPerBlock(c) + (req \div c.chunk_slots)) * c.chunk_slots + (req % c.chunk_slots)

-----------------------------------------------------------------------------
(* populate_chunk_stripe *)

SlotContent(c, req, blk) == IF req < c.requests THEN <<req, blk>> ELSE Zeros

\* A chunk is zeroed and gets block blk of the requests of its group.
Chunk(c, blk, group) ==
  [slot \in 1 .. c.chunk_slots |-> SlotContent(c, group * c.chunk_slots + slot - 1, blk)]

\* The loops over the blocks and the groups; chunk_id, which both increment, is the
\* number of chunks before.
Populated(c) ==
  FlattenSeq([b \in 1 .. c.req_per_blocks |->
    FlattenSeq([g \in 1 .. ChunksPerBlock(c) |-> Chunk(c, b - 1, g - 1)])])
=============================================================================
