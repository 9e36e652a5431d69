------------------------------ MODULE MemBlocks ------------------------------
(***************************************************************************)
(* The block chains net_io_server keeps the unsent and the unprocessed     *)
(* bytes of a connection in (recv_buff_head and send_buff_head of          *)
(* conn_info_t).  A chain is a sequence of blocks of MEM_BLOCK_SIZE bytes, *)
(* of which buff_data_len bytes from position buff_offset of the first     *)
(* block on are in use.  Bytes are their positions in the stream.          *)
(*                                                                         *)
(* Blocks come from the free list all connections share and go back to it, *)
(* with whatever they hold; malloc is taken to succeed.                    *)
(***************************************************************************)
EXTENDS Integers, Sequences, SequencesExt

CONSTANTS
  MemBlockSize,   \* MEM_BLOCK_SIZE
  MaxBytes,       \* bound: the bytes that go in one direction
  Stale           \* what a recycled block holds, no byte of this stream

ASSUME BlockAssumption ==
  /\ MemBlockSize \in Nat \ {0}
  /\ MaxBytes \in Nat
  /\ Stale \notin Nat \ {0}

Positions == 0 .. MemBlockSize - 1

\* the bytes first, first + 1, ... of the stream, n of them
Bytes(first, n) == [i \in 1 .. n |-> first + i - 1]

\* alloc_mem_block: one block more at the end of the chain
alloc_mem_block(chain) == Append(chain, [p \in Positions |-> Stale])

\* the chain with room for the next byte: a block more when the last is full
WithRoom(chain, used) ==
  IF used % MemBlockSize = 0 THEN alloc_mem_block(chain) ELSE chain

\* bytes from position used of the last block on; what lies outside is lost
Fill(chain, used, bytes) ==
  LET at == used % MemBlockSize
  IN  [chain EXCEPT ![Len(chain)] =
        [p \in Positions |-> IF p - at + 1 \in DOMAIN bytes
                             THEN bytes[p - at + 1] ELSE @[p]]]

\* how many bytes fit into the last block
idle_len(used) == MemBlockSize - (used % MemBlockSize)

\* the first n blocks go to the free list
FreeFirst(chain, n) == SubSeq(chain, n + 1, Len(chain))

single_mem_block(chain) == Len(chain) = 1

\* byte i (from 0) of the blocks laid end to end, as merge_mem_block does
Merged(chain, i) == chain[1 + (i \div MemBlockSize)][i % MemBlockSize]

\* the bytes in use, in order
Content(chain, offset, data_len) ==
  [i \in 1 .. data_len |-> Merged(chain, offset + i - 1)]

\* a chain holds the blocks its bytes need and no other
Fits(chain, offset, data_len) ==
  /\ Len(chain) * MemBlockSize >= offset + data_len
  /\ (Len(chain) - 1) * MemBlockSize < offset + data_len
=============================================================================
