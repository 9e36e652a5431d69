----------------------------- MODULE RecvBuffer -----------------------------
(***************************************************************************)
(* Receiving on one connection of net_io_server: do_io reads the socket    *)
(* until EAGAIN into a chain of blocks, lays the blocks end to end, hands  *)
(* what is there to on_recv_data, which says how many bytes it has left,   *)
(* and frees the blocks that have been used up.                            *)
(***************************************************************************)
EXTENDS MemBlocks

CONSTANT
  MaxLeft       \* the most bytes on_recv_data leaves, a packet less one

ASSUME RecvAssumption == MaxLeft \in Nat

VARIABLES
  recv_buff_head, recv_buff_offset, recv_buff_data_len,
  pc,           \* where the net process stands in do_io
  recv_data_len,
  arrived,      \* how many bytes the socket has got from the peer
  read,         \* how many of them recv has returned
  fin,          \* the peer has closed its end
  readable,     \* epoll has EPOLLIN, or EPOLLRDHUP, to report
  taken,        \* the bytes on_recv_data has been given and has used
  shown,        \* how many bytes on_recv_data has seen
  open

bufVars == <<recv_buff_head, recv_buff_offset, recv_buff_data_len>>
sockVars == <<arrived, fin, readable>>
handlerVars == <<taken, shown>>
vars == <<bufVars, pc, recv_data_len, sockVars, read, handlerVars, open>>

Init ==
  /\ recv_buff_head = <<>>
  /\ recv_buff_offset = 0
  /\ recv_buff_data_len = 0
  /\ pc = "idle"
  /\ recv_data_len = 0
  /\ arrived = 0
  /\ read = 0
  /\ fin = FALSE
  /\ readable = FALSE
  /\ taken = <<>>
  /\ shown = 0
  /\ open = TRUE

-----------------------------------------------------------------------------
(* The peer *)

Arrive ==
  /\ open /\ ~fin
  /\ \E n \in arrived + 1 .. MaxBytes : arrived' = n
  /\ readable' = TRUE
  /\ UNCHANGED <<bufVars, pc, recv_data_len, read, fin, handlerVars, open>>

PeerCloses ==
  /\ open /\ ~fin
  /\ fin' = TRUE
  /\ readable' = TRUE
  /\ UNCHANGED <<bufVars, pc, recv_data_len, arrived, read, handlerVars, open>>

-----------------------------------------------------------------------------
(* do_io *)

\* close_connection, because the peer has closed ("eof") or for another reason
Closed(why) ==
  /\ open' = FALSE
  /\ pc' = why
  /\ recv_buff_head' = <<>>
  /\ UNCHANGED <<recv_buff_offset, recv_buff_data_len>>

\* the event, as epoll_wait has returned it, says that the peer has closed
on_rdhup ==
  /\ pc = "idle" /\ open
  /\ readable /\ fin
  /\ Closed("eof")
  /\ UNCHANGED <<recv_data_len, sockVars, read, handlerVars>>

on_epollin ==
  /\ pc = "idle" /\ open
  /\ readable /\ arrived > read /\ ~fin
  /\ readable' = FALSE
  /\ recv_data_len' = 0
  /\ pc' = "recv"
  /\ UNCHANGED <<bufVars, arrived, fin, read, handlerVars, open>>

\* the edge was about bytes that an earlier recv has returned already
on_nothing ==
  /\ pc = "idle" /\ open
  /\ readable /\ arrived = read /\ ~fin
  /\ readable' = FALSE
  /\ UNCHANGED <<bufVars, pc, recv_data_len, arrived, fin, read, handlerVars,
                 open>>

used_len == recv_buff_offset + recv_buff_data_len

\* variant: one recv per event
RecvOnce ==
  /\ pc = "recv"
  /\ \E n \in 1 .. idle_len(used_len) :
       /\ read + n <= arrived
       /\ recv_buff_head' = Fill(WithRoom(recv_buff_head, used_len),
                                 used_len, Bytes(read + 1, n))
       /\ recv_buff_data_len' = recv_buff_data_len + n
       /\ recv_data_len' = recv_data_len + n
       /\ read' = read + n
  /\ pc' = "handle"
  /\ UNCHANGED <<recv_buff_offset, sockVars, handlerVars, open>>

\* recv returns n bytes into the last block
Recv ==
  /\ pc = "recv"
  /\ \E n \in 1 .. idle_len(used_len) :
       /\ read + n <= arrived
       /\ recv_buff_head' = Fill(WithRoom(recv_buff_head, used_len),
                                 used_len, Bytes(read + 1, n))
       /\ recv_buff_data_len' = recv_buff_data_len + n
       /\ recv_data_len' = recv_data_len + n
       /\ read' = read + n
  /\ UNCHANGED <<recv_buff_offset, pc, sockVars, handlerVars, open>>

\* variant: the block taken for the recv that fails stays in the chain
RecvAgainKeeps ==
  /\ pc = "recv"
  /\ read = arrived /\ ~fin
  /\ recv_buff_head' = WithRoom(recv_buff_head, used_len)
  /\ pc' = "handle"
  /\ UNCHANGED <<recv_buff_offset, recv_buff_data_len, recv_data_len,
                 sockVars, read, handlerVars, open>>

\* recv fails with EAGAIN: the block taken for it is given back; a total of 0
\* counts as the end of the connection
RecvAgain ==
  /\ pc = "recv"
  /\ read = arrived /\ ~fin
  /\ IF recv_data_len > 0
     THEN pc' = "handle" /\ UNCHANGED <<bufVars, open>>
     ELSE Closed("eof")
  /\ UNCHANGED <<recv_data_len, sockVars, read, handlerVars>>

\* recv returns 0: whatever has been received for this event goes with it
RecvEof ==
  /\ pc = "recv"
  /\ read = arrived /\ fin
  /\ Closed("eof")
  /\ UNCHANGED <<recv_data_len, sockVars, read, handlerVars>>

\* on_recv_data has been shown the bytes in use and has left the last ones
Showed(left) ==
  /\ left <= recv_buff_data_len
  /\ taken' = taken \o Content(recv_buff_head, recv_buff_offset,
                               recv_buff_data_len - left)
  /\ shown' = read
  /\ recv_buff_data_len' = left
  /\ pc' = "idle"
  /\ UNCHANGED <<recv_data_len, sockVars, read, open>>

\* variant: a last block that has been used up is kept
HandleKeeps(left) ==
  LET used == recv_buff_offset + recv_buff_data_len - left
  IN  /\ Showed(left)
      /\ recv_buff_head' = FreeFirst(recv_buff_head, used \div MemBlockSize)
      /\ recv_buff_offset' = 0

(***************************************************************************)
(* The blocks that lie before the bytes that are left are freed, and so is *)
(* a last one of which everything has been used.                           *)
(***************************************************************************)
HandleLeaves(left) ==
  LET used == recv_buff_offset + recv_buff_data_len - left
      full == used \div MemBlockSize
      rest == used % MemBlockSize
      empty == left = 0 /\ rest # 0
  IN  /\ Showed(left)
      /\ recv_buff_head' =
           FreeFirst(recv_buff_head, IF empty THEN full + 1 ELSE full)
      /\ recv_buff_offset' = IF empty THEN 0 ELSE rest

Handle == pc = "handle" /\ \E left \in 0 .. MaxLeft : HandleLeaves(left)

\* on_recv_data returns -1, recv fails for good, or a send on the connection
close_connection ==
  /\ open
  /\ Closed("closed")
  /\ UNCHANGED <<recv_data_len, sockVars, read, handlerVars>>

NetProc ==
  on_rdhup \/ on_epollin \/ on_nothing \/ Recv \/ RecvAgain \/ RecvEof \/ Handle

Next == NetProc \/ Arrive \/ PeerCloses \/ close_connection

Spec == Init /\ [][Next]_vars
LiveSpec == Spec /\ WF_vars(NetProc)

-----------------------------------------------------------------------------
TypeOK ==
  /\ recv_buff_head \in Seq([Positions -> (1 .. MaxBytes) \union {Stale}])
  /\ recv_buff_offset \in Positions
  /\ {recv_buff_data_len, recv_data_len} \subseteq 0 .. MaxBytes
  /\ pc \in {"idle", "recv", "handle", "eof", "closed"}
  /\ arrived \in 0 .. MaxBytes
  /\ read \in 0 .. arrived
  /\ shown \in 0 .. read
  /\ taken \in Seq((1 .. MaxBytes) \union {Stale})
  /\ {fin, readable, open} \subseteq BOOLEAN

(***************************************************************************)
(* What on_recv_data has used and what the chain still holds are the bytes *)
(* recv has returned: the offset arithmetic of do_io and of recv_data      *)
(* agree on where the next byte lies, whatever on_recv_data leaves.        *)
(***************************************************************************)
NothingLost ==
  open => taken \o Content(recv_buff_head, recv_buff_offset,
                           recv_buff_data_len) = Bytes(1, read)

(***************************************************************************)
(* The chain has the blocks its bytes need, so that "is the last block     *)
(* full" can be told from the lengths alone.                               *)
(***************************************************************************)
ChainFits ==
  open => Fits(recv_buff_head, recv_buff_offset, recv_buff_data_len)

\* the connection as a byte stream from the peer to on_recv_data
Stream == INSTANCE ByteStream WITH given <- Bytes(1, arrived)

(***************************************************************************)
(* The receive buffer implements a byte stream: what on_recv_data has used *)
(* is the beginning of what the peer has sent, whatever portions it came   *)
(* in and wherever blocks and packets end.                                 *)
(***************************************************************************)
StreamSpec == Stream!Spec

(***************************************************************************)
(* newbench.wiki says that handle_process is called when there is a        *)
(* complete packet: what a peer has sent before it closed its end is       *)
(* shown to on_recv_data, unless something fails.                          *)
(***************************************************************************)
SentBeforeCloseIsShown ==
  \A n \in 1 .. MaxBytes : arrived >= n ~> (shown >= n \/ pc = "closed")
=============================================================================
