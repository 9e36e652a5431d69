----------------------------- MODULE SendBuffer -----------------------------
(***************************************************************************)
(* Sending on one connection of net_io_server: what the kernel does not    *)
(* take at once is kept in a chain of blocks and sent when epoll reports   *)
(* the socket writable again.  The socket is registered edge triggered, so *)
(* that report comes once, after a send that failed with EAGAIN.           *)
(***************************************************************************)
EXTENDS MemBlocks

CONSTANTS
  DataLens,     \* lengths of the messages handed to send_data
  SockSize      \* size of the socket's send buffer

ASSUME SendAssumption ==
  /\ DataLens \subseteq Nat \ {0}
  /\ SockSize \in Nat \ {0}

VARIABLES
  send_buff_head, send_buff_offset, send_buff_data_len,
  spc,          \* where the net process stands in send_data
  left_data_len,
  accepted,     \* how many bytes send_data has been called with
  sent,         \* the bytes the kernel has taken, in order
  room,         \* free bytes of the socket's send buffer
  nospace,      \* a send has failed with EAGAIN since the last report
  writable,     \* epoll has EPOLLOUT to report
  connected,
  cut           \* history: the kernel has taken a part of a block

sendBufVars == <<send_buff_head, send_buff_offset, send_buff_data_len>>
sendSockVars == <<sent, room, nospace, writable>>
connVars == <<connected, cut>>
sendVars ==
  <<sendBufVars, spc, left_data_len, accepted, sendSockVars, connVars>>

SendInit ==
  /\ send_buff_head = <<>>
  /\ send_buff_offset = 0
  /\ send_buff_data_len = 0
  /\ spc = "idle"
  /\ left_data_len = 0
  /\ accepted = 0
  /\ sent = <<>>
  /\ room = SockSize
  /\ nospace = FALSE
  /\ writable = TRUE
  /\ connected = TRUE
  /\ cut = FALSE

-----------------------------------------------------------------------------
(* The socket *)

\* send() takes the bytes s, all of what was offered or a part of it
Taken(s) ==
  /\ sent' = sent \o s
  /\ room' = room - Len(s)
  /\ UNCHANGED <<nospace, writable>>

\* send() fails with EAGAIN
Again ==
  /\ nospace' = TRUE
  /\ UNCHANGED <<sent, room, writable>>

\* the peer reads; the first room after an EAGAIN is reported
PeerReads ==
  /\ connected
  /\ spc # "undefined"
  /\ room < SockSize
  /\ \E r \in room + 1 .. SockSize : room' = r
  /\ nospace' = FALSE
  /\ writable' = (writable \/ nospace)
  /\ UNCHANGED <<sendBufVars, spc, left_data_len, accepted, sent, connVars>>

-----------------------------------------------------------------------------
(* send_data(conn): what is in the buffer *)

first_mem_block_data_len ==
  IF single_mem_block(send_buff_head)
  THEN send_buff_data_len
  ELSE MemBlockSize - send_buff_offset

\* the bytes send() is offered, as far as they lie in the first block
Offered(n) ==
  [i \in 1 .. n |-> send_buff_head[1][send_buff_offset + i - 1]]

\* variant: the caller's data goes straight to the socket in any case
AfterFlushDirect == IF left_data_len = 0 THEN "idle" ELSE "direct"

\* after the buffer: on with the caller's own data, or back to the caller
AfterFlush ==
  CASE left_data_len = 0                             -> "idle"
    [] left_data_len # 0 /\ send_buff_data_len = 0   -> "direct"
    [] OTHER                                         -> "copy"

\* variant: the loop is left after one block
FlushWholeOnce ==
  /\ spc = "flush"
  /\ send_buff_data_len > 0
  /\ room >= first_mem_block_data_len
  /\ Taken(Offered(first_mem_block_data_len))
  /\ send_buff_head' = FreeFirst(send_buff_head, 1)
  /\ send_buff_offset' = 0
  /\ send_buff_data_len' = send_buff_data_len - first_mem_block_data_len
  /\ spc' = IF left_data_len = 0 THEN "idle" ELSE "copy"
  /\ UNCHANGED <<left_data_len, accepted, connVars>>

FlushWhole ==
  /\ spc = "flush"
  /\ send_buff_data_len > 0
  /\ room >= first_mem_block_data_len
  /\ Taken(Offered(first_mem_block_data_len))
  /\ send_buff_head' = FreeFirst(send_buff_head, 1)
  /\ send_buff_offset' = 0
  /\ send_buff_data_len' = send_buff_data_len - first_mem_block_data_len
  /\ UNCHANGED <<spc, left_data_len, accepted, connVars>>

\* the kernel takes a part: the length shrinks, the offset stays
FlushPart ==
  /\ spc = "flush"
  /\ send_buff_data_len > 0
  /\ room \in 1 .. first_mem_block_data_len - 1
  /\ Taken(Offered(room))
  /\ send_buff_data_len' = send_buff_data_len - room
  /\ cut' = TRUE
  /\ UNCHANGED <<send_buff_head, send_buff_offset, spc, left_data_len,
                 accepted, connected>>

FlushAgain ==
  /\ spc = "flush"
  /\ send_buff_data_len > 0
  /\ room = 0
  /\ Again
  /\ spc' = AfterFlush
  /\ UNCHANGED <<sendBufVars, left_data_len, accepted, connVars>>

FlushDone ==
  /\ spc = "flush"
  /\ send_buff_data_len <= 0
  /\ spc' = AfterFlush
  /\ UNCHANGED <<sendBufVars, left_data_len, accepted, sendSockVars, connVars>>

-----------------------------------------------------------------------------
(* send_data(conn, data, len) *)

send_data(n) ==
  /\ spc = "idle" /\ connected
  /\ accepted + n <= MaxBytes
  /\ accepted' = accepted + n
  /\ left_data_len' = n
  /\ spc' = "flush"
  /\ UNCHANGED <<sendBufVars, sendSockVars, connVars>>

\* the bytes of the call that are neither sent nor copied
Left == Bytes(accepted - left_data_len + 1, left_data_len)

DirectSend ==
  /\ spc = "direct"
  /\ left_data_len > 0
  /\ \E n \in 1 .. left_data_len :
       /\ n <= room
       /\ Taken(SubSeq(Left, 1, n))
       /\ left_data_len' = left_data_len - n
  /\ UNCHANGED <<sendBufVars, spc, accepted, connVars>>

DirectAgain ==
  /\ spc = "direct"
  /\ left_data_len > 0
  /\ room = 0
  /\ Again
  /\ spc' = "copy"
  /\ UNCHANGED <<sendBufVars, left_data_len, accepted, connVars>>

CopyBlock ==
  /\ spc = "copy"
  /\ left_data_len > 0
  /\ send_buff_offset + send_buff_data_len >= 0
  /\ LET used == send_buff_offset + send_buff_data_len
         copy_len == IF idle_len(used) < left_data_len
                     THEN idle_len(used) ELSE left_data_len
     IN  /\ send_buff_head' = Fill(WithRoom(send_buff_head, used), used,
                                   SubSeq(Left, 1, copy_len))
         /\ send_buff_data_len' = send_buff_data_len + copy_len
         /\ left_data_len' = left_data_len - copy_len
  /\ UNCHANGED <<send_buff_offset, spc, accepted, sendSockVars, connVars>>

\* a length below 0: the copy goes in front of a block, anything may follow
CopyWild ==
  /\ spc = "copy"
  /\ left_data_len > 0
  /\ send_buff_offset + send_buff_data_len < 0
  /\ spc' = "undefined"
  /\ UNCHANGED <<sendBufVars, left_data_len, accepted, sendSockVars, connVars>>

\* nothing left: the call returns its length
SendReturn ==
  /\ spc \in {"direct", "copy"}
  /\ left_data_len = 0
  /\ spc' = "idle"
  /\ UNCHANGED <<sendBufVars, left_data_len, accepted, sendSockVars, connVars>>

-----------------------------------------------------------------------------
(* do_io *)

on_epollout ==
  /\ spc = "idle" /\ connected
  /\ writable
  /\ writable' = FALSE
  /\ spc' = IF send_buff_data_len > 0 THEN "flush" ELSE "idle"
  /\ UNCHANGED <<sendBufVars, left_data_len, accepted, sent, room, nospace,
                 connVars>>

\* a send fails for good, or the connection ends for another reason
send_close_connection ==
  /\ connected
  /\ spc # "undefined"
  /\ connected' = FALSE
  /\ send_buff_head' = <<>>
  /\ spc' = "closed"
  /\ UNCHANGED <<send_buff_offset, send_buff_data_len, left_data_len,
                 accepted, sendSockVars, cut>>

SendProc ==
  \/ FlushWhole \/ FlushPart \/ FlushAgain \/ FlushDone
  \/ DirectSend \/ DirectAgain \/ CopyBlock \/ CopyWild
  \/ SendReturn \/ on_epollout

SendNext ==
  \/ \E n \in DataLens : send_data(n)
  \/ SendProc
  \/ send_close_connection
  \/ PeerReads

(***************************************************************************)
(* The net process goes on and the peer keeps reading; nobody has to call  *)
(* send_data and no connection has to close.                               *)
(***************************************************************************)
SendSpec == SendInit /\ [][SendNext]_sendVars
SendLiveSpec == SendSpec /\ WF_sendVars(SendProc) /\ WF_sendVars(PeerReads)

-----------------------------------------------------------------------------
SendTypeOK ==
  /\ send_buff_head \in Seq([Positions -> (1 .. MaxBytes) \union {Stale}])
  /\ send_buff_offset \in Positions
  /\ send_buff_data_len \in -MaxBytes .. MaxBytes
  /\ spc \in {"idle", "flush", "direct", "copy", "closed", "undefined"}
  /\ left_data_len \in 0 .. MaxBytes
  /\ accepted \in 0 .. MaxBytes
  /\ sent \in Seq((1 .. MaxBytes) \union {Stale})
  /\ room \in 0 .. SockSize
  /\ {nospace, writable, connected, cut} \subseteq BOOLEAN

(***************************************************************************)
(* What the kernel has taken, what the chain holds and what the running    *)
(* call still has to send are together the bytes send_data was called      *)
(* with: at every block boundary nothing is skipped, repeated or           *)
(* overwritten, as long as no block has been taken in part.                *)
(***************************************************************************)
SendNothingLost ==
  connected /\ ~cut =>
    sent \o Content(send_buff_head, send_buff_offset, send_buff_data_len)
         \o Left
      = Bytes(1, accepted)

(***************************************************************************)
(* The chain has the blocks its bytes need: send_data(conn) never looks at *)
(* a block that is not there, and no empty block stays behind.             *)
(***************************************************************************)
SendChainFits ==
  connected /\ ~cut =>
    Fits(send_buff_head, send_buff_offset, send_buff_data_len)

(***************************************************************************)
(* The send buffer is sound: its types, the bytes in it, and the blocks.   *)
(***************************************************************************)
BufferSound == SendTypeOK /\ SendNothingLost /\ SendChainFits

(***************************************************************************)
(* send_data promises to send the data or to keep it in the send buffer;   *)
(* whatever the kernel takes at a time, the peer gets the bytes in order.  *)
(***************************************************************************)
PeerGetsStream == IsPrefix(sent, Bytes(1, accepted))

(***************************************************************************)
(* Buffered bytes leave the buffer: the edge triggered EPOLLOUT is never   *)
(* used up while bytes remain that no failed send has asked it for again.  *)
(***************************************************************************)
BufferDrains ==
  send_buff_data_len > 0
    ~> (send_buff_data_len <= 0 \/ ~connected \/ spc = "undefined")
=============================================================================
