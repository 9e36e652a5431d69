----------------------------- MODULE PacketInput -----------------------------
(***************************************************************************)
(* on_recv_data of newbench, on top of RecvBuffer: it cuts the bytes of a  *)
(* connection into packets, which it pushes for the work processes, and    *)
(* leaves the beginning of the next one.  The plug-in's handle_input finds *)
(* the length of a packet in its first HeaderLen bytes.                    *)
(*                                                                         *)
(* Every turn of its loop is a step, for each push is seen by the others   *)
(* at once.  RecvBuffer knows no more of it than how many bytes it leaves. *)
(***************************************************************************)
EXTENDS RecvBuffer

CONSTANTS
  Ends,         \* where in the stream the packets of the peer end
  HeaderLen,    \* how many bytes of a packet tell its length
  MaxPkgLen     \* max_pkg_len of the configuration

\* the last byte and the length of packet k
End(k) == IF k = 0 THEN 0 ELSE Ends[k]
Length(k) == End(k) - End(k - 1)

ASSUME PacketAssumption ==
  /\ HeaderLen \in Nat \ {0} /\ MaxPkgLen \in Nat
  /\ Ends \in Seq(Nat)
  /\ \A k \in DOMAIN Ends : Length(k) \in HeaderLen .. MaxLeft + 1
  /\ \A j, k \in DOMAIN Ends : j < k => Ends[j] < Ends[k]

VARIABLES
  turn,         \* "out" of on_recv_data, in its loop, or "return"
  data_len,     \* bytes the loop has not looked at
  pushed        \* the packets in the receive queue, all there have been

inputVars == <<turn, data_len, pushed>>
allVars == <<vars, inputVars>>

InputInit ==
  /\ Init
  /\ turn = "out"
  /\ data_len = 0
  /\ pushed = <<>>

-----------------------------------------------------------------------------
(* What the peer sends, and what handle_input makes of it *)

Packet(k) == Bytes(End(k - 1) + 1, Length(k))

\* the length of the packet at the beginning of data; 0 when there is too
\* little to tell, -1 when no packet begins there
handle_input(data) ==
  LET starting == {k \in DOMAIN Ends : End(k - 1) + 1 = data[1]}
  IN  IF starting = {} THEN -1
      ELSE IF Len(data) < HeaderLen THEN 0
      ELSE Length(CHOOSE k \in starting : TRUE)

-----------------------------------------------------------------------------
(* on_recv_data *)

on_recv_data ==
  /\ pc = "handle" /\ turn = "out"
  /\ turn' = "loop"
  /\ data_len' = recv_buff_data_len
  /\ UNCHANGED <<vars, pushed>>

\* variant: p_push_data is not moved on
DataNotMoved == Content(recv_buff_head, recv_buff_offset, data_len)

\* p_push_data
Data == LET used == recv_buff_data_len - data_len
        IN  Content(recv_buff_head, recv_buff_offset + used, data_len)
pkg_len == handle_input(Data)

\* variant: a packet that ends where the data end is taken for incomplete
CompleteButLast == pkg_len \in 1 .. data_len - 1

Complete == pkg_len \in 1 .. data_len

Pushed ==
  /\ pushed' = Append(pushed, SubSeq(Data, 1, pkg_len))
  /\ data_len' = data_len - pkg_len

\* push succeeds, and so does the send of an answer of handle_input
InputPacket ==
  /\ turn = "loop"
  /\ Complete
  /\ pkg_len <= MaxPkgLen
  /\ Pushed
  /\ turn' = IF data_len' > 0 THEN "loop" ELSE "return"
  /\ UNCHANGED vars

InputIncomplete ==
  /\ turn = "loop"
  /\ pkg_len >= 0 /\ ~Complete
  /\ turn' = "return"
  /\ UNCHANGED <<vars, data_len, pushed>>

\* -1 makes do_io close the connection
InputCloses ==
  /\ turn = "loop"
  /\ turn' = "out"
  /\ close_connection

\* handle_input, or the length, or handle_dispatch, or the push
InputRefused ==
  /\ InputCloses
  /\ pkg_len < 0 \/ Complete
  /\ UNCHANGED <<data_len, pushed>>

\* the packet has been pushed when the send of the answer fails
InputSendFails ==
  /\ InputCloses
  /\ Complete
  /\ pkg_len <= MaxPkgLen
  /\ Pushed

Returns ==
  /\ turn = "return"
  /\ turn' = "out"
  /\ HandleLeaves(data_len)
  /\ UNCHANGED <<data_len, pushed>>

OnRecvData ==
  \/ on_recv_data \/ InputPacket \/ InputIncomplete
  \/ InputRefused \/ InputSendFails \/ Returns

\* the rest of do_io and the peer, as they are in RecvBuffer
DoIo == on_rdhup \/ on_epollin \/ on_nothing \/ Recv \/ RecvAgain \/ RecvEof
Others == DoIo \/ Arrive \/ PeerCloses \/ (turn = "out" /\ close_connection)

InputNext == OnRecvData \/ (Others /\ UNCHANGED inputVars)

InputSpec == InputInit /\ [][InputNext]_allVars
                       /\ WF_allVars(OnRecvData \/ (DoIo /\ UNCHANGED inputVars))

-----------------------------------------------------------------------------
InputTypeOK ==
  /\ TypeOK
  /\ turn \in {"out", "loop", "return"}
  /\ turn # "out" => pc = "handle"
  /\ turn = "loop" => data_len > 0
  /\ data_len \in 0 .. MaxBytes
  /\ pushed \in Seq(Seq((1 .. MaxBytes) \union {Stale}))

(***************************************************************************)
(* The packets pushed are those the peer has sent, whole, in order and     *)
(* once, however TCP and the blocks have cut the bytes.                    *)
(***************************************************************************)
PacketsAsSent == pushed = [k \in 1 .. Len(pushed) |-> Packet(k)]

(***************************************************************************)
(* When the net process goes back to epoll, no complete packet is left in  *)
(* the buffer: it would wait there until the peer happens to send more.    *)
(***************************************************************************)
NoPacketLeft ==
  open /\ pc = "idle" =>
    \A k \in DOMAIN Ends : Ends[k] <= read => k <= Len(pushed)

(***************************************************************************)
(* The receive buffer stays sound under on_recv_data: types, bytes and     *)
(* blocks, and no complete packet stays behind in it.                      *)
(***************************************************************************)
InputSound == InputTypeOK /\ NothingLost /\ ChainFits /\ NoPacketLeft

(***************************************************************************)
(* on_recv_data leaves less than one packet and what RecvBuffer allows it: *)
(* the two together do what RecvBuffer does on its own.                    *)
(***************************************************************************)
ImplementsRecvBuffer == Spec

(***************************************************************************)
(* A packet that has arrived is pushed, unless the connection ends: no     *)
(* edge of the socket is used up while bytes are there, and no call of     *)
(* on_recv_data stops short of a complete packet.                          *)
(***************************************************************************)
EveryPacketPushed ==
  \A k \in DOMAIN Ends :
    arrived >= Ends[k] ~> (Len(pushed) >= k \/ ~open)
=============================================================================
