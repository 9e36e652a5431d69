---------------------------- MODULE PacketQueue -----------------------------
(***************************************************************************)
(* What a c_variable_queue promises its two users: a queue of whole        *)
(* packets, first in, first out, bounded by the bytes they take.           *)
(***************************************************************************)
EXTENDS Integers, Sequences

CONSTANTS
  Packets,
  PacketLen,    \* bytes of each packet, length field included
  Capacity,     \* get_buffer_len()
  None          \* nothing delivered yet

VARIABLES
  queue,        \* packets pushed and not yet popped
  used,         \* get_data_len()
  out           \* the packet delivered last

vars == <<queue, used, out>>

Init == queue = <<>> /\ used = 0 /\ out = None

\* push_data with is_atomic: the whole packet, or nothing
Push(p) ==
  /\ used + PacketLen[p] <= Capacity
  /\ queue' = Append(queue, p)
  /\ used' = used + PacketLen[p]
  /\ UNCHANGED out

\* pop_data delivers the oldest packet
Pop ==
  /\ queue # <<>>
  /\ out' = Head(queue)
  /\ queue' = Tail(queue)
  /\ used' = used - PacketLen[Head(queue)]

Next == Pop \/ \E p \in Packets : Push(p)

Spec == Init /\ [][Next]_vars
=============================================================================
