------------------------------ MODULE RingQueue -----------------------------
(***************************************************************************)
(* The send queue of newbench, g_psnd_rq: a c_variable_queue (packets that *)
(* begin with their length) on a c_ring_queue (a ring of bytes in shared   *)
(* memory).  Workers push, one at a time under g_snd_rq_lock; the net      *)
(* process pops without any lock.  So there is one producer and one        *)
(* consumer, each moves one index, and each works on a snapshot of the     *)
(* index of the other.                                                     *)
(*                                                                         *)
(* Bytes are copied one by one.  Loads and stores take effect in program   *)
(* order (x86); the indices are plain ints, nothing else keeps the         *)
(* compiler from moving them.                                              *)
(***************************************************************************)
EXTENDS Integers, Sequences, FiniteSets

CONSTANTS
  Packets,
  PacketLen,    \* bytes of each packet, length field included
  HeaderLen,    \* m_len, the bytes of the length field
  BufferLen,    \* buffer_len, one more than the length given to init
  RecvLens,     \* lengths of the consumer's buffers: buffer_send of on_wakeup,
                \* and psnd_data of net_proc
  None

ASSUME RingAssumption ==
  /\ HeaderLen \in Nat \ {0}
  /\ BufferLen \in Nat /\ BufferLen > 1
  /\ RecvLens \subseteq Nat /\ RecvLens # {}
  /\ PacketLen \in [Packets -> Nat]
  /\ \A p \in Packets : PacketLen[p] > HeaderLen
  /\ None \notin Packets

VARIABLES
  buffer,       \* cells; <<p, i>> is byte i of packet p
  read_index, write_index,
  ppc, pkt, pread, ppos,    \* producer: its packet, read_index snapshot, bytes copied
  cpc, clen, cwrite, cbuf,  \* consumer: length read, write_index snapshot, bytes copied
  queue,        \* history: packets published and not yet released
  out           \* the packet delivered last

prodVars == <<ppc, pkt, pread, ppos>>
consVars == <<cpc, clen, cwrite, cbuf>>
vars == <<buffer, read_index, write_index, prodVars, consVars, queue, out>>

Cells == 0..BufferLen-1
Bytes == (Packets \X Nat) \union {<<None, 0>>}

Init ==
  /\ buffer = [c \in Cells |-> <<None, 0>>]
  /\ read_index = 0 /\ write_index = 0
  /\ ppc = "idle" /\ pkt = None /\ pread = 0 /\ ppos = 0
  /\ cpc = "idle" /\ clen = 0 /\ cwrite = 0 /\ cbuf = <<>>
  /\ queue = <<>> /\ out = None

-----------------------------------------------------------------------------
(* Producer: push_data with is_atomic *)

\* variant: the distance is not taken modulo the buffer
EmptyLenNoWrap(r) == BufferLen - (write_index - r) - 1

\* variant: no byte is left free, a full ring looks empty
EmptyLenFull(r) ==
  IF write_index >= r THEN BufferLen - (write_index - r) ELSE r - write_index

\* current_empty_buffer_len; one byte tells a full ring from an empty one
EmptyLen(r) ==
  IF write_index >= r THEN BufferLen - (write_index - r) - 1
                      ELSE r - write_index - 1

\* the copy reaches the end of the buffer and goes on at its start
PushWraps ==
  write_index >= pread /\ PacketLen[pkt] >= BufferLen - write_index

\* read_index is read once; a packet that does not fit is refused (E_IDLE_BUFFER)
PushSnapshot(p) ==
  /\ ppc = "idle"
  /\ PacketLen[p] <= EmptyLen(read_index)
  /\ pkt' = p
  /\ pread' = read_index
  /\ ppos' = 0
  /\ ppc' = "copy"
  /\ UNCHANGED <<buffer, read_index, write_index, consVars, queue, out>>

PushCell(i) ==
  IF PushWraps /\ i >= BufferLen - write_index
    THEN i - (BufferLen - write_index)
    ELSE write_index + i

\* memcpy, one byte
PushByte ==
  /\ ppc = "copy"
  /\ ppos < PacketLen[pkt]
  /\ buffer' = [buffer EXCEPT ![PushCell(ppos)] = <<pkt, ppos + 1>>]
  /\ ppos' = ppos + 1
  /\ UNCHANGED <<read_index, write_index, ppc, pkt, pread, consVars, queue, out>>

NewWrite ==
  IF PushWraps THEN PacketLen[pkt] - (BufferLen - write_index)
               ELSE write_index + PacketLen[pkt]

\* the store to write_index hands the packet over
PushPublish ==
  /\ ppc = "copy"
  /\ ppos = PacketLen[pkt]
  /\ write_index' = NewWrite
  /\ queue' = Append(queue, pkt)
  /\ ppc' = "idle" /\ pkt' = None /\ pread' = 0 /\ ppos' = 0
  /\ UNCHANGED <<buffer, read_index, consVars, out>>

-----------------------------------------------------------------------------
(* Consumer: c_variable_queue::pop_data *)

\* variant: data behind the end of the buffer is not seen
DataLenNoWrap(r, w) == IF w >= r THEN w - r ELSE 0

\* get_data_len
DataLen(r, w) == IF w >= r THEN w - r ELSE BufferLen - (r - w)

\* cell of byte i when len bytes are copied from read_index on
PopCell(w, len, i) ==
  IF w < read_index /\ len >= BufferLen - read_index
     /\ i >= BufferLen - read_index
    THEN i - (BufferLen - read_index)
    ELSE read_index + i

\* the length field, if the bytes peeked at are one
HeaderOf(s) ==
  LET P == {p \in Packets : \A i \in DOMAIN s : s[i] = <<p, i>>}
  IN IF P = {} THEN 0 ELSE PacketLen[CHOOSE p \in P : TRUE]

\* pop_data_dummy copies the length field: get_data_len finds data.  The loads
\* of write_index in get_data_len and right after it are one step here, and so
\* are those in PopLength: the later one can only see more data.
PopPeek ==
  /\ cpc = "idle"
  /\ DataLen(read_index, write_index) > 0
  /\ cpc' = "peek"
  /\ cwrite' = write_index
  /\ UNCHANGED <<buffer, read_index, write_index, prodVars, clen, cbuf, queue, out>>

\* fewer bytes than a length field: pop_data returns 0; a length that does not
\* fit the buffer of this call: E_PARAM, the packet stays where it is
PopHeader ==
  \E room \in RecvLens :
  LET avail == DataLen(read_index, cwrite)
      len == HeaderOf([i \in 1..HeaderLen |->
                         buffer[PopCell(cwrite, HeaderLen, i - 1)]])
      ok == avail >= HeaderLen /\ len > HeaderLen /\ len <= room
  IN /\ cpc = "peek"
     /\ cpc' = IF ok THEN "length" ELSE "idle"
     /\ clen' = IF ok THEN len ELSE 0
     /\ cwrite' = 0
     /\ UNCHANGED <<buffer, read_index, write_index, prodVars, cbuf, queue, out>>

\* get_data_len again: the whole packet must be there
PopLength ==
  LET there == clen <= DataLen(read_index, write_index)
  IN /\ cpc = "length"
     /\ cpc' = IF there THEN "copy" ELSE "idle"
     /\ clen' = IF there THEN clen ELSE 0
     /\ cwrite' = IF there THEN write_index ELSE 0
     /\ UNCHANGED <<buffer, read_index, write_index, prodVars, cbuf, queue, out>>

\* memcpy of c_ring_queue::pop_data, one byte
PopByte ==
  /\ cpc = "copy"
  /\ Len(cbuf) < clen
  /\ cbuf' = Append(cbuf, buffer[PopCell(cwrite, clen, Len(cbuf))])
  /\ UNCHANGED <<buffer, read_index, write_index, prodVars, cpc, clen, cwrite,
                 queue, out>>

\* the packet that was copied, None if the bytes are not those of one packet
Delivered(s) ==
  LET P == {p \in Packets : s = [i \in 1..PacketLen[p] |-> <<p, i>>]}
  IN IF P = {} THEN None ELSE CHOOSE p \in P : TRUE

NewRead ==
  IF cwrite < read_index /\ clen >= BufferLen - read_index
    THEN clen - (BufferLen - read_index)
    ELSE read_index + clen

\* the store to read_index gives the cells back
PopPublish ==
  /\ cpc = "copy"
  /\ Len(cbuf) = clen
  /\ read_index' = NewRead
  /\ out' = Delivered(cbuf)
  /\ queue' = Tail(queue)
  /\ cpc' = "idle" /\ clen' = 0 /\ cwrite' = 0 /\ cbuf' = <<>>
  /\ UNCHANGED <<buffer, write_index, prodVars>>

-----------------------------------------------------------------------------
Producer == PushByte \/ PushPublish
Consumer == PopPeek \/ PopHeader \/ PopLength \/ PopByte \/ PopPublish

Next == (\E p \in Packets : PushSnapshot(p)) \/ Producer \/ Consumer

(***************************************************************************)
(* The net process pops in every round of its loop, which epoll_wait holds *)
(* up for 4 ms at most; a push that has begun ends.  Nobody need push.     *)
(***************************************************************************)
Spec == Init /\ [][Next]_vars /\ WF_vars(Producer) /\ WF_vars(Consumer)

-----------------------------------------------------------------------------
TypeOK ==
  /\ buffer \in [Cells -> Bytes]
  /\ read_index \in Cells /\ write_index \in Cells
  /\ ppc \in {"idle", "copy"} /\ pkt \in Packets \union {None}
  /\ pread \in Cells /\ ppos \in Nat
  /\ cpc \in {"idle", "peek", "length", "copy"} /\ clen \in Nat
  /\ cwrite \in Cells /\ cbuf \in Seq(Bytes)
  /\ queue \in Seq(Packets) /\ out \in Packets \union {None}

\* The cells from read_index up to write_index: data the consumer may read
DataCells ==
  {(read_index + i) % BufferLen : i \in 0..DataLen(read_index, write_index)-1}

\* Although read_index may have moved since push_data looked at it, no byte it
\* has still to copy goes to a cell the consumer may be reading.
WriterStaysOut ==
  ppc = "copy" =>
    \A i \in ppos..PacketLen[pkt]-1 : PushCell(i) \in Cells \ DataCells

\* The ring is sound: indices and copies stay inside it, the length field and
\* the packet across its end included, and the writer stays out of the data.
RingSound == TypeOK /\ WriterStaysOut

Abstract ==
  INSTANCE PacketQueue WITH
    Capacity <- BufferLen - 1,
    used <- DataLen(read_index, write_index)

\* The ring implements the packet queue: packets come out whole, unmixed, in
\* order and once, and the two indices account for exactly the bytes in it.
ImplementsQueue == Abstract!Spec

\* The queue is emptied ("until it is clean"): packets do not stay in it for
\* ever while the consumer runs.
PopsGoOn == []<>(queue = <<>>) \/ []<><<PopPublish>>_vars
=============================================================================
