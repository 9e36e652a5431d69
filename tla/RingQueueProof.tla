---------------------------- MODULE RingQueueProof ----------------------------
(***************************************************************************)
(* The ring queue, for packets of any lengths and a ring of any length:    *)
(* the writer stays out of the data, and the bytes in the ring, found with *)
(* the stale snapshots that the two sides have, are a queue of packets.    *)
(***************************************************************************)
EXTENDS RingQueue, SequenceTheorems, TLAPS

\* the cell x bytes behind the start of the buffer, across its end
Wrap(x) == IF x >= BufferLen THEN x - BufferLen ELSE x

\* the bytes that the two indices say there are
Data == DataLen(read_index, write_index)

\* the packets of the queue lie one behind the other from read_index on:
\* packet k ends off[k] bytes behind it
Layout(off) ==
  /\ off[0] = 0 /\ off[Len(queue)] = Data
  /\ \A j, k \in 0 .. Len(queue) : j <= k => off[j] <= off[k]
  /\ \A k \in 1 .. Len(queue) :
       /\ off[k] = off[k - 1] + PacketLen[queue[k]]
       /\ \A i \in 0 .. PacketLen[queue[k]] - 1 :
            buffer[Wrap(read_index + off[k - 1] + i)] = <<queue[k], i + 1>>

Contents == \E off \in [0 .. Len(queue) -> 0 .. BufferLen - 1] : Layout(off)

\* a packet that is being copied had room when read_index was looked at, has
\* it still, and its bytes are behind the data
Pushing ==
  ppc = "copy" =>
    /\ pkt \in Packets /\ ppos <= PacketLen[pkt]
    /\ PacketLen[pkt] <= EmptyLen(pread)
    /\ Data + PacketLen[pkt] < BufferLen
    /\ \A i \in 0 .. ppos - 1 :
         buffer[Wrap(write_index + i)] = <<pkt, i + 1>>

\* what the consumer knows of the first packet, and has copied of it
Popping ==
  /\ cpc # "idle" => queue # <<>>
  /\ cpc \in {"peek", "copy"} => DataLen(read_index, cwrite) <= Data
  /\ cpc \in {"length", "copy"} => clen = PacketLen[queue[1]]
  /\ cpc = "copy" =>
       /\ clen <= DataLen(read_index, cwrite)
       /\ Len(cbuf) <= clen
       /\ \A i \in 1 .. Len(cbuf) : cbuf[i] = <<queue[1], i>>
  /\ cpc # "copy" => cbuf = <<>>

Inv == TypeOK /\ Contents /\ Pushing /\ Popping

USE DEF prodVars, consVars, vars

-----------------------------------------------------------------------------
(* Arithmetic of the ring *)

LEMMA Params ==
  /\ HeaderLen \in Nat \ {0} /\ BufferLen \in Nat /\ BufferLen > 1
  /\ None \notin Packets
  /\ \A p \in Packets : PacketLen[p] \in Nat /\ PacketLen[p] > HeaderLen
BY RingAssumption

\* What there is and what is free make up the ring, but for one byte.
LEMMA DataBounds ==
  ASSUME NEW r \in Cells, NEW w \in Cells
  PROVE  DataLen(r, w) \in 0 .. BufferLen - 1
BY Params DEF Cells, DataLen

LEMMA EmptyIs ==
  ASSUME NEW r \in Cells, write_index \in Cells
  PROVE  EmptyLen(r) = BufferLen - 1 - DataLen(r, write_index)
BY Params DEF Cells, DataLen, EmptyLen

\* The end of the data is the write index.
LEMMA DataEnd ==
  ASSUME NEW r \in Cells, NEW w \in Cells
  PROVE  Wrap(r + DataLen(r, w)) = w
BY Params DEF Cells, DataLen, Wrap

\* Wrap is the remainder, and stays in the ring.
LEMMA WrapIs ==
  ASSUME NEW x \in 0 .. 2 * BufferLen - 1
  PROVE  Wrap(x) \in Cells /\ Wrap(x) = x % BufferLen
<1>1. CASE x < BufferLen
  <2>1. x % BufferLen = x
    BY <1>1, Params
  <2> QED
    BY <1>1, <2>1, Params DEF Wrap, Cells
<1>2. CASE x >= BufferLen
  <2>1. x - BufferLen \in Nat /\ x - BufferLen < BufferLen
    BY <1>2, Params
  <2>2. x % BufferLen = x - BufferLen
    BY <1>2, <2>1, Params
  <2> QED
    BY <1>2, <2>1, <2>2, Params DEF Wrap, Cells
<1> QED
  BY <1>1, <1>2, Params

\* The write index moves: so much more data.
LEMMA PushMoves ==
  ASSUME NEW r \in Cells, NEW w \in Cells, NEW n \in Nat,
         DataLen(r, w) + n < BufferLen
  PROVE  Wrap(w + n) \in Cells /\ DataLen(r, Wrap(w + n)) = DataLen(r, w) + n
BY Params DEF Cells, DataLen, Wrap

\* The read index moves: so much less.
LEMMA PopMoves ==
  ASSUME NEW r \in Cells, NEW w \in Cells, NEW n \in Nat, n <= DataLen(r, w)
  PROVE  Wrap(r + n) \in Cells /\ DataLen(Wrap(r + n), w) = DataLen(r, w) - n
BY Params DEF Cells, DataLen, Wrap

\* The cells behind the data are not among those of the data.
LEMMA BehindIsOutside ==
  ASSUME NEW r \in Cells, NEW w \in Cells, NEW i \in Nat, NEW j \in Nat,
         DataLen(r, w) + i < BufferLen - 1, j < DataLen(r, w)
  PROVE  Wrap(w + i) # Wrap(r + j)
BY Params DEF Cells, DataLen, Wrap

\* Different bytes behind the data go to different cells.
LEMMA WrapInjective ==
  ASSUME NEW w \in Cells, NEW i \in Nat, NEW j \in Nat,
         i < BufferLen, j < BufferLen, i # j
  PROVE  Wrap(w + i) # Wrap(w + j)
BY Params DEF Cells, Wrap

\* Two moves are one.
LEMMA WrapTwice ==
  ASSUME NEW r \in Cells, NEW m \in Nat, NEW n \in Nat, m + n < BufferLen
  PROVE  Wrap(Wrap(r + m) + n) = Wrap(r + m + n)
BY Params DEF Cells, Wrap

\* Where push_data copies to and where write_index goes: the case distinction
\* of the code, made on a snapshot, is the remainder.
LEMMA PushCellIs ==
  ASSUME TypeOK, pkt \in Packets, PacketLen[pkt] <= EmptyLen(pread)
  PROVE  /\ \A i \in 0 .. PacketLen[pkt] - 1 : PushCell(i) = Wrap(write_index + i)
         /\ NewWrite = Wrap(write_index + PacketLen[pkt])
<1>1. PacketLen[pkt] \in Nat /\ write_index \in Cells /\ pread \in Cells
  BY Params DEF TypeOK
<1> QED
  BY <1>1, Params
  DEF PushCell, NewWrite, PushWraps, Wrap, EmptyLen, Cells

\* Where pop_data copies from, likewise, when so many bytes are there.
LEMMA PopCellIs ==
  ASSUME read_index \in Cells, NEW w \in Cells, NEW n \in Nat,
         n <= DataLen(read_index, w), NEW i \in 0 .. n - 1
  PROVE  PopCell(w, n, i) = Wrap(read_index + i)
BY Params DEF PopCell, Wrap, DataLen, Cells

LEMMA NewReadIs ==
  ASSUME TypeOK, clen <= DataLen(read_index, cwrite)
  PROVE  NewRead = Wrap(read_index + clen)
<1>1. read_index \in Cells /\ cwrite \in Cells /\ clen \in Nat
  BY DEF TypeOK
<1> QED
  BY <1>1, Params DEF NewRead, Wrap, DataLen, Cells

-----------------------------------------------------------------------------
(* The packets in the ring *)

\* Lengths and positions are numbers.
LEMMA QueueTypes ==
  ASSUME TypeOK
  PROVE  /\ Len(queue) \in Nat /\ DOMAIN queue = 1 .. Len(queue)
         /\ \A k \in 1 .. Len(queue) :
              /\ queue[k] \in Packets
              /\ PacketLen[queue[k]] \in Nat
              /\ PacketLen[queue[k]] > HeaderLen
         /\ queue # <<>> => Len(queue) >= 1
         /\ Data \in 0 .. BufferLen - 1
<1>1. queue \in Seq(Packets)
  BY DEF TypeOK
<1>2. Len(queue) \in Nat /\ DOMAIN queue = 1 .. Len(queue)
  BY <1>1, LenProperties
<1>3. \A k \in 1 .. Len(queue) : queue[k] \in Packets
  BY <1>1, ElementOfSeq
<1>4. queue # <<>> => Len(queue) >= 1
  BY <1>1, <1>2, EmptySeq
<1>5. Data \in 0 .. BufferLen - 1
  BY DataBounds DEF TypeOK, Data
<1> QED
  BY <1>2, <1>3, <1>4, <1>5, Params

\* The first packet lies at read_index, whole.
LEMMA FirstPacket ==
  ASSUME TypeOK, Contents, queue # <<>>
  PROVE  /\ queue[1] \in Packets
         /\ PacketLen[queue[1]] \in Nat /\ PacketLen[queue[1]] > HeaderLen
         /\ PacketLen[queue[1]] <= Data
         /\ \A i \in 0 .. PacketLen[queue[1]] - 1 :
              buffer[Wrap(read_index + i)] = <<queue[1], i + 1>>
<1>1. PICK off \in [0 .. Len(queue) -> 0 .. BufferLen - 1] : Layout(off)
  BY DEF Contents
<1>2. /\ Len(queue) \in Nat /\ 1 \in 1 .. Len(queue)
      /\ queue[1] \in Packets
      /\ PacketLen[queue[1]] \in Nat /\ PacketLen[queue[1]] > HeaderLen
      /\ Data \in Nat
  BY QueueTypes
<1>3. off[0] = 0 /\ off[1] = off[1 - 1] + PacketLen[queue[1]]
      /\ off[1] <= off[Len(queue)] /\ off[Len(queue)] = Data
  BY <1>1, <1>2 DEF Layout
<1>4. PacketLen[queue[1]] <= Data
  BY <1>2, <1>3
<1>5. ASSUME NEW i \in 0 .. PacketLen[queue[1]] - 1
      PROVE  buffer[Wrap(read_index + i)] = <<queue[1], i + 1>>
  <2>1. buffer[Wrap(read_index + off[1 - 1] + i)] = <<queue[1], i + 1>>
    BY <1>1, <1>2, <1>5 DEF Layout
  <2>2. read_index + off[1 - 1] + i = read_index + i
    BY <1>2, <1>3 DEF TypeOK, Cells
  <2> QED
    BY <2>1, <2>2
<1> QED
  BY <1>2, <1>4, <1>5

\* Data without a packet does not happen.
LEMMA DataIsPackets ==
  ASSUME TypeOK, Contents, Data > 0 PROVE queue # <<>>
<1>1. PICK off \in [0 .. Len(queue) -> 0 .. BufferLen - 1] : Layout(off)
  BY DEF Contents
<1>2. SUFFICES ASSUME queue = <<>> PROVE FALSE
  OBVIOUS
<1>3. Len(queue) = 0
  BY <1>2
<1>4. off[0] = 0 /\ off[0] = Data
  BY <1>1, <1>3 DEF Layout
<1> QED
  BY <1>4

\* The cells of a layout are cells of the data.
LEMMA LayoutInData ==
  ASSUME TypeOK, NEW off \in [0 .. Len(queue) -> 0 .. BufferLen - 1],
         Layout(off), NEW k \in 1 .. Len(queue),
         NEW i \in 0 .. PacketLen[queue[k]] - 1
  PROVE  off[k - 1] + i \in Nat /\ off[k - 1] + i < Data
<1>1. /\ Len(queue) \in Nat /\ PacketLen[queue[k]] \in Nat /\ Data \in Nat
  BY QueueTypes
<1>2. k - 1 \in 0 .. Len(queue) /\ k \in 0 .. Len(queue)
      /\ Len(queue) \in 0 .. Len(queue)
  BY <1>1
<1>3. off[k - 1] \in Nat /\ off[k] \in Nat
  BY <1>2, Params
<1>4. off[k] = off[k - 1] + PacketLen[queue[k]] /\ off[k] <= Data
  BY <1>1, <1>2 DEF Layout
<1> QED
  BY <1>1, <1>3, <1>4

LEMMA InitInv == Init => Inv
<1> SUFFICES ASSUME Init PROVE Inv
  OBVIOUS
<1> USE Params DEF Init
<1>1. TypeOK
  <2>1. <<None, 0>> \in Bytes
    BY DEF Bytes
  <2> QED
    BY <2>1, EmptySeq DEF TypeOK, Cells
<1>2. Contents
  <2> DEFINE off == [k \in 0 .. 0 |-> 0]
  <2>1. Len(queue) = 0 /\ Data = 0
    BY DEF Data, DataLen
  <2>2. off \in [0 .. Len(queue) -> 0 .. BufferLen - 1]
    BY <2>1
  <2>3. Layout(off)
    BY <2>1 DEF Layout
  <2> HIDE DEF off
  <2> QED
    BY <2>2, <2>3 DEF Contents
<1>3. Pushing /\ Popping
  BY DEF Pushing, Popping
<1> QED
  BY <1>1, <1>2, <1>3 DEF Inv

-----------------------------------------------------------------------------
(* The steps *)

\* The length field that is peeked at is that of the first packet.
LEMMA HeaderIs ==
  ASSUME Inv, cpc = "peek", HeaderLen <= DataLen(read_index, cwrite)
  PROVE  HeaderOf([i \in 1 .. HeaderLen |->
                     buffer[PopCell(cwrite, HeaderLen, i - 1)]])
           = PacketLen[queue[1]]
<1> USE DEF Inv
<1> DEFINE s == [i \in 1 .. HeaderLen |->
                   buffer[PopCell(cwrite, HeaderLen, i - 1)]]
           P == {p \in Packets : \A i \in DOMAIN s : s[i] = <<p, i>>}
<1>1. queue # <<>>
  BY DEF Popping
<1>2. /\ queue[1] \in Packets
      /\ PacketLen[queue[1]] \in Nat /\ PacketLen[queue[1]] > HeaderLen
      /\ \A i \in 0 .. PacketLen[queue[1]] - 1 :
           buffer[Wrap(read_index + i)] = <<queue[1], i + 1>>
  BY <1>1, FirstPacket
<1>3. ASSUME NEW i \in 1 .. HeaderLen PROVE s[i] = <<queue[1], i>>
  <2>1. i - 1 \in 0 .. HeaderLen - 1 /\ i - 1 \in 0 .. PacketLen[queue[1]] - 1
        /\ (i - 1) + 1 = i
    BY <1>2, <1>3, Params
  <2>2. PopCell(cwrite, HeaderLen, i - 1) = Wrap(read_index + (i - 1))
    BY <2>1, PopCellIs, Params DEF TypeOK
  <2>3. buffer[Wrap(read_index + (i - 1))] = <<queue[1], (i - 1) + 1>>
    BY <1>2, <2>1
  <2> QED
    BY <1>3, <2>1, <2>2, <2>3
<1>4. DOMAIN s = 1 .. HeaderLen /\ 1 \in 1 .. HeaderLen
  BY Params
<1>5. HeaderOf(s) = IF P = {} THEN 0 ELSE PacketLen[CHOOSE p \in P : TRUE]
  BY DEF HeaderOf
<1> HIDE DEF s
<1>6. queue[1] \in P
  BY <1>2, <1>3, <1>4
<1>7. \A p \in P : p = queue[1]
  BY <1>3, <1>4
<1> HIDE DEF P
<1>8. HeaderOf(s) = PacketLen[queue[1]]
  BY <1>5, <1>6, <1>7
<1> QED
  BY <1>8 DEF s

\* A length that pop_data goes on with is that of the first packet.
LEMMA PopHeaderIs ==
  ASSUME Inv, PopHeader
  PROVE  \/ cpc' = "idle" /\ clen' = 0
         \/ cpc' = "length" /\ clen' = PacketLen[queue[1]]
<1>1. /\ cpc = "peek"
      /\ \/ cpc' = "idle" /\ clen' = 0
         \/ /\ DataLen(read_index, cwrite) >= HeaderLen
            /\ cpc' = "length"
            /\ clen' = HeaderOf([i \in 1 .. HeaderLen |->
                                   buffer[PopCell(cwrite, HeaderLen, i - 1)]])
  BY DEF PopHeader
<1>2. DataLen(read_index, cwrite) \in Nat
  BY DataBounds, Params DEF Inv, TypeOK
<1>3. DataLen(read_index, cwrite) >= HeaderLen
        => HeaderLen <= DataLen(read_index, cwrite)
  BY <1>2, Params
<1> QED
  BY <1>1, <1>3, HeaderIs

\* The next byte the consumer copies is the next one of the first packet.
LEMMA PopByteIs ==
  ASSUME Inv, PopByte
  PROVE  /\ cbuf' = Append(cbuf, <<queue[1], Len(cbuf) + 1>>)
         /\ Len(cbuf) \in Nat /\ Len(cbuf) < PacketLen[queue[1]]
         /\ queue[1] \in Packets /\ PacketLen[queue[1]] \in Nat
<1> USE DEF Inv
<1>1. /\ cpc = "copy" /\ queue # <<>> /\ clen = PacketLen[queue[1]]
      /\ clen <= DataLen(read_index, cwrite) /\ Len(cbuf) < clen
      /\ cbuf' = Append(cbuf, buffer[PopCell(cwrite, clen, Len(cbuf))])
  BY DEF PopByte, Popping
<1>2. Len(cbuf) \in Nat /\ clen \in Nat
  BY LenProperties DEF TypeOK
<1>3. Len(cbuf) \in 0 .. clen - 1
  BY <1>1, <1>2
<1>4. PopCell(cwrite, clen, Len(cbuf)) = Wrap(read_index + Len(cbuf))
  BY <1>1, <1>2, <1>3, PopCellIs DEF TypeOK
<1>5. buffer[Wrap(read_index + Len(cbuf))] = <<queue[1], Len(cbuf) + 1>>
  BY <1>1, <1>3, FirstPacket
<1>6. queue[1] \in Packets /\ PacketLen[queue[1]] \in Nat
  BY <1>1, FirstPacket
<1> QED
  BY <1>1, <1>2, <1>4, <1>5, <1>6

\* What is delivered is the first packet.
LEMMA DeliveredIs ==
  ASSUME Inv, cpc = "copy", Len(cbuf) = clen
  PROVE  Delivered(cbuf) = queue[1] /\ queue # <<>> /\ queue[1] \in Packets
<1> USE DEF Inv
<1> DEFINE P == {p \in Packets : cbuf = [i \in 1 .. PacketLen[p] |-> <<p, i>>]}
<1>1. /\ queue # <<>> /\ clen = PacketLen[queue[1]]
      /\ \A i \in 1 .. Len(cbuf) : cbuf[i] = <<queue[1], i>>
  BY DEF Popping
<1>2. /\ queue[1] \in Packets
      /\ PacketLen[queue[1]] \in Nat /\ PacketLen[queue[1]] > HeaderLen
  BY <1>1, FirstPacket
<1>3. cbuf = [i \in 1 .. PacketLen[queue[1]] |-> <<queue[1], i>>]
  <2>1. cbuf \in [1 .. Len(cbuf) -> Bytes]
    BY LenProperties DEF TypeOK
  <2> QED
    BY <1>1, <2>1
<1>4. queue[1] \in P
  BY <1>2, <1>3
<1>5. ASSUME NEW p \in P PROVE p = queue[1]
  <2>1. /\ p \in Packets /\ PacketLen[p] \in Nat /\ PacketLen[p] > HeaderLen
        /\ cbuf = [i \in 1 .. PacketLen[p] |-> <<p, i>>]
    BY <1>5, Params
  <2>2. 1 \in 1 .. PacketLen[p] /\ 1 \in 1 .. PacketLen[queue[1]]
    BY <1>2, <2>1, Params
  <2>3. cbuf[1] = <<p, 1>>
    BY <2>1, <2>2
  <2>4. cbuf[1] = <<queue[1], 1>>
    BY <1>3, <2>2
  <2> QED
    BY <2>3, <2>4
<1>6. Delivered(cbuf) = IF P = {} THEN None ELSE CHOOSE p \in P : TRUE
  BY DEF Delivered
<1> HIDE DEF P
<1> QED
  BY <1>1, <1>2, <1>4, <1>5, <1>6

\* The facts about a push in progress that its steps use.
LEMMA PushFacts ==
  ASSUME Inv, ppc = "copy"
  PROVE  /\ pkt \in Packets /\ PacketLen[pkt] \in Nat /\ ppos \in Nat
         /\ ppos <= PacketLen[pkt] /\ Data \in Nat
         /\ Data + PacketLen[pkt] < BufferLen
         /\ read_index \in Cells /\ write_index \in Cells
         /\ \A i \in 0 .. PacketLen[pkt] - 1 :
              PushCell(i) = Wrap(write_index + i)
         /\ NewWrite = Wrap(write_index + PacketLen[pkt])
         /\ NewWrite \in Cells
         /\ DataLen(read_index, NewWrite) = Data + PacketLen[pkt]
<1> USE DEF Inv
<1>1. /\ pkt \in Packets /\ ppos \in Nat /\ ppos <= PacketLen[pkt]
      /\ PacketLen[pkt] <= EmptyLen(pread)
      /\ Data + PacketLen[pkt] < BufferLen
      /\ read_index \in Cells /\ write_index \in Cells
  BY DEF Pushing, TypeOK
<1>2. PacketLen[pkt] \in Nat /\ Data \in Nat
  BY <1>1, Params, QueueTypes
<1>3. /\ \A i \in 0 .. PacketLen[pkt] - 1 : PushCell(i) = Wrap(write_index + i)
      /\ NewWrite = Wrap(write_index + PacketLen[pkt])
  BY <1>1, PushCellIs
<1>4. /\ Wrap(write_index + PacketLen[pkt]) \in Cells
      /\ DataLen(read_index, Wrap(write_index + PacketLen[pkt]))
           = Data + PacketLen[pkt]
  BY <1>1, <1>2, PushMoves DEF Data
<1> QED
  BY <1>1, <1>2, <1>3, <1>4

\* The facts about the end of a pop.
LEMMA PopFacts ==
  ASSUME Inv, cpc = "copy"
  PROVE  /\ queue # <<>> /\ queue \in Seq(Packets)
         /\ clen = PacketLen[queue[1]] /\ clen \in Nat
         /\ read_index \in Cells /\ write_index \in Cells
         /\ Data \in Nat /\ clen <= Data
         /\ NewRead = Wrap(read_index + clen) /\ NewRead \in Cells
         /\ DataLen(NewRead, write_index) = Data - clen
<1> USE DEF Inv
<1>1. /\ queue # <<>> /\ clen = PacketLen[queue[1]]
      /\ clen <= DataLen(read_index, cwrite)
  BY DEF Popping
<1>2. /\ clen \in Nat /\ read_index \in Cells /\ write_index \in Cells
      /\ queue \in Seq(Packets)
  BY DEF TypeOK
<1>3. clen <= Data
  BY <1>1, FirstPacket
<1>4. Data \in Nat
  BY QueueTypes, Params
<1>5. NewRead = Wrap(read_index + clen)
  BY <1>1, NewReadIs
<1>6. /\ Wrap(read_index + clen) \in Cells
      /\ DataLen(Wrap(read_index + clen), write_index) = Data - clen
  BY <1>2, <1>3, PopMoves DEF Data
<1> QED
  BY <1>1, <1>2, <1>3, <1>4, <1>5, <1>6

LEMMA TypeStep == ASSUME Inv, [Next]_vars PROVE TypeOK'
<1> USE Params DEF Inv
<1>1. ASSUME NEW p \in Packets, PushSnapshot(p) PROVE TypeOK'
  BY <1>1 DEF TypeOK, PushSnapshot
<1>2. CASE PushByte
  <2>1. /\ ppc = "copy" /\ ppos < PacketLen[pkt]
        /\ buffer' = [buffer EXCEPT ![PushCell(ppos)] = <<pkt, ppos + 1>>]
    BY <1>2 DEF PushByte
  <2>2. pkt \in Packets /\ ppos \in Nat
    BY <2>1, PushFacts
  <2>3. <<pkt, ppos + 1>> \in Bytes
    BY <2>2 DEF Bytes
  <2>4. buffer' \in [Cells -> Bytes]
    BY <2>1, <2>3 DEF TypeOK
  <2> QED
    BY <1>2, <2>2, <2>4 DEF TypeOK, PushByte
<1>3. CASE PushPublish
  <2>1. pkt \in Packets /\ NewWrite \in Cells
    BY <1>3, PushFacts DEF PushPublish
  <2>2. queue' \in Seq(Packets)
    BY <1>3, <2>1, AppendProperties DEF PushPublish, TypeOK
  <2>3. 0 \in Cells
    BY DEF Cells
  <2> QED
    BY <1>3, <2>1, <2>2, <2>3 DEF TypeOK, PushPublish
<1>4. CASE PopPeek
  BY <1>4 DEF TypeOK, PopPeek
<1>5. CASE PopHeader
  <2>1. cpc = "peek" /\ cwrite' = 0 /\ 0 \in Cells
        /\ UNCHANGED <<buffer, read_index, write_index, prodVars, cbuf, queue,
                       out>>
    BY <1>5 DEF PopHeader, Cells
  <2>2. cpc' \in {"length", "idle"} /\ clen' \in Nat
    <3>1. queue # <<>>
      BY <2>1 DEF Popping
    <3>2. PacketLen[queue[1]] \in Nat
      BY <3>1, FirstPacket
    <3> QED
      BY <1>5, <3>2, PopHeaderIs
  <2> QED
    BY <2>1, <2>2 DEF TypeOK
<1>6. CASE PopLength
  <2>1. 0 \in Cells
    BY DEF Cells
  <2> QED
    BY <1>6, <2>1 DEF TypeOK, PopLength
<1>7. CASE PopByte
  <2>1. <<queue[1], Len(cbuf) + 1>> \in Bytes
    BY <1>7, PopByteIs DEF Bytes
  <2>2. cbuf' \in Seq(Bytes)
    <3>1. cbuf' = Append(cbuf, <<queue[1], Len(cbuf) + 1>>)
      BY <1>7, PopByteIs
    <3>2. cbuf \in Seq(Bytes)
      BY DEF TypeOK
    <3>3. \A b \in Bytes : Append(cbuf, b) \in Seq(Bytes)
      BY <3>2, AppendProperties
    <3> QED
      BY <2>1, <3>1, <3>3, Zenon
  <2> QED
    BY <1>7, <2>2 DEF TypeOK, PopByte
<1>8. CASE PopPublish
  <2>1. /\ cpc = "copy" /\ read_index' = NewRead /\ out' = Delivered(cbuf)
        /\ queue' = Tail(queue) /\ cpc' = "idle" /\ clen' = 0 /\ cwrite' = 0
        /\ cbuf' = <<>> /\ UNCHANGED <<buffer, write_index, prodVars>>
    BY <1>8 DEF PopPublish
  <2>2. NewRead \in Cells /\ queue # <<>>
    BY <2>1, PopFacts
  <2>3. Delivered(cbuf) \in Packets
    BY <1>8, DeliveredIs DEF PopPublish
  <2>4. Tail(queue) \in Seq(Packets)
    BY <2>2, HeadTailProperties DEF TypeOK
  <2>5. 0 \in Cells /\ <<>> \in Seq(Bytes)
    BY EmptySeq DEF Cells
  <2> QED
    BY <2>1, <2>2, <2>3, <2>4, <2>5 DEF TypeOK
<1>9. CASE UNCHANGED vars
  BY <1>9 DEF TypeOK
<1> QED
  BY <1>1, <1>2, <1>3, <1>4, <1>5, <1>6, <1>7, <1>8, <1>9
  DEF Next, Producer, Consumer

\* A byte that is copied goes behind the data.
LEMMA PushByteOutside ==
  ASSUME Inv, PushByte, NEW j \in Nat, j < Data
  PROVE  PushCell(ppos) # Wrap(read_index + j)
<1>1. ppc = "copy" /\ ppos < PacketLen[pkt]
  BY DEF PushByte
<1>2. /\ ppos \in 0 .. PacketLen[pkt] - 1 /\ ppos \in Nat
      /\ Data + ppos < BufferLen - 1
      /\ PushCell(ppos) = Wrap(write_index + ppos)
      /\ read_index \in Cells /\ write_index \in Cells
  BY <1>1, PushFacts, Params
<1>3. Wrap(write_index + ppos) # Wrap(read_index + j)
  BY <1>2, BehindIsOutside DEF Data
<1> QED
  BY <1>2, <1>3

-----------------------------------------------------------------------------
(* The contents after a step *)

LEMMA PushByteContents == ASSUME Inv, PushByte PROVE Contents'
<1> USE DEF Inv
<1>1. PICK off \in [0 .. Len(queue) -> 0 .. BufferLen - 1] : Layout(off)
  BY DEF Contents
<1>2. /\ UNCHANGED <<queue, read_index, write_index>>
      /\ buffer' = [buffer EXCEPT ![PushCell(ppos)] = <<pkt, ppos + 1>>]
  BY DEF PushByte
<1>3. Data' = Data
  BY <1>2 DEF Data
<1>4. ASSUME NEW k \in 1 .. Len(queue), NEW i \in 0 .. PacketLen[queue[k]] - 1
      PROVE  buffer'[Wrap(read_index + off[k - 1] + i)] = <<queue[k], i + 1>>
  <2>1. off[k - 1] + i \in Nat /\ off[k - 1] + i < Data
    BY <1>1, <1>4, LayoutInData
  <2>2. PushCell(ppos) # Wrap(read_index + (off[k - 1] + i))
    BY <2>1, PushByteOutside
  <2>3. /\ read_index + (off[k - 1] + i) = read_index + off[k - 1] + i
        /\ read_index + (off[k - 1] + i) \in 0 .. 2 * BufferLen - 1
    <3>1. k - 1 \in 0 .. Len(queue) /\ PacketLen[queue[k]] \in Nat
          /\ Data \in 0 .. BufferLen - 1
      BY QueueTypes
    <3>2. off[k - 1] \in Int /\ i \in Int
      BY <1>1, <3>1, Params
    <3>3. read_index \in 0 .. BufferLen - 1
      BY DEF TypeOK, Cells
    <3>4. read_index + (off[k - 1] + i) = read_index + off[k - 1] + i
      BY <3>2, <3>3, Params
    <3>5. ASSUME NEW x \in Nat, x < Data
          PROVE  read_index + x \in 0 .. 2 * BufferLen - 1
      BY <3>1, <3>3, <3>5, Params
    <3> QED
      BY <2>1, <3>4, <3>5
  <2>4. Wrap(read_index + off[k - 1] + i) \in Cells
    BY <2>3, WrapIs
  <2>5. buffer[Wrap(read_index + off[k - 1] + i)] = <<queue[k], i + 1>>
    BY <1>1 DEF Layout
  <2> QED
    BY <1>2, <2>2, <2>3, <2>4, <2>5 DEF TypeOK
<1>5. Layout(off)'
  BY <1>1, <1>2, <1>3, <1>4 DEF Layout
<1> QED
  BY <1>1, <1>2, <1>5 DEF Contents

LEMMA PushPublishContents == ASSUME Inv, PushPublish PROVE Contents'
<1> USE DEF Inv
<1>1. PICK off \in [0 .. Len(queue) -> 0 .. BufferLen - 1] : Layout(off)
  BY DEF Contents
<1>2. /\ ppc = "copy" /\ ppos = PacketLen[pkt]
      /\ queue' = Append(queue, pkt) /\ write_index' = NewWrite
      /\ UNCHANGED <<buffer, read_index>>
  BY DEF PushPublish
<1> DEFINE n == Len(queue)
           L == PacketLen[pkt]
<1>n. PICK new : new = [k \in 0 .. n + 1 |-> IF k <= n THEN off[k] ELSE Data + L]
  OBVIOUS
<1>3. /\ L \in Nat /\ Data \in Nat /\ Data + L < BufferLen /\ n \in Nat
      /\ pkt \in Packets /\ read_index \in Cells /\ write_index \in Cells
      /\ DataLen(read_index, NewWrite) = Data + L
  BY <1>2, PushFacts, QueueTypes
<1>4. Data' = Data + L
  BY <1>2, <1>3 DEF Data
<1>5. /\ Len(queue') = n + 1 /\ queue'[n + 1] = pkt
      /\ \A k \in 1 .. n : queue'[k] = queue[k]
  BY <1>2, <1>3, AppendProperties DEF TypeOK
<1>6. /\ \A k \in 0 .. n : new[k] = off[k]
      /\ new[n + 1] = Data + L
      /\ \A k \in 0 .. n : off[k] \in 0 .. BufferLen - 1 /\ off[k] <= Data
      /\ off[0] = 0 /\ off[n] = Data
  <2>1. /\ \A k \in 0 .. n : new[k] = off[k]
        /\ new[n + 1] = Data + L
    BY <1>3, <1>n
  <2>2. \A k \in 0 .. n : off[k] <= off[n]
    BY <1>1, <1>3 DEF Layout
  <2> QED
    BY <1>1, <1>3, <2>1, <2>2 DEF Layout
<1>7. new \in [0 .. n + 1 -> 0 .. BufferLen - 1]
  BY <1>1, <1>3, <1>n, Params
<1> HIDE DEF L
<1>8. \A j, k \in 0 .. n + 1 : j <= k => new[j] <= new[k]
  <2> SUFFICES ASSUME NEW j \in 0 .. n + 1, NEW k \in 0 .. n + 1, j <= k
               PROVE  new[j] <= new[k]
    OBVIOUS
  <2>1. CASE k \in 0 .. n
    BY <1>1, <1>3, <1>6, <2>1 DEF Layout
  <2>2. CASE j \in 0 .. n /\ k = n + 1
    <3>1. off[j] \in Int /\ off[j] <= Data
      BY <1>6, <2>2, Params
    <3> QED
      BY <1>3, <1>6, <2>2, <3>1
  <2>3. CASE j = n + 1 /\ k = n + 1
    BY <1>3, <1>6, <2>3
  <2> QED
    BY <1>3, <2>1, <2>2, <2>3
<1>9. ASSUME NEW k \in 1 .. n + 1
      PROVE  /\ new[k] = new[k - 1] + PacketLen[queue'[k]]
             /\ \A i \in 0 .. PacketLen[queue'[k]] - 1 :
                  buffer[Wrap(read_index + new[k - 1] + i)]
                    = <<queue'[k], i + 1>>
  <2>1. CASE k \in 1 .. n
    <3>1. k - 1 \in 0 .. n /\ k \in 0 .. n
      BY <1>3, <2>1
    <3> QED
      BY <1>1, <1>5, <1>6, <2>1, <3>1 DEF Layout
  <2>2. CASE k = n + 1
    <3>1. k - 1 = n /\ queue'[k] = pkt /\ new[k - 1] = Data
          /\ new[k] = Data + L
      BY <1>3, <1>5, <1>6, <2>2
    <3>2. ASSUME NEW i \in 0 .. L - 1
          PROVE  buffer[Wrap(read_index + Data + i)] = <<pkt, i + 1>>
      <4>1. Wrap(read_index + Data) = write_index
        BY <1>3, DataEnd DEF Data
      <4>2. i \in Nat /\ Data + i < BufferLen
        BY <1>3, <3>2, Params
      <4>3. Wrap(Wrap(read_index + Data) + i) = Wrap(read_index + Data + i)
        BY <1>3, <4>2, WrapTwice
      <4>4. buffer[Wrap(write_index + i)] = <<pkt, i + 1>>
        BY <1>2, <3>2 DEF Pushing, L
      <4> QED
        BY <4>1, <4>3, <4>4
    <3> QED
      BY <3>1, <3>2 DEF L
  <2>3. k \in 1 .. n \/ k = n + 1
    BY <1>3
  <2> QED
    BY <2>1, <2>2, <2>3, Zenon
<1>10. Layout(new)'
  <2>1. /\ new[0] = 0 /\ new[Len(queue')] = Data'
    BY <1>3, <1>4, <1>5, <1>6
  <2>2. \A k \in 1 .. Len(queue') :
          /\ new[k] = new[k - 1] + PacketLen[queue'[k]]
          /\ \A i \in 0 .. PacketLen[queue'[k]] - 1 :
               buffer'[Wrap(read_index' + new[k - 1] + i)]
                 = <<queue'[k], i + 1>>
    BY <1>2, <1>5, <1>9
  <2>3. \A j, k \in 0 .. Len(queue') : j <= k => new[j] <= new[k]
    BY <1>5, <1>8
  <2> QED
    BY <2>1, <2>2, <2>3 DEF Layout
<1> QED
  BY <1>5, <1>7, <1>10 DEF Contents

LEMMA PopPublishContents == ASSUME Inv, PopPublish PROVE Contents'
<1> USE DEF Inv
<1>1. PICK off \in [0 .. Len(queue) -> 0 .. BufferLen - 1] : Layout(off)
  BY DEF Contents
<1>2. /\ cpc = "copy" /\ queue' = Tail(queue) /\ read_index' = NewRead
      /\ UNCHANGED <<buffer, write_index>>
  BY DEF PopPublish
<1> DEFINE n == Len(queue) - 1
<1>3. PICK new : new = [k \in 0 .. n |-> off[k + 1] - clen]
  OBVIOUS
<1>4. /\ queue # <<>> /\ queue \in Seq(Packets)
      /\ clen = PacketLen[queue[1]] /\ clen \in Nat
      /\ read_index \in Cells /\ Data \in Nat /\ clen <= Data
      /\ NewRead = Wrap(read_index + clen)
      /\ DataLen(NewRead, write_index) = Data - clen
  BY <1>2, PopFacts
<1>5. Data' = Data - clen
  BY <1>2, <1>4 DEF Data
<1>6. /\ n \in Nat /\ Len(queue) = n + 1 /\ Len(queue') = n
      /\ \A k \in 1 .. n : queue'[k] = queue[k + 1]
  <2>1. Len(queue) \in Nat /\ Len(queue) >= 1
    BY <1>4, QueueTypes
  <2> QED
    BY <1>2, <1>4, <2>1, HeadTailProperties
<1>7. /\ off[0] = 0 /\ off[1] = clen /\ off[n + 1] = Data
      /\ \A k \in 0 .. n : /\ off[k + 1] \in 0 .. BufferLen - 1
                           /\ clen <= off[k + 1] /\ off[k + 1] <= Data
  <2>1. 1 \in 1 .. Len(queue)
    BY <1>6
  <2>2. off[0] = 0 /\ off[1] = off[1 - 1] + PacketLen[queue[1]]
        /\ off[n + 1] = Data
    BY <1>1, <1>6, <2>1 DEF Layout
  <2>3. off[1] = clen
    BY <1>4, <2>2
  <2>4. ASSUME NEW k \in 0 .. n
        PROVE  off[k + 1] \in 0 .. BufferLen - 1 /\ off[1] <= off[k + 1]
               /\ off[k + 1] <= off[n + 1]
    <3>1. k + 1 \in 0 .. Len(queue) /\ 1 \in 0 .. Len(queue) /\ 1 <= k + 1
          /\ n + 1 \in 0 .. Len(queue) /\ k + 1 <= n + 1
      BY <1>6, <2>4
    <3> QED
      BY <1>1, <3>1 DEF Layout
  <2> QED
    BY <2>2, <2>3, <2>4
<1>8. /\ new \in [0 .. n -> 0 .. BufferLen - 1]
      /\ \A k \in 0 .. n : new[k] = off[k + 1] - clen
  <2>1. \A k \in 0 .. n : off[k + 1] - clen \in 0 .. BufferLen - 1
    BY <1>4, <1>7, Params
  <2> QED
    BY <1>3, <2>1
<1> HIDE DEF n
<1>9. \A j, k \in 0 .. n : j <= k => new[j] <= new[k]
  <2> SUFFICES ASSUME NEW j \in 0 .. n, NEW k \in 0 .. n, j <= k
               PROVE  new[j] <= new[k]
    OBVIOUS
  <2>1. j + 1 \in 0 .. Len(queue) /\ k + 1 \in 0 .. Len(queue)
        /\ j + 1 <= k + 1
    BY <1>6
  <2>2. off[j + 1] <= off[k + 1]
    BY <1>1, <2>1 DEF Layout
  <2>3. off[j + 1] \in Int /\ off[k + 1] \in Int
    BY <1>7, Params
  <2> QED
    BY <1>4, <1>8, <2>2, <2>3
<1>10. ASSUME NEW k \in 1 .. n
       PROVE  /\ new[k] = new[k - 1] + PacketLen[queue'[k]]
              /\ \A i \in 0 .. PacketLen[queue'[k]] - 1 :
                   buffer[Wrap(NewRead + new[k - 1] + i)] = <<queue'[k], i + 1>>
  <2>1. /\ k + 1 \in 1 .. Len(queue) /\ (k + 1) - 1 = k /\ k \in 0 .. n
        /\ k - 1 \in 0 .. n /\ (k - 1) + 1 = k
        /\ queue'[k] = queue[k + 1]
    BY <1>6, <1>10
  <2>2. /\ off[k + 1] = off[(k + 1) - 1] + PacketLen[queue[k + 1]]
        /\ \A i \in 0 .. PacketLen[queue[k + 1]] - 1 :
             buffer[Wrap(read_index + off[(k + 1) - 1] + i)]
               = <<queue[k + 1], i + 1>>
    BY <1>1, <2>1 DEF Layout
  <2>3. new[k] = off[k + 1] - clen /\ new[k - 1] = off[k] - clen
        /\ off[k] \in 0 .. BufferLen - 1 /\ clen <= off[k]
        /\ PacketLen[queue[k + 1]] \in Nat
    <3>1. new[k - 1] = off[(k - 1) + 1] - clen
          /\ off[(k - 1) + 1] \in 0 .. BufferLen - 1
          /\ clen <= off[(k - 1) + 1]
      BY <1>7, <1>8, <2>1
    <3> QED
      BY <1>8, <2>1, <3>1, QueueTypes
  <2>i. clen \in Nat /\ read_index \in Nat /\ off[k] \in Nat /\ clen <= off[k]
    BY <1>4, <2>3, Params DEF Cells
  <2>4. ASSUME NEW i \in 0 .. PacketLen[queue[k + 1]] - 1
        PROVE  Wrap(NewRead + new[k - 1] + i) = Wrap(read_index + off[k] + i)
    <3>1. off[(k + 1) - 1] + i < Data
      BY <1>1, <2>1, LayoutInData
    <3>2. off[k] + i < BufferLen /\ off[k] + i \in Nat
      BY <2>1, <2>3, <3>1, QueueTypes, Params
    <3> DEFINE m == off[k] - clen + i
    <3>i. i \in Nat
      BY <2>3
    <3>3. m \in Nat /\ clen + m < BufferLen /\ clen + m = off[k] + i
      BY <2>i, <3>2, <3>i
    <3>4. NewRead + new[k - 1] + i = NewRead + m
      <4>1. NewRead \in Int
        BY <1>2, PopFacts, Params DEF Cells
      <4> QED
        BY <1>4, <2>3, <4>1, Params
    <3>5. read_index + off[k] + i = read_index + clen + m
      BY <2>i, <3>i
    <3> HIDE DEF m
    <3>6. Wrap(Wrap(read_index + clen) + m) = Wrap(read_index + clen + m)
      BY <1>4, <3>3, WrapTwice
    <3> QED
      BY <1>4, <3>4, <3>5, <3>6
  <2>5. new[k] = new[k - 1] + PacketLen[queue[k + 1]]
    <3>1. off[k + 1] = off[k] + PacketLen[queue[k + 1]]
      BY <2>1, <2>2
    <3> QED
      BY <2>3, <2>i, <3>1
  <2>6. \A i \in 0 .. PacketLen[queue[k + 1]] - 1 :
          buffer[Wrap(NewRead + new[k - 1] + i)] = <<queue[k + 1], i + 1>>
    BY <2>1, <2>2, <2>4
  <2> QED
    BY <2>1, <2>5, <2>6
<1>11. Layout(new)'
  <2>1. new[0] = 0 /\ new[Len(queue')] = Data'
    <3>1. 0 \in 0 .. n /\ n \in 0 .. n
      BY <1>6
    <3>2. new[0] = off[0 + 1] - clen /\ new[n] = off[n + 1] - clen
      BY <1>8, <3>1
    <3> QED
      BY <1>4, <1>5, <1>6, <1>7, <3>2
  <2>2. \A k \in 1 .. Len(queue') :
          /\ new[k] = new[k - 1] + PacketLen[queue'[k]]
          /\ \A i \in 0 .. PacketLen[queue'[k]] - 1 :
               buffer'[Wrap(read_index' + new[k - 1] + i)]
                 = <<queue'[k], i + 1>>
    BY <1>2, <1>6, <1>10
  <2>3. \A j, k \in 0 .. Len(queue') : j <= k => new[j] <= new[k]
    BY <1>6, <1>9
  <2> QED
    BY <2>1, <2>2, <2>3 DEF Layout
<1> QED
  BY <1>6, <1>8, <1>11 DEF Contents

LEMMA ContentsStep == ASSUME Inv, [Next]_vars PROVE Contents'
<1>1. CASE UNCHANGED <<buffer, queue, read_index, write_index>>
  <2>1. PICK off \in [0 .. Len(queue) -> 0 .. BufferLen - 1] : Layout(off)
    BY DEF Contents, Inv
  <2>2. Layout(off)'
    BY <1>1, <2>1 DEF Layout, Data
  <2> QED
    BY <1>1, <2>1, <2>2 DEF Contents
<1> QED
  BY <1>1, PushByteContents, PushPublishContents, PopPublishContents
  DEF Next, Producer, Consumer, PushSnapshot, PopPeek, PopHeader, PopLength,
      PopByte

-----------------------------------------------------------------------------
(* The two sides after a step *)

LEMMA PushingStep == ASSUME Inv, [Next]_vars PROVE Pushing'
<1> USE DEF Inv
<1>1. ASSUME NEW p \in Packets, PushSnapshot(p) PROVE Pushing'
  <2>1. /\ PacketLen[p] <= EmptyLen(read_index)
        /\ pkt' = p /\ pread' = read_index /\ ppos' = 0
        /\ UNCHANGED <<buffer, read_index, write_index>>
    BY <1>1 DEF PushSnapshot
  <2>2. Data' = Data /\ EmptyLen(pread)' = EmptyLen(read_index)
    BY <2>1 DEF Data, EmptyLen
  <2>3. EmptyLen(read_index) = BufferLen - 1 - Data
    BY EmptyIs DEF TypeOK, Data
  <2>4. PacketLen[p] \in Nat /\ Data \in Nat /\ BufferLen \in Nat
    BY <1>1, Params, QueueTypes
  <2>5. Data + PacketLen[p] < BufferLen
    BY <2>1, <2>3, <2>4
  <2> QED
    BY <1>1, <2>1, <2>2, <2>4, <2>5 DEF Pushing
<1>2. CASE PushByte
  <2>1. /\ ppc = "copy" /\ ppos < PacketLen[pkt] /\ ppos' = ppos + 1
        /\ buffer' = [buffer EXCEPT ![PushCell(ppos)] = <<pkt, ppos + 1>>]
        /\ UNCHANGED <<read_index, write_index, ppc, pkt, pread>>
    BY <1>2 DEF PushByte
  <2>2. /\ pkt \in Packets /\ PacketLen[pkt] \in Nat /\ ppos \in Nat
        /\ Data \in Nat /\ Data + PacketLen[pkt] < BufferLen
        /\ write_index \in Cells
        /\ \A i \in 0 .. PacketLen[pkt] - 1 :
             PushCell(i) = Wrap(write_index + i)
    BY <2>1, PushFacts
  <2>3. PushCell(ppos) = Wrap(write_index + ppos) /\ ppos < BufferLen
    BY <2>1, <2>2, Params
  <2>4. ASSUME NEW i \in 0 .. ppos
        PROVE  buffer'[Wrap(write_index + i)] = <<pkt, i + 1>>
    <3>1. i \in Nat /\ i < BufferLen
      BY <2>2, <2>3, Params
    <3>2. Wrap(write_index + i) \in Cells
      <4>1. write_index + i \in 0 .. 2 * BufferLen - 1
        BY <2>2, <3>1, Params DEF Cells
      <4> QED
        BY <4>1, WrapIs
    <3>3. CASE i = ppos
      BY <2>1, <2>3, <3>2, <3>3 DEF TypeOK
    <3>4. CASE i # ppos
      <4>1. Wrap(write_index + i) # Wrap(write_index + ppos)
        BY <2>2, <2>3, <3>1, <3>4, WrapInjective
      <4>2. i \in 0 .. ppos - 1
        BY <2>2, <3>1, <3>4
      <4>3. buffer[Wrap(write_index + i)] = <<pkt, i + 1>>
        BY <2>1, <4>2 DEF Pushing
      <4> QED
        BY <2>1, <2>3, <3>2, <4>1, <4>3 DEF TypeOK
    <3> QED
      BY <3>3, <3>4
  <2>5. Data' = Data /\ EmptyLen(pread)' = EmptyLen(pread)
    BY <2>1 DEF Data, EmptyLen
  <2>6. ppos' - 1 = ppos /\ ppos' <= PacketLen[pkt]
    BY <2>1, <2>2
  <2> QED
    BY <2>1, <2>2, <2>4, <2>5, <2>6 DEF Pushing
<1>3. CASE PushPublish
  BY <1>3 DEF PushPublish, Pushing
<1>4. CASE PopPublish
  <2>1. SUFFICES ASSUME ppc = "copy" PROVE Pushing'
    BY <1>4 DEF Pushing, PopPublish
  <2>2. /\ cpc = "copy" /\ read_index' = NewRead
        /\ UNCHANGED <<buffer, write_index, ppc, pkt, pread, ppos>>
    BY <1>4 DEF PopPublish
  <2>3. Data' = Data - clen /\ clen \in Nat /\ Data \in Nat
    BY <2>2, PopFacts DEF Data
  <2>4. PacketLen[pkt] \in Nat /\ Data + PacketLen[pkt] < BufferLen
    BY <2>1, PushFacts
  <2>5. Data' + PacketLen[pkt] < BufferLen
    BY <2>3, <2>4, Params
  <2>6. EmptyLen(pread)' = EmptyLen(pread)
    BY <2>2 DEF EmptyLen
  <2> QED
    BY <2>1, <2>2, <2>5, <2>6 DEF Pushing
<1>5. CASE UNCHANGED <<buffer, read_index, write_index, prodVars>>
  BY <1>5 DEF Pushing, Data, EmptyLen
<1> QED
  BY <1>1, <1>2, <1>3, <1>4, <1>5
  DEF Next, Producer, Consumer, PopPeek, PopHeader, PopLength, PopByte

LEMMA PoppingStep == ASSUME Inv, [Next]_vars PROVE Popping'
<1> USE DEF Inv
<1>1. CASE UNCHANGED <<read_index, write_index, queue, consVars>>
  BY <1>1 DEF Popping, Data
<1>2. CASE PushPublish
  <2>1. /\ ppc = "copy" /\ queue' = Append(queue, pkt)
        /\ write_index' = NewWrite
        /\ UNCHANGED <<read_index, consVars>>
    BY <1>2 DEF PushPublish
  <2>2. Data' >= Data /\ Data' \in Nat /\ Data \in Nat /\ pkt \in Packets
    BY <2>1, PushFacts DEF Data
  <2>3. queue # <<>> => queue' # <<>> /\ queue'[1] = queue[1]
    <3>1. queue \in Seq(Packets)
      BY DEF TypeOK
    <3> QED
      BY <2>1, <2>2, <3>1
  <2>4. DataLen(read_index, cwrite) \in Nat
    BY DataBounds, Params DEF TypeOK
  <2>5. DataLen(read_index, cwrite) <= Data
          => DataLen(read_index, cwrite) <= Data'
    BY <2>2, <2>4
  <2> QED
    BY <2>1, <2>3, <2>5 DEF Popping
<1>3. CASE PopPeek
  <2>1. /\ Data > 0 /\ cpc = "idle" /\ cpc' = "peek" /\ cwrite' = write_index
        /\ UNCHANGED <<read_index, write_index, queue, cbuf, clen>>
    BY <1>3 DEF PopPeek, Data
  <2>2. queue # <<>>
    BY <2>1, DataIsPackets
  <2>3. DataLen(read_index, write_index) <= Data
    BY QueueTypes, Params DEF Data
  <2> QED
    BY <2>1, <2>2, <2>3 DEF Popping, Data
<1>4. CASE PopHeader
  <2>1. cpc = "peek" /\ UNCHANGED <<read_index, write_index, queue, cbuf>>
    BY <1>4 DEF PopHeader
  <2> QED
    BY <1>4, <2>1, PopHeaderIs DEF Popping
<1>5. CASE PopLength
  <2>1. /\ cpc = "length" /\ UNCHANGED <<read_index, write_index, queue, cbuf>>
        /\ \/ cpc' = "idle"
           \/ /\ cpc' = "copy" /\ clen' = clen /\ cwrite' = write_index
              /\ clen <= Data
    BY <1>5 DEF PopLength, Data
  <2>2. Data <= Data /\ Len(<<>>) = 0 /\ clen \in Nat
    BY QueueTypes DEF TypeOK
  <2> QED
    BY <2>1, <2>2 DEF Popping, Data
<1>6. CASE PopByte
  <2>1. /\ cpc = "copy"
        /\ UNCHANGED <<read_index, write_index, queue, cpc, clen, cwrite>>
    BY <1>6 DEF PopByte
  <2>2. /\ cbuf' = Append(cbuf, <<queue[1], Len(cbuf) + 1>>)
        /\ Len(cbuf) \in Nat /\ Len(cbuf) < PacketLen[queue[1]]
        /\ queue[1] \in Packets /\ PacketLen[queue[1]] \in Nat
    BY <1>6, PopByteIs
  <2>3. <<queue[1], Len(cbuf) + 1>> \in Bytes
    BY <2>2 DEF Bytes
  <2>4. ASSUME NEW b \in Bytes, cbuf' = Append(cbuf, b)
        PROVE  /\ Len(cbuf') = Len(cbuf) + 1 /\ cbuf'[Len(cbuf) + 1] = b
               /\ \A i \in 1 .. Len(cbuf) : cbuf'[i] = cbuf[i]
    BY <2>4, AppendProperties DEF TypeOK
  <2>5. /\ Len(cbuf') = Len(cbuf) + 1
        /\ cbuf'[Len(cbuf) + 1] = <<queue[1], Len(cbuf) + 1>>
        /\ \A i \in 1 .. Len(cbuf) : cbuf'[i] = cbuf[i]
    BY <2>2, <2>3, <2>4, Zenon
  <2>6. clen = PacketLen[queue[1]]
    BY <2>1 DEF Popping
  <2>7. \A i \in 1 .. Len(cbuf') : cbuf'[i] = <<queue[1], i>>
    <3> SUFFICES ASSUME NEW i \in 1 .. Len(cbuf')
                 PROVE  cbuf'[i] = <<queue[1], i>>
      OBVIOUS
    <3>1. CASE i \in 1 .. Len(cbuf)
      BY <2>1, <2>5, <3>1 DEF Popping
    <3>2. CASE i = Len(cbuf) + 1
      BY <2>5, <3>2, Zenon
    <3> QED
      BY <2>2, <2>5, <3>1, <3>2
  <2>8. Len(cbuf') <= clen
    BY <2>2, <2>5, <2>6
  <2> QED
    BY <2>1, <2>7, <2>8 DEF Popping, Data
<1>7. CASE PopPublish
  BY <1>7 DEF PopPublish, Popping
<1> QED
  BY <1>1, <1>2, <1>3, <1>4, <1>5, <1>6, <1>7
  DEF Next, Producer, Consumer, PushSnapshot, PushByte

LEMMA InvStep == Inv /\ [Next]_vars => Inv'
<1> SUFFICES ASSUME Inv, [Next]_vars PROVE Inv'
  OBVIOUS
<1> QED
  BY TypeStep, ContentsStep, PushingStep, PoppingStep DEF Inv

-----------------------------------------------------------------------------
(* The theorems *)

\* The inductive invariant: types, the packets in the ring, and what each
\* side has seen and copied.
THEOREM RingInvariant == Spec => []Inv
BY InitInv, InvStep, PTL DEF Spec

\* A push in progress stays out of the data.
LEMMA PushingStaysOut == Inv => WriterStaysOut
<1> SUFFICES ASSUME Inv, ppc = "copy", NEW i \in ppos .. PacketLen[pkt] - 1
             PROVE  PushCell(i) \in Cells \ DataCells
  BY DEF WriterStaysOut
<1>1. /\ PacketLen[pkt] \in Nat /\ ppos \in Nat /\ Data \in Nat
      /\ Data + PacketLen[pkt] < BufferLen
      /\ read_index \in Cells /\ write_index \in Cells
      /\ \A k \in 0 .. PacketLen[pkt] - 1 : PushCell(k) = Wrap(write_index + k)
  BY PushFacts
<1>2. i \in Nat /\ i \in 0 .. PacketLen[pkt] - 1 /\ Data + i < BufferLen - 1
  BY <1>1, Params
<1>3. PushCell(i) = Wrap(write_index + i)
  BY <1>1, <1>2
<1>4. Wrap(write_index + i) \in Cells
  <2>1. write_index + i \in 0 .. 2 * BufferLen - 1
    BY <1>1, <1>2, Params DEF Cells
  <2> QED
    BY <2>1, WrapIs
<1>5. ASSUME NEW j \in 0 .. Data - 1
      PROVE  Wrap(write_index + i) # (read_index + j) % BufferLen
  <2>1. j \in Nat /\ j < Data
    BY <1>1
  <2>2. Wrap(write_index + i) # Wrap(read_index + j)
    BY <1>1, <1>2, <2>1, BehindIsOutside DEF Data
  <2>3. read_index + j \in 0 .. 2 * BufferLen - 1
    BY <1>1, <2>1, Params DEF Cells
  <2> QED
    BY <2>2, <2>3, WrapIs
<1> QED
  BY <1>3, <1>4, <1>5 DEF DataCells, Data

\* The ring is sound: indices and copies stay inside it, and the writer stays
\* out of the data the reader may be looking at, however stale the index is
\* that push_data has seen.
THEOREM RingSoundHolds == Spec => []RingSound
<1>1. Inv => RingSound
  BY PushingStaysOut DEF Inv, RingSound
<1> QED
  BY <1>1, RingInvariant, PTL

\* A step of the ring is a step of the packet queue, or none.
LEMMA RefinementStep == Inv /\ [Next]_vars => [Abstract!Next]_(Abstract!vars)
<1> SUFFICES ASSUME Inv, [Next]_vars PROVE [Abstract!Next]_(Abstract!vars)
  OBVIOUS
<1>1. CASE PushPublish
  <2>1. ppc = "copy" /\ queue' = Append(queue, pkt) /\ write_index' = NewWrite
        /\ UNCHANGED <<read_index, out>>
    BY <1>1 DEF PushPublish
  <2>2. /\ pkt \in Packets /\ PacketLen[pkt] \in Nat /\ Data \in Nat
        /\ Data + PacketLen[pkt] < BufferLen
        /\ DataLen(read_index, NewWrite) = Data + PacketLen[pkt]
    BY <2>1, PushFacts
  <2>3. Data + PacketLen[pkt] <= BufferLen - 1
    BY <2>2, Params
  <2>4. Abstract!Push(pkt)
    BY <2>1, <2>2, <2>3 DEF Abstract!Push, Data
  <2> QED
    BY <2>2, <2>4 DEF Abstract!Next
<1>2. CASE PopPublish
  <2>1. cpc = "copy" /\ Len(cbuf) = clen /\ queue' = Tail(queue)
        /\ read_index' = NewRead /\ out' = Delivered(cbuf)
        /\ UNCHANGED write_index
    BY <1>2 DEF PopPublish
  <2>2. /\ queue # <<>> /\ clen = PacketLen[queue[1]]
        /\ DataLen(NewRead, write_index) = Data - clen
    BY <2>1, PopFacts
  <2>3. Delivered(cbuf) = queue[1]
    BY <2>1, DeliveredIs
  <2>4. Head(queue) = queue[1]
    BY <2>2, HeadTailProperties DEF Inv, TypeOK
  <2>5. Abstract!Pop
    BY <2>1, <2>2, <2>3, <2>4 DEF Abstract!Pop, Data
  <2> QED
    BY <2>5 DEF Abstract!Next
<1>3. CASE UNCHANGED <<queue, read_index, write_index, out>>
  BY <1>3 DEF Abstract!vars, DataLen
<1> QED
  BY <1>1, <1>2, <1>3
  DEF Next, Producer, Consumer, PushSnapshot, PushByte, PopPeek, PopHeader,
      PopLength, PopByte

\* The ring implements the packet queue: packets come out whole, unmixed, in
\* order and once, and the indices account for exactly their bytes.
THEOREM ImplementsQueueHolds == Spec => ImplementsQueue
<1>1. Init => Abstract!Init
  BY DEF Init, Abstract!Init, DataLen
<1> QED
  BY <1>1, RingInvariant, RefinementStep, PTL
  DEF Spec, ImplementsQueue, Abstract!Spec
=============================================================================
