--------------------------- MODULE ConnectionProof ---------------------------
(***************************************************************************)
(* Proofs about the two buffers of a connection, for every block size, any *)
(* number of bytes and packets, and however the kernel cuts the stream.    *)
(*                                                                         *)
(* The arithmetic of blocks comes first: where a byte of a chain lies, and *)
(* what copying behind the bytes in use and freeing the first blocks do to *)
(* each of them (FillContent, FreeContent).  Both halves rest on that.     *)
(***************************************************************************)
EXTENDS SendBuffer, PacketInput, SequenceTheorems, TLAPS

-----------------------------------------------------------------------------
(* Blocks and positions *)

\* What / and % of the block arithmetic give for a position.
LEMMA DivMod ==
  ASSUME NEW a \in Nat
  PROVE  /\ a \div MemBlockSize \in Nat
         /\ a % MemBlockSize \in Positions
         /\ a = (a \div MemBlockSize) * MemBlockSize + (a % MemBlockSize)
BY BlockAssumption DEF Positions

\* a block more is MemBlockSize more
LEMMA Times ==
  ASSUME NEW q \in Int
  PROVE  /\ q * MemBlockSize \in Int
         /\ (q + 1) * MemBlockSize = q * MemBlockSize + MemBlockSize
         /\ (q - 1) * MemBlockSize = q * MemBlockSize - MemBlockSize
BY BlockAssumption

\* so many blocks more are so many times MemBlockSize more
LEMMA TimesSum ==
  ASSUME NEW q \in Int, NEW r \in Int
  PROVE  /\ (q + r) * MemBlockSize = q * MemBlockSize + r * MemBlockSize
         /\ (q - r) * MemBlockSize = q * MemBlockSize - r * MemBlockSize
BY BlockAssumption

\* the order of blocks is the order of their first bytes
LEMMA TimesOrder ==
  ASSUME NEW q \in Int, NEW r \in Int, q < r
  PROVE  q * MemBlockSize + MemBlockSize <= r * MemBlockSize
<1>1. (r - q - 1) * MemBlockSize >= 0
  BY BlockAssumption
<1> QED BY <1>1, BlockAssumption

\* A block and a position in it determine the byte.
LEMMA DivModUnique ==
  ASSUME NEW q \in Int, NEW r \in Positions,
         q * MemBlockSize + r \in Nat
  PROVE  /\ (q * MemBlockSize + r) \div MemBlockSize = q
         /\ (q * MemBlockSize + r) % MemBlockSize = r
<1> DEFINE a == q * MemBlockSize + r
           d == a \div MemBlockSize
           m == a % MemBlockSize
<1>1. d \in Nat /\ m \in Positions /\ a = d * MemBlockSize + m
  BY DivMod
<1>2. q * MemBlockSize \in Int /\ d * MemBlockSize \in Int
  BY <1>1, Times
<1> HIDE DEF d, m
<1>3. ~ (q < d)
  <2> SUFFICES ASSUME q < d PROVE FALSE OBVIOUS
  <2>1. q * MemBlockSize + MemBlockSize <= d * MemBlockSize
    BY <1>1, TimesOrder
  <2> QED BY <1>1, <1>2, <2>1, BlockAssumption DEF Positions
<1>4. ~ (d < q)
  <2> SUFFICES ASSUME d < q PROVE FALSE OBVIOUS
  <2>1. d * MemBlockSize + MemBlockSize <= q * MemBlockSize
    BY <1>1, TimesOrder
  <2> QED BY <1>1, <1>2, <2>1, BlockAssumption DEF Positions
<1>5. d = q
  BY <1>1, <1>3, <1>4
<1>6. m = r
  BY <1>1, <1>2, <1>5 DEF Positions
<1> QED BY <1>5, <1>6 DEF d, m

-----------------------------------------------------------------------------
(* Chains of blocks *)

\* what a block can hold at a position, and the chains of such blocks
Cells == (1 .. MaxBytes) \union {Stale}
Chains == Seq([Positions -> Cells])

\* The lengths alone tell which block is the last.
LEMMA FitsBlocks ==
  ASSUME NEW chain \in Chains, NEW offset \in Nat, NEW n_data \in Nat,
         Fits(chain, offset, n_data)
  PROVE  LET used == offset + n_data
         IN  Len(chain) = IF used % MemBlockSize = 0
                          THEN used \div MemBlockSize
                          ELSE used \div MemBlockSize + 1
<1> DEFINE used == offset + n_data
           q == used \div MemBlockSize
           r == used % MemBlockSize
           n == Len(chain)
<1>1. q \in Nat /\ r \in Positions /\ used = q * MemBlockSize + r
  BY DivMod
<1>2. n \in Nat
  BY DEF Chains
<1>3. n * MemBlockSize >= used /\ n * MemBlockSize - MemBlockSize < used
  BY <1>2, Times DEF Fits
<1> HIDE DEF q, r, n
<1>4. /\ q * MemBlockSize \in Int /\ n * MemBlockSize \in Int
      /\ (q + 1) * MemBlockSize = q * MemBlockSize + MemBlockSize
  BY <1>1, <1>2, Times
<1>5. ~ (n < q)
  BY <1>1, <1>2, <1>3, <1>4, TimesOrder, BlockAssumption DEF Positions
<1>6. ~ (q + 1 < n)
  BY <1>1, <1>2, <1>3, <1>4, TimesOrder, BlockAssumption DEF Positions
<1>7. ASSUME r # 0, n = q PROVE FALSE
  <2>1. n * MemBlockSize = q * MemBlockSize
    BY <1>7
  <2> QED BY <1>1, <1>3, <1>4, <1>7, <2>1 DEF Positions
<1>8. ASSUME r = 0, n = q + 1 PROVE FALSE
  <2>1. n * MemBlockSize = q * MemBlockSize + MemBlockSize
    BY <1>4, <1>8
  <2> QED BY <1>1, <1>3, <1>4, <1>8, <2>1, BlockAssumption DEF Positions
<1>9. n = IF r = 0 THEN q ELSE q + 1
  BY <1>1, <1>2, <1>5, <1>6, <1>7, <1>8
<1> QED BY <1>9 DEF q, r, n

\* Filling the last block of a chain that has one gives a chain.
LEMMA FillType ==
  ASSUME NEW chain \in Chains, chain # <<>>, NEW used \in Nat,
         NEW bytes \in Seq(1 .. MaxBytes)
  PROVE  /\ Fill(chain, used, bytes) \in Chains
         /\ Len(Fill(chain, used, bytes)) = Len(chain)
         /\ \A b \in 1 .. Len(chain) - 1 :
              Fill(chain, used, bytes)[b] = chain[b]
         /\ \A p \in Positions :
              Fill(chain, used, bytes)[Len(chain)][p] =
                IF p - (used % MemBlockSize) + 1 \in 1 .. Len(bytes)
                THEN bytes[p - (used % MemBlockSize) + 1]
                ELSE chain[Len(chain)][p]
<1> DEFINE at == used % MemBlockSize
           last == [p \in Positions |-> IF p - at + 1 \in DOMAIN bytes
                                        THEN bytes[p - at + 1]
                                        ELSE chain[Len(chain)][p]]
<1>1. Fill(chain, used, bytes) = [chain EXCEPT ![Len(chain)] = last]
  BY DEF Fill
<1>2. Len(chain) \in 1 .. Len(chain)
  BY DEF Chains
<1>3. chain[Len(chain)] \in [Positions -> Cells]
  BY <1>2 DEF Chains
<1>4. at \in Int
  BY DivMod DEF Positions
<1>5. last \in [Positions -> Cells]
  <2> SUFFICES ASSUME NEW p \in Positions PROVE last[p] \in Cells
    OBVIOUS
  <2>1. CASE p - at + 1 \in DOMAIN bytes
    <3> DEFINE j == p - at + 1
    <3>0. j \in 1 .. Len(bytes)
      BY <2>1
    <3> HIDE DEF j
    <3>1. bytes[j] \in 1 .. MaxBytes
      BY <3>0, BlockAssumption
    <3>2. last[p] = bytes[j]
      BY <2>1 DEF j
    <3> QED BY <3>1, <3>2 DEF Cells
  <2>2. CASE p - at + 1 \notin DOMAIN bytes
    BY <2>2, <1>3
  <2> QED BY <2>1, <2>2
<1> HIDE DEF last
<1>6. [chain EXCEPT ![Len(chain)] = last] \in Chains
  BY <1>2, <1>5 DEF Chains
<1>7. /\ Len([chain EXCEPT ![Len(chain)] = last]) = Len(chain)
      /\ \A b \in 1 .. Len(chain) - 1 :
           [chain EXCEPT ![Len(chain)] = last][b] = chain[b]
      /\ [chain EXCEPT ![Len(chain)] = last][Len(chain)] = last
  BY <1>2 DEF Chains
<1>8. DOMAIN bytes = 1 .. Len(bytes)
  OBVIOUS
<1>9. \A p \in Positions :
        last[p] = IF p - at + 1 \in 1 .. Len(bytes)
                  THEN bytes[p - at + 1] ELSE chain[Len(chain)][p]
  BY <1>8 DEF last
<1> DEFINE new == [chain EXCEPT ![Len(chain)] = last]
<1>10. /\ new \in Chains
       /\ Len(new) = Len(chain)
       /\ \A b \in 1 .. Len(chain) - 1 : new[b] = chain[b]
       /\ new[Len(chain)] = last
  BY <1>6, <1>7
<1> HIDE DEF new
<1>11. Fill(chain, used, bytes) = new
  BY <1>1 DEF new
<1> QED BY <1>9, <1>10, <1>11

\* A chain with room has a block for the next byte.
LEMMA RoomType ==
  ASSUME NEW chain \in Chains, NEW used \in Nat
  PROVE  /\ WithRoom(chain, used) \in Chains
         /\ Len(WithRoom(chain, used)) =
              IF used % MemBlockSize = 0 THEN Len(chain) + 1 ELSE Len(chain)
         /\ \A b \in 1 .. Len(chain) : WithRoom(chain, used)[b] = chain[b]
<1>1. [p \in Positions |-> Stale] \in [Positions -> Cells]
  BY DEF Cells
<1> QED BY <1>1 DEF WithRoom, alloc_mem_block, Chains

\* Where a byte lies: block and position.
LEMMA MergedAt ==
  ASSUME NEW chain, NEW q \in Nat, NEW r \in Positions
  PROVE  Merged(chain, q * MemBlockSize + r) = chain[q + 1][r]
<1>1. q * MemBlockSize + r \in Nat
  BY BlockAssumption DEF Positions
<1>2. /\ (q * MemBlockSize + r) \div MemBlockSize = q
      /\ (q * MemBlockSize + r) % MemBlockSize = r
  BY <1>1, DivModUnique
<1> QED BY <1>2 DEF Merged

\* recv_data and send_data copy bytes behind those in use
Used(offset, n_data) == offset + n_data
Copied(chain, used, bytes) == Fill(WithRoom(chain, used), used, bytes)

\* Copying bytes behind those in use: what was there stays, the new bytes
\* follow, and the chain has the blocks for both.
LEMMA FillContent ==
  ASSUME NEW chain \in Chains, NEW offset \in Nat, NEW n_data \in Nat,
         Fits(chain, offset, n_data),
         NEW bytes \in Seq(1 .. MaxBytes),
         Len(bytes) \in 1 .. idle_len(Used(offset, n_data))
  PROVE  LET used == Used(offset, n_data)
             new == Copied(chain, used, bytes)
         IN  /\ new \in Chains
             /\ Fits(new, offset, n_data + Len(bytes))
             /\ \A i \in 0 .. used - 1 : Merged(new, i) = Merged(chain, i)
             /\ \A i \in 1 .. Len(bytes) : Merged(new, used + i - 1) = bytes[i]
<1> DEFINE used == Used(offset, n_data)
           new == Copied(chain, used, bytes)
           q == used \div MemBlockSize
           r == used % MemBlockSize
           room1 == WithRoom(chain, used)
<1>0. used \in Nat /\ used = offset + n_data
  BY DEF Used
<1>2. Len(chain) = IF r = 0 THEN q ELSE q + 1
  BY FitsBlocks DEF Used
<1>d. Len(bytes) \in 1 .. idle_len(used)
  OBVIOUS
<1> HIDE DEF used
<1>1. /\ used \in Nat /\ q \in Nat /\ r \in Positions
      /\ used = q * MemBlockSize + r /\ used = offset + n_data
  BY <1>0, DivMod
<1>3. room1 \in Chains /\ Len(room1) = q + 1
      /\ \A b \in 1 .. Len(chain) : room1[b] = chain[b]
  BY <1>1, <1>2, RoomType
<1>4. room1 # <<>>
  BY <1>1, <1>3
<1>e. new = Fill(room1, used, bytes)
  BY DEF Copied
<1> HIDE DEF room1, new
<1>a. (q + 1) - 1 = q
  BY <1>1
<1>b. /\ new \in Chains
      /\ Len(new) = Len(room1)
      /\ \A b \in 1 .. Len(room1) - 1 : new[b] = room1[b]
      /\ \A p \in Positions :
           new[Len(room1)][p] = IF p - r + 1 \in 1 .. Len(bytes)
                                THEN bytes[p - r + 1]
                                ELSE room1[Len(room1)][p]
  <2> DEFINE new1 == Fill(room1, used, bytes)
  <2>1. /\ new1 \in Chains
        /\ Len(new1) = Len(room1)
        /\ \A b \in 1 .. Len(room1) - 1 : new1[b] = room1[b]
        /\ \A p \in Positions :
             new1[Len(room1)][p] = IF p - r + 1 \in 1 .. Len(bytes)
                                   THEN bytes[p - r + 1]
                                   ELSE room1[Len(room1)][p]
    BY <1>1, <1>3, <1>4, FillType
  <2> HIDE DEF new1
  <2>2. new = new1
    BY <1>e DEF new1
  <2> QED BY <2>1, <2>2
<1>5. /\ new \in Chains
      /\ Len(new) = q + 1
      /\ \A b \in 1 .. q : new[b] = room1[b]
      /\ \A p \in Positions :
           new[q + 1][p] = IF p - r + 1 \in 1 .. Len(bytes)
                           THEN bytes[p - r + 1] ELSE room1[q + 1][p]
  BY <1>3, <1>a, <1>b
<1>c. idle_len(used) = MemBlockSize - r
  BY DEF idle_len
<1>6. Len(bytes) \in Nat /\ Len(bytes) >= 1 /\ r + Len(bytes) <= MemBlockSize
  <2>1. Len(bytes) \in 1 .. MemBlockSize - r
    BY <1>c, <1>d
  <2> QED BY <1>1, <2>1, BlockAssumption DEF Positions
<1> HIDE DEF q, r
<1>7. /\ q * MemBlockSize \in Nat
      /\ (q + 1) * MemBlockSize = q * MemBlockSize + MemBlockSize
  BY <1>1, Times, BlockAssumption
<1>8. Fits(new, offset, n_data + Len(bytes))
  <2>1. (q + 1) * MemBlockSize >= offset + (n_data + Len(bytes))
    BY <1>1, <1>6, <1>7, BlockAssumption DEF Positions
  <2>2. ((q + 1) - 1) * MemBlockSize < offset + (n_data + Len(bytes))
    <3>1. (q + 1) - 1 = q
      BY <1>1
    <3> QED BY <1>1, <1>6, <1>7, <3>1 DEF Positions
  <2> QED BY <1>5, <2>1, <2>2 DEF Fits
<1>9. ASSUME NEW i \in 0 .. used - 1 PROVE Merged(new, i) = Merged(chain, i)
  <2> DEFINE b == i \div MemBlockSize
             p == i % MemBlockSize
  <2>0. i \in Nat
    BY <1>1
  <2>1. i \in Nat /\ b \in Nat /\ p \in Positions /\ i = b * MemBlockSize + p
    BY <2>0, DivMod
  <2>2. Merged(new, i) = new[1 + b][p] /\ Merged(chain, i) = chain[1 + b][p]
    BY DEF Merged
  <2> HIDE DEF b, p
  <2>3. b * MemBlockSize \in Int
    BY <2>1, Times
  <2>4. ~ (q < b)
    <3> SUFFICES ASSUME q < b PROVE FALSE OBVIOUS
    <3>1. q * MemBlockSize + MemBlockSize <= b * MemBlockSize
      BY <1>1, <2>1, TimesOrder
    <3> QED BY <1>1, <1>7, <2>1, <2>3, <3>1, BlockAssumption DEF Positions
  <2>5. CASE b < q
    <3>1. 1 + b \in 1 .. q /\ 1 + b \in 1 .. Len(chain)
      BY <1>1, <1>2, <2>1, <2>5
    <3> QED BY <1>3, <1>5, <2>2, <3>1
  <2>6. CASE b = q
    <3>1. p < r
      BY <1>1, <1>7, <2>1, <2>6 DEF Positions
    <3>2. p - r + 1 \notin 1 .. Len(bytes)
      BY <1>1, <1>6, <2>1, <3>1 DEF Positions
    <3>3. r # 0
      BY <1>1, <2>1, <3>1 DEF Positions
    <3>4. 1 + b = q + 1 /\ q + 1 \in 1 .. Len(chain)
      BY <1>1, <1>2, <2>1, <2>6, <3>3
    <3>5. new[q + 1][p] = room1[q + 1][p]
      BY <1>5, <2>1, <3>2
    <3> QED BY <1>3, <2>2, <3>4, <3>5
  <2> QED BY <1>1, <2>1, <2>4, <2>5, <2>6
<1>10. ASSUME NEW i \in 1 .. Len(bytes) PROVE Merged(new, used + i - 1) = bytes[i]
  <2> DEFINE p == r + i - 1
  <2>1. p \in Positions
    BY <1>1, <1>6, BlockAssumption DEF Positions
  <2>2. used + i - 1 = q * MemBlockSize + p
    BY <1>1, <1>6, <1>7 DEF Positions
  <2>4. p - r + 1 = i
    BY <1>1, <1>6 DEF Positions
  <2> HIDE DEF p
  <2>5. Merged(new, q * MemBlockSize + p) = new[q + 1][p]
    BY <1>1, <2>1, MergedAt
  <2>3. Merged(new, used + i - 1) = new[q + 1][p]
    BY <2>2, <2>5
  <2> QED BY <1>5, <2>1, <2>3, <2>4
<1> QED BY <1>5, <1>8, <1>9, <1>10 DEF new, used

\* Freeing the first blocks leaves the bytes of the others where they are.
LEMMA FreeContent ==
  ASSUME NEW chain \in Chains, NEW n \in 0 .. Len(chain)
  PROVE  LET new == FreeFirst(chain, n)
         IN  /\ new \in Chains
             /\ Len(new) = Len(chain) - n
             /\ \A i \in Nat : i < (Len(chain) - n) * MemBlockSize =>
                  Merged(new, i) = Merged(chain, n * MemBlockSize + i)
<1> DEFINE new == FreeFirst(chain, n)
<1>1. /\ new \in Chains
      /\ Len(new) = Len(chain) - n
      /\ \A b \in 1 .. Len(chain) - n : new[b] = chain[n + b]
  BY DEF FreeFirst, Chains
<1> HIDE DEF new
<1>2. ASSUME NEW i \in Nat, i < (Len(chain) - n) * MemBlockSize
      PROVE  Merged(new, i) = Merged(chain, n * MemBlockSize + i)
  <2> DEFINE b == i \div MemBlockSize
             p == i % MemBlockSize
             k == Len(chain) - n
  <2>1. b \in Nat /\ p \in Positions /\ i = b * MemBlockSize + p
    BY DivMod
  <2>2. Merged(new, i) = new[1 + b][p]
    BY DEF Merged
  <2>3. k \in Nat /\ n \in Nat
    BY DEF Chains
  <2>4. i < k * MemBlockSize
    BY <1>2
  <2> HIDE DEF b, p, k
  <2>5. b * MemBlockSize \in Int /\ k * MemBlockSize \in Int /\ n * MemBlockSize \in Int
        /\ (n + b) * MemBlockSize = n * MemBlockSize + b * MemBlockSize
    BY <2>1, <2>3, Times, TimesSum
  <2>6. b < k
    <3> SUFFICES ASSUME ~(b < k) PROVE FALSE OBVIOUS
    <3>1. b = k \/ k < b
      BY <2>1, <2>3
    <3>2. CASE b = k
      BY <2>1, <2>4, <2>5, <3>2 DEF Positions
    <3>3. CASE k < b
      BY <2>1, <2>3, <2>4, <2>5, <3>3, TimesOrder, BlockAssumption DEF Positions
    <3> QED BY <3>1, <3>2, <3>3
  <2>7. n * MemBlockSize + i = (n + b) * MemBlockSize + p
    BY <2>1, <2>5 DEF Positions
  <2> DEFINE nb == n + b
  <2>10. nb \in Nat
    BY <2>1, <2>3
  <2> HIDE DEF nb
  <2>11. Merged(chain, nb * MemBlockSize + p) = chain[nb + 1][p]
    BY <2>1, <2>10, MergedAt
  <2>8. Merged(chain, n * MemBlockSize + i) = chain[n + b + 1][p]
    BY <2>7, <2>11 DEF nb
  <2>9. new[1 + b] = chain[n + b + 1]
    <3>1. 1 + b \in 1 .. k /\ n + (1 + b) = n + b + 1
      BY <2>1, <2>3, <2>6
    <3> QED BY <1>1, <3>1 DEF k
  <2> QED BY <2>2, <2>8, <2>9
<1> QED BY <1>1, <1>2 DEF new

-----------------------------------------------------------------------------
(* Stretches of the stream *)

\* Bytes(first, n) is a sequence of n bytes.
LEMMA BytesSeq ==
  ASSUME NEW first \in Int, NEW n \in Nat
  PROVE  /\ Bytes(first, n) \in Seq(Int)
         /\ Len(Bytes(first, n)) = n
         /\ \A i \in 1 .. n : Bytes(first, n)[i] = first + i - 1
BY DEF Bytes

\* The bytes of the stream are its positions.
LEMMA BytesRange ==
  ASSUME NEW first \in Nat \ {0}, NEW n \in Nat, first + n <= MaxBytes + 1
  PROVE  Bytes(first, n) \in Seq(1 .. MaxBytes)
BY BlockAssumption DEF Bytes

\* Two stretches that meet are one.
LEMMA BytesConcat ==
  ASSUME NEW first \in Int, NEW m \in Nat, NEW n \in Nat
  PROVE  Bytes(first, m) \o Bytes(first + m, n) = Bytes(first, m + n)
<1> DEFINE a == Bytes(first, m)
           b == Bytes(first + m, n)
           t == Bytes(first, m + n)
<1>1. /\ a \in Seq(Int) /\ Len(a) = m
      /\ \A i \in 1 .. m : a[i] = first + i - 1
  BY BytesSeq
<1>2. /\ b \in Seq(Int) /\ Len(b) = n
      /\ \A i \in 1 .. n : b[i] = first + m + i - 1
  <2>1. first + m \in Int
    OBVIOUS
  <2> QED BY <2>1, BytesSeq
<1>3. /\ t \in Seq(Int) /\ Len(t) = m + n
      /\ \A i \in 1 .. m + n : t[i] = first + i - 1
  <2>1. m + n \in Nat
    OBVIOUS
  <2> QED BY <2>1, BytesSeq
<1> HIDE DEF a, b, t
<1>4. a \o b \in Seq(Int) /\ Len(a \o b) = m + n
  BY <1>1, <1>2
<1>5. ASSUME NEW i \in 1 .. m + n PROVE (a \o b)[i] = t[i]
  <2>1. CASE i <= m
    BY <1>1, <1>2, <1>3, <2>1
  <2>2. CASE i > m
    <3>1. (a \o b)[i] = b[i - m] /\ i - m \in 1 .. n
      BY <1>1, <1>2, <2>2
    <3> QED BY <1>2, <1>3, <3>1
  <2>3. i <= m \/ i > m
    OBVIOUS
  <2> QED BY <2>1, <2>2, <2>3
<1>6. a \o b = t
  BY <1>3, <1>4, <1>5, SeqEqual
<1> QED BY <1>6 DEF a, b, t

\* The first bytes of a stretch are a stretch.
LEMMA BytesSub ==
  ASSUME NEW first \in Int, NEW n \in Nat, NEW m \in 0 .. n
  PROVE  SubSeq(Bytes(first, n), 1, m) = Bytes(first, m)
BY BytesSeq DEF Bytes

\* A stretch of a chain, from what is at each position.
LEMMA ContentBytes ==
  ASSUME NEW chain, NEW offset \in Int, NEW n \in Nat, NEW first \in Int,
         \A i \in 0 .. n - 1 : Merged(chain, offset + i) = first + i
  PROVE  Content(chain, offset, n) = Bytes(first, n)
<1> SUFFICES ASSUME NEW i \in 1 .. n
             PROVE  Merged(chain, offset + i - 1) = first + i - 1
  BY DEF Content, Bytes
<1>1. i - 1 \in 0 .. n - 1 /\ offset + i - 1 = offset + (i - 1)
      /\ first + i - 1 = first + (i - 1)
  OBVIOUS
<1> QED BY <1>1

-----------------------------------------------------------------------------
(* The receiving half *)

\* the bytes on_recv_data has not dealt with
Undone == IF turn = "out" THEN recv_buff_data_len ELSE data_len

\* what the chain holds follows what on_recv_data has used
Kept ==
  /\ taken = Bytes(1, Len(taken))
  /\ Len(taken) <= arrived
  /\ open =>
       /\ Len(taken) + recv_buff_data_len = read
       /\ \A i \in 0 .. recv_buff_data_len - 1 :
            Merged(recv_buff_head, recv_buff_offset + i) = Len(taken) + i + 1

\* do_io hands on what it has just received, and a closed connection nothing
Receiving ==
  /\ open <=> pc \in {"idle", "recv", "handle"}
  /\ pc \in {"recv", "handle"} => recv_data_len <= recv_buff_data_len
  /\ pc = "handle" => recv_data_len > 0

\* the loop of on_recv_data stands at the end of the last packet pushed
Cutting ==
  /\ Len(pushed) <= Len(Ends)
  /\ open => End(Len(pushed)) + Undone = read
  /\ turn # "out" => data_len <= recv_buff_data_len
  /\ turn = "return" => data_len = 0 \/ Len(pushed) < Len(Ends)

\* the next packet has not been read as a whole
NextMissing ==
  turn = "return" \/ (open /\ pc = "idle") =>
    (Len(pushed) < Len(Ends) => read < Ends[Len(pushed) + 1])

\* the inductive invariant of the receiving half
InputInv ==
  /\ InputTypeOK /\ ChainFits /\ Kept /\ Receiving
  /\ Cutting /\ NextMissing /\ PacketsAsSent

\* the part of the invariant about RecvBuffer alone
RecvInv == TypeOK /\ ChainFits /\ Kept /\ Receiving

\* A connection begins with nothing received.
LEMMA InitRecvInv == Init => RecvInv
<1> SUFFICES ASSUME Init PROVE RecvInv OBVIOUS
<1> USE BlockAssumption DEF Init
<1>1. TypeOK
  <2>1. 0 \in Positions /\ 0 \in 0 .. MaxBytes
    BY DEF Positions
  <2>2. <<>> \in Seq([Positions -> (1 .. MaxBytes) \union {Stale}])
        /\ <<>> \in Seq((1 .. MaxBytes) \union {Stale})
    OBVIOUS
  <2>3. arrived \in 0 .. MaxBytes /\ read \in 0 .. arrived /\ shown \in 0 .. read
    BY <2>1
  <2> QED BY <2>1, <2>2, <2>3 DEF TypeOK
<1>2. ChainFits
  BY DEF ChainFits, Fits
<1>3. Kept
  BY DEF Kept, Bytes
<1>4. Receiving
  BY DEF Receiving
<1> QED BY <1>1, <1>2, <1>3, <1>4 DEF RecvInv

\* recv puts its bytes behind those in use, into the block they end in or
\* into one more.
LEMMA RecvKeeps == ASSUME RecvInv, Recv PROVE RecvInv'
<1> USE BlockAssumption
<1>0. PICK n \in 1 .. idle_len(used_len) :
        /\ read + n <= arrived
        /\ recv_buff_head' = Fill(WithRoom(recv_buff_head, used_len),
                                  used_len, Bytes(read + 1, n))
        /\ recv_buff_data_len' = recv_buff_data_len + n
        /\ recv_data_len' = recv_data_len + n
        /\ read' = read + n
  BY DEF Recv
<1>1. /\ pc = "recv" /\ pc' = pc /\ recv_buff_offset' = recv_buff_offset
      /\ arrived' = arrived /\ fin' = fin /\ readable' = readable
      /\ taken' = taken /\ shown' = shown /\ open' = open
  BY DEF Recv, sockVars, handlerVars
<1>2. open /\ recv_data_len <= recv_buff_data_len
  BY <1>1 DEF RecvInv, Receiving
<1>3. /\ recv_buff_head \in Chains
      /\ recv_buff_offset \in Nat /\ recv_buff_offset \in Positions
      /\ recv_buff_data_len \in Nat /\ recv_data_len \in Nat
      /\ arrived \in 0 .. MaxBytes /\ read \in 0 .. arrived
      /\ shown \in 0 .. read
      /\ taken \in Seq((1 .. MaxBytes) \union {Stale})
      /\ {fin, readable, open} \subseteq BOOLEAN
  BY DEF RecvInv, TypeOK, Chains, Cells, Positions
<1>4. used_len \in Nat /\ used_len = recv_buff_offset + recv_buff_data_len
  BY <1>3 DEF used_len
<1>5. n \in Nat /\ n >= 1
  BY <1>4, DivMod DEF idle_len, Positions
<1>6. /\ Bytes(read + 1, n) \in Seq(1 .. MaxBytes)
      /\ Len(Bytes(read + 1, n)) = n
      /\ \A i \in 1 .. n : Bytes(read + 1, n)[i] = read + i
  <2> DEFINE f == read + 1
  <2>1. f \in Nat \ {0} /\ f \in Int /\ f + n <= MaxBytes + 1
    BY <1>0, <1>3, <1>5
  <2>2. \A i \in 1 .. n : f + i - 1 = read + i
    BY <1>3, <1>5
  <2> HIDE DEF f
  <2>3. /\ Bytes(f, n) \in Seq(1 .. MaxBytes) /\ Len(Bytes(f, n)) = n
        /\ \A i \in 1 .. n : Bytes(f, n)[i] = f + i - 1
    BY <1>5, <2>1, BytesSeq, BytesRange
  <2> QED BY <2>2, <2>3 DEF f
<1>7. Fits(recv_buff_head, recv_buff_offset, recv_buff_data_len)
  BY <1>2 DEF RecvInv, ChainFits
<1> DEFINE bytes == Bytes(read + 1, n)
<1> HIDE DEF bytes
<1>8. /\ recv_buff_head' \in Chains
      /\ Fits(recv_buff_head', recv_buff_offset, recv_buff_data_len + n)
      /\ \A i \in 0 .. used_len - 1 :
           Merged(recv_buff_head', i) = Merged(recv_buff_head, i)
      /\ \A i \in 1 .. n : Merged(recv_buff_head', used_len + i - 1) = read + i
  <2>1. /\ bytes \in Seq(1 .. MaxBytes) /\ Len(bytes) = n
        /\ \A i \in 1 .. n : bytes[i] = read + i
    BY <1>6 DEF bytes
  <2>2. Len(bytes) \in 1 .. idle_len(used_len)
    BY <2>1
  <2>3. recv_buff_head' = Copied(recv_buff_head, used_len, bytes)
    BY <1>0 DEF bytes, Copied
  <2>4. /\ recv_buff_head' \in Chains
        /\ Fits(recv_buff_head', recv_buff_offset, recv_buff_data_len + Len(bytes))
        /\ \A i \in 0 .. used_len - 1 :
             Merged(recv_buff_head', i) = Merged(recv_buff_head, i)
        /\ \A i \in 1 .. Len(bytes) :
             Merged(recv_buff_head', used_len + i - 1) = bytes[i]
    <3> DEFINE new == Copied(recv_buff_head, used_len, bytes)
    <3>1. recv_buff_head \in Chains /\ recv_buff_offset \in Nat
          /\ recv_buff_data_len \in Nat /\ bytes \in Seq(1 .. MaxBytes)
      BY <1>3, <2>1
    <3>2. /\ new \in Chains
          /\ Fits(new, recv_buff_offset, recv_buff_data_len + Len(bytes))
          /\ \A i \in 0 .. used_len - 1 :
               Merged(new, i) = Merged(recv_buff_head, i)
          /\ \A i \in 1 .. Len(bytes) :
               Merged(new, used_len + i - 1) = bytes[i]
      <4>1. used_len = Used(recv_buff_offset, recv_buff_data_len)
        BY DEF Used, used_len
      <4> QED BY <1>7, <2>2, <3>1, <4>1, FillContent
    <3> HIDE DEF new
    <3>3. recv_buff_head' = new
      BY <2>3 DEF new
    <3> QED BY <3>2, <3>3
  <2> QED BY <2>1, <2>4
<1>9. /\ taken = Bytes(1, Len(taken)) /\ Len(taken) <= arrived
      /\ Len(taken) + recv_buff_data_len = read
      /\ \A i \in 0 .. recv_buff_data_len - 1 :
           Merged(recv_buff_head, recv_buff_offset + i) = Len(taken) + i + 1
  BY <1>2 DEF RecvInv, Kept
<1>10. Len(taken) \in Nat
  BY <1>3
<1>11. TypeOK'
  <2>1. recv_buff_head' \in Seq([Positions -> (1 .. MaxBytes) \union {Stale}])
    BY <1>8 DEF Chains, Cells
  <2>2. recv_buff_data_len' \in 0 .. MaxBytes /\ recv_data_len' \in 0 .. MaxBytes
    BY <1>0, <1>2, <1>3, <1>5, <1>9, <1>10
  <2>3. read' \in 0 .. arrived' /\ shown' \in 0 .. read'
    BY <1>0, <1>1, <1>3, <1>5
  <2> QED BY <1>1, <1>3, <2>1, <2>2, <2>3 DEF TypeOK
<1>12. ChainFits'
  BY <1>0, <1>1, <1>8 DEF ChainFits
<1>13. Kept'
  <2>1. ASSUME NEW i \in 0 .. recv_buff_data_len' - 1
        PROVE  Merged(recv_buff_head', recv_buff_offset' + i) = Len(taken) + i + 1
    <3>1. CASE i < recv_buff_data_len
      <4>1. recv_buff_offset + i \in 0 .. used_len - 1
            /\ i \in 0 .. recv_buff_data_len - 1
        BY <1>0, <1>3, <1>4, <1>5, <3>1
      <4> QED BY <1>1, <1>8, <1>9, <4>1
    <3>2. CASE i >= recv_buff_data_len
      <4> DEFINE j == i - recv_buff_data_len + 1
      <4>1. /\ j \in 1 .. n
            /\ used_len + j - 1 = recv_buff_offset + i
            /\ read + j = Len(taken) + i + 1
        BY <1>0, <1>3, <1>4, <1>5, <1>9, <1>10, <3>2
      <4> HIDE DEF j
      <4> QED BY <1>1, <1>8, <4>1
    <3>3. i < recv_buff_data_len \/ i >= recv_buff_data_len
      BY <1>0, <1>3, <1>5
    <3> QED BY <3>1, <3>2, <3>3
  <2>2. Len(taken) + recv_buff_data_len' = read'
    BY <1>0, <1>3, <1>5, <1>9, <1>10
  <2> QED BY <1>1, <1>9, <2>1, <2>2 DEF Kept
<1>14. Receiving'
  BY <1>0, <1>1, <1>2, <1>3, <1>5 DEF RecvInv, Receiving
<1> QED BY <1>11, <1>12, <1>13, <1>14 DEF RecvInv

\* Freeing the blocks before the bytes that are left, and the last one when
\* nothing is, leaves these bytes and the blocks they need.
LEMMA LeavesKeeps ==
  ASSUME RecvInv, pc = "handle", NEW left \in Nat, HandleLeaves(left)
  PROVE  /\ RecvInv'
         /\ Len(taken') + left = read
<1> USE BlockAssumption
<1> DEFINE used == recv_buff_offset + recv_buff_data_len - left
           full == used \div MemBlockSize
           rest == used % MemBlockSize
           empty == left = 0 /\ rest # 0
           drop == IF empty THEN full + 1 ELSE full
           L == Len(recv_buff_head)
           B == MemBlockSize
<1>1. /\ left <= recv_buff_data_len
      /\ taken' = taken \o Content(recv_buff_head, recv_buff_offset,
                                   recv_buff_data_len - left)
      /\ shown' = read /\ recv_buff_data_len' = left /\ pc' = "idle"
      /\ recv_data_len' = recv_data_len /\ read' = read /\ open' = open
      /\ arrived' = arrived /\ fin' = fin /\ readable' = readable
  BY DEF HandleLeaves, Showed, sockVars
<1>2. /\ recv_buff_head' = FreeFirst(recv_buff_head, drop)
      /\ recv_buff_offset' = IF empty THEN 0 ELSE rest
  BY DEF HandleLeaves
<1>3. open
  BY DEF RecvInv, Receiving
<1>4. /\ recv_buff_head \in Chains
      /\ recv_buff_offset \in Nat /\ recv_buff_offset \in Positions
      /\ recv_buff_data_len \in 0 .. MaxBytes /\ recv_data_len \in 0 .. MaxBytes
      /\ arrived \in 0 .. MaxBytes /\ read \in 0 .. arrived
      /\ taken \in Seq((1 .. MaxBytes) \union {Stale})
      /\ {fin, readable, open} \subseteq BOOLEAN
  BY DEF RecvInv, TypeOK, Chains, Cells, Positions
<1>5. /\ taken = Bytes(1, Len(taken)) /\ Len(taken) <= arrived
      /\ Len(taken) + recv_buff_data_len = read
      /\ \A i \in 0 .. recv_buff_data_len - 1 :
           Merged(recv_buff_head, recv_buff_offset + i) = Len(taken) + i + 1
  BY <1>3 DEF RecvInv, Kept
<1>6. Len(taken) \in Nat /\ L \in Nat
  BY <1>4 DEF Chains
<1>7. L * B >= recv_buff_offset + recv_buff_data_len
      /\ L * B - B < recv_buff_offset + recv_buff_data_len
  BY <1>3, <1>6, Times DEF RecvInv, ChainFits, Fits
<1>8. used \in Nat /\ used + left = recv_buff_offset + recv_buff_data_len
  BY <1>1, <1>4
<1>9. full \in Nat /\ rest \in Positions /\ used = full * B + rest
  BY <1>8, DivMod
<1> HIDE DEF used, full, rest, L
<1>10. full * B \in Nat /\ L * B \in Nat
       /\ (full + 1) * B = full * B + B
  BY <1>6, <1>9, Times
<1>11. ~ (L < full)
  <2> SUFFICES ASSUME L < full PROVE FALSE OBVIOUS
  <2>1. L * B + B <= full * B
    BY <1>6, <1>9, TimesOrder
  <2> QED BY <1>7, <1>8, <1>9, <1>10, <2>1 DEF Positions
<1>12. ASSUME left = 0, rest # 0 PROVE L = full + 1
  <2>1. L # full
    <3> SUFFICES ASSUME L = full PROVE FALSE OBVIOUS
    <3>1. L * B = full * B
      OBVIOUS
    <3> QED BY <1>7, <1>8, <1>9, <1>10, <1>12, <3>1 DEF Positions
  <2>2. ~ (full + 1 < L)
    <3> SUFFICES ASSUME full + 1 < L PROVE FALSE OBVIOUS
    <3>1. (full + 1) * B + B <= L * B
      BY <1>6, <1>9, TimesOrder
    <3> QED BY <1>7, <1>8, <1>9, <1>10, <1>12, <3>1 DEF Positions
  <2> QED BY <1>6, <1>9, <1>11, <2>1, <2>2
<1>13. drop \in 0 .. L
  BY <1>6, <1>9, <1>11, <1>12
<1>14. /\ recv_buff_head' \in Chains
       /\ Len(recv_buff_head') = L - drop
       /\ \A i \in Nat : i < (L - drop) * B =>
            Merged(recv_buff_head', i) = Merged(recv_buff_head, drop * B + i)
  BY <1>2, <1>4, <1>13, FreeContent DEF L
<1>15. /\ recv_buff_offset' \in Positions
       /\ Fits(recv_buff_head', recv_buff_offset', left)
       /\ \A i \in 0 .. left - 1 :
            Merged(recv_buff_head', recv_buff_offset' + i) =
              Merged(recv_buff_head, used + i)
  <2>1. CASE empty
    <3>1. drop = L /\ recv_buff_offset' = 0 /\ left = 0
      BY <1>2, <1>12, <2>1
    <3>2. Len(recv_buff_head') = 0
      BY <1>6, <1>14, <3>1
    <3> QED BY <3>1, <3>2 DEF Fits, Positions
  <2>2. CASE ~empty
    <3>1. drop = full /\ recv_buff_offset' = rest
      BY <1>2, <2>2
    <3>2. (L - full) * B = L * B - full * B
      BY <1>6, <1>9, TimesSum
    <3>3. ((L - full) - 1) * B = L * B - full * B - B
      <4>1. L - full \in Int
        BY <1>6, <1>9
      <4> QED BY <3>2, <4>1, Times
    <3>4. Fits(recv_buff_head', rest, left)
      <4>1. L * B - full * B >= rest + left
        BY <1>7, <1>8, <1>9, <1>10 DEF Positions
      <4>2. L * B - full * B - B < rest + left
        BY <1>7, <1>8, <1>9, <1>10 DEF Positions
      <4> QED BY <1>14, <3>1, <3>2, <3>3, <4>1, <4>2 DEF Fits
    <3>5. ASSUME NEW i \in 0 .. left - 1
          PROVE  Merged(recv_buff_head', rest + i) = Merged(recv_buff_head, used + i)
      <4>1. rest + i \in Nat /\ rest + i < (L - full) * B
        BY <1>7, <1>8, <1>9, <1>10, <3>2 DEF Positions
      <4>2. full * B + (rest + i) = used + i
        BY <1>9, <1>10 DEF Positions
      <4> QED BY <1>14, <3>1, <4>1, <4>2
    <3> QED BY <1>9, <3>1, <3>4, <3>5
  <2> QED BY <2>1, <2>2
<1> DEFINE n == recv_buff_data_len - left
<1>16. n \in Nat /\ n <= recv_buff_data_len /\ n + left = recv_buff_data_len
  BY <1>1, <1>4
<1> HIDE DEF n
<1>17. Content(recv_buff_head, recv_buff_offset, n) = Bytes(1 + Len(taken), n)
  <2> DEFINE f == 1 + Len(taken)
  <2>1. \A i \in 0 .. n - 1 : Merged(recv_buff_head, recv_buff_offset + i) = f + i
    BY <1>4, <1>5, <1>6, <1>16
  <2>2. f \in Int /\ recv_buff_offset \in Int
    BY <1>4, <1>6
  <2> HIDE DEF f
  <2>3. Content(recv_buff_head, recv_buff_offset, n) = Bytes(f, n)
    BY <1>16, <2>1, <2>2, ContentBytes
  <2> QED BY <2>3 DEF f
<1>18. taken' = Bytes(1, Len(taken) + n)
  <2>1. taken' = Bytes(1, Len(taken)) \o Bytes(1 + Len(taken), n)
    BY <1>1, <1>5, <1>17 DEF n
  <2> DEFINE a == Len(taken)
             one == 1
  <2>2. a \in Nat /\ one \in Int
    BY <1>6
  <2> HIDE DEF a, one
  <2>3. Bytes(one, a) \o Bytes(one + a, n) = Bytes(one, a + n)
    BY <1>16, <2>2, BytesConcat
  <2> QED BY <2>1, <2>3 DEF a, one
<1>19. Len(taken') = Len(taken) + n /\ taken' \in Seq(1 .. MaxBytes)
  <2> DEFINE k == Len(taken) + n
             one == 1
  <2>2. k \in Nat /\ one \in Nat \ {0} /\ one \in Int /\ one + k <= MaxBytes + 1
    BY <1>4, <1>5, <1>6, <1>16
  <2> HIDE DEF k, one
  <2>4. Len(Bytes(one, k)) = k /\ Bytes(one, k) \in Seq(1 .. MaxBytes)
    BY <2>2, BytesSeq, BytesRange
  <2>3. Len(Bytes(1, k)) = k /\ Bytes(1, k) \in Seq(1 .. MaxBytes)
    BY <2>4 DEF one
  <2> QED BY <1>18, <2>3 DEF k
<1>20. Len(taken') + left = read
  BY <1>5, <1>6, <1>16, <1>19
<1>21. TypeOK'
  <2>1. recv_buff_head' \in Seq([Positions -> (1 .. MaxBytes) \union {Stale}])
    BY <1>14 DEF Chains, Cells
  <2>2. taken' \in Seq((1 .. MaxBytes) \union {Stale})
    BY <1>19
  <2>3. left \in 0 .. MaxBytes
    BY <1>1, <1>4
  <2>4. shown' \in 0 .. read'
    BY <1>1, <1>4
  <2> QED BY <1>1, <1>4, <1>15, <2>1, <2>2, <2>3, <2>4 DEF TypeOK
<1>22. ChainFits'
  BY <1>1, <1>15 DEF ChainFits
<1>23. Kept'
  <2>1. ASSUME NEW i \in 0 .. left - 1
        PROVE  Merged(recv_buff_head', recv_buff_offset' + i) = Len(taken') + i + 1
    <3>1. /\ n + i \in 0 .. recv_buff_data_len - 1
          /\ recv_buff_offset + (n + i) = used + i
          /\ Len(taken) + (n + i) + 1 = Len(taken') + i + 1
      BY <1>4, <1>6, <1>8, <1>16, <1>19
    <3>2. Merged(recv_buff_head, recv_buff_offset + (n + i)) = Len(taken) + (n + i) + 1
      BY <1>5, <3>1
    <3> QED BY <1>15, <3>1, <3>2
  <2>2. Len(taken') <= arrived'
    BY <1>1, <1>4, <1>6, <1>16, <1>19, <1>20
  <2>3. taken' = Bytes(1, Len(taken'))
    BY <1>18, <1>19
  <2> QED BY <1>1, <1>20, <2>1, <2>2, <2>3 DEF Kept
<1>24. Receiving'
  BY <1>1, <1>3 DEF RecvInv, Receiving
<1> QED BY <1>20, <1>21, <1>22, <1>23, <1>24 DEF RecvInv

\* Every step of do_io and of the peer keeps the buffer sound, whatever
\* on_recv_data leaves.
LEMMA NextRecvInv == ASSUME RecvInv, [Next]_vars PROVE RecvInv'
<1> USE BlockAssumption, RecvAssumption
<1>1. CASE Recv
  BY <1>1, RecvKeeps
<1>2. CASE Handle
  <2>1. PICK left \in 0 .. MaxLeft : pc = "handle" /\ HandleLeaves(left)
    BY <1>2 DEF Handle
  <2>2. left \in Nat
    OBVIOUS
  <2> QED BY <2>1, <2>2, LeavesKeeps
<1>3. ASSUME NEW why \in {"eof", "closed"}, open, Closed(why),
             UNCHANGED <<recv_data_len, sockVars, read, handlerVars>>
      PROVE  RecvInv'
  <2>1. TypeOK'
    <3>1. <<>> \in Seq([Positions -> (1 .. MaxBytes) \union {Stale}])
      OBVIOUS
    <3> QED BY <1>3, <3>1 DEF RecvInv, TypeOK, Closed, sockVars, handlerVars
  <2>2. ChainFits' /\ Receiving'
    BY <1>3 DEF Closed, ChainFits, Receiving
  <2>3. Kept'
    BY <1>3 DEF RecvInv, Kept, Closed, sockVars, handlerVars
  <2> QED BY <2>1, <2>2, <2>3 DEF RecvInv
<1>4. CASE on_rdhup
  BY <1>3, <1>4 DEF on_rdhup
<1>5. CASE close_connection
  BY <1>3, <1>5 DEF close_connection
<1>6. CASE RecvEof
  <2>1. open
    BY <1>6 DEF RecvEof, RecvInv, Receiving
  <2> QED BY <1>3, <1>6, <2>1 DEF RecvEof
<1>7. CASE RecvAgain
  <2>1. open
    BY <1>7 DEF RecvAgain, RecvInv, Receiving
  <2>2. CASE recv_data_len > 0
    BY <1>7, <2>1, <2>2 DEF RecvAgain, RecvInv, TypeOK, ChainFits, Kept,
         Receiving, bufVars, sockVars, handlerVars
  <2>3. CASE ~(recv_data_len > 0)
    BY <1>3, <1>7, <2>1, <2>3 DEF RecvAgain
  <2> QED BY <2>2, <2>3
<1>8. CASE on_epollin
  <2>1. TypeOK'
    <3>1. 0 \in 0 .. MaxBytes
      OBVIOUS
    <3>2. {recv_buff_data_len', recv_data_len'} \subseteq 0 .. MaxBytes
      BY <1>8, <3>1 DEF on_epollin, RecvInv, TypeOK, bufVars
    <3>3. pc' \in {"idle", "recv", "handle", "eof", "closed"}
          /\ {fin', readable', open'} \subseteq BOOLEAN
      BY <1>8 DEF on_epollin, RecvInv, TypeOK
    <3> QED BY <1>8, <3>2, <3>3 DEF on_epollin, RecvInv, TypeOK, bufVars, handlerVars
  <2>2. ChainFits' /\ Kept'
    BY <1>8 DEF on_epollin, RecvInv, ChainFits, Kept, bufVars, handlerVars
  <2>3. Receiving'
    BY <1>8 DEF on_epollin, RecvInv, TypeOK, Receiving, bufVars
  <2> QED BY <2>1, <2>2, <2>3 DEF RecvInv
<1>9. CASE on_nothing
  BY <1>9 DEF on_nothing, RecvInv, TypeOK, ChainFits, Kept, Receiving, bufVars,
       handlerVars
<1>10. CASE Arrive
  <2>1. TypeOK'
    BY <1>10 DEF Arrive, RecvInv, TypeOK, bufVars, handlerVars
  <2>2. ChainFits' /\ Receiving'
    BY <1>10 DEF Arrive, RecvInv, ChainFits, Receiving, bufVars
  <2>3. Kept'
    <3>1. Len(taken) \in Nat /\ arrived \in Nat /\ arrived' \in Nat
          /\ arrived <= arrived'
      BY <1>10 DEF Arrive, RecvInv, TypeOK
    <3> QED BY <1>10, <3>1 DEF Arrive, RecvInv, Kept, bufVars, handlerVars
  <2> QED BY <2>1, <2>2, <2>3 DEF RecvInv
<1>11. CASE PeerCloses
  BY <1>11 DEF PeerCloses, RecvInv, TypeOK, ChainFits, Kept, Receiving, bufVars,
       handlerVars
<1>12. CASE UNCHANGED vars
  BY <1>12 DEF vars, RecvInv, TypeOK, ChainFits, Kept, Receiving, bufVars,
       sockVars, handlerVars
<1> QED
  BY <1>1, <1>2, <1>4, <1>5, <1>6, <1>7, <1>8, <1>9, <1>10, <1>11, <1>12
  DEF Next, NetProc

-----------------------------------------------------------------------------
(* on_recv_data *)

\* The packets follow one another, each at least a header long.
LEMMA EndFacts ==
  /\ Len(Ends) \in Nat /\ DOMAIN Ends = 1 .. Len(Ends)
  /\ End(0) = 0
  /\ \A k \in 0 .. Len(Ends) : End(k) \in Nat
  /\ \A k \in 0 .. Len(Ends) - 1 :
       /\ End(k + 1) = Ends[k + 1]
       /\ Length(k + 1) = End(k + 1) - End(k)
       /\ Length(k + 1) \in Nat
       /\ Length(k + 1) >= HeaderLen
       /\ Length(k + 1) <= MaxLeft + 1
  /\ \A j, k \in 0 .. Len(Ends) : j < k => End(j) < End(k)
<1> USE PacketAssumption, RecvAssumption
<1>1. Len(Ends) \in Nat /\ DOMAIN Ends = 1 .. Len(Ends)
  OBVIOUS
<1>2. End(0) = 0 /\ \A k \in 1 .. Len(Ends) : End(k) = Ends[k]
  BY DEF End
<1>3. ASSUME NEW k \in 0 .. Len(Ends) PROVE End(k) \in Nat
  <2>1. CASE k = 0
    BY <1>2, <2>1
  <2>2. CASE k \in 1 .. Len(Ends)
    BY <1>2, <2>2
  <2> QED BY <1>1, <2>1, <2>2
<1>4. ASSUME NEW k \in 0 .. Len(Ends) - 1
      PROVE  /\ End(k + 1) = Ends[k + 1]
             /\ Length(k + 1) = End(k + 1) - End(k)
             /\ Length(k + 1) \in Nat
             /\ Length(k + 1) >= HeaderLen
             /\ Length(k + 1) <= MaxLeft + 1
  <2>1. k + 1 \in DOMAIN Ends /\ (k + 1) - 1 = k
    BY <1>1
  <2>2. Length(k + 1) \in HeaderLen .. MaxLeft + 1
    BY <2>1
  <2> QED BY <1>1, <1>2, <2>1, <2>2 DEF Length
<1>5. ASSUME NEW j \in 0 .. Len(Ends), NEW k \in 0 .. Len(Ends), j < k
      PROVE  End(j) < End(k)
  <2>1. CASE j = 0
    <3>1. End(1) >= HeaderLen /\ End(1) \in Nat /\ 1 \in 1 .. Len(Ends)
      <4>1. 0 \in 0 .. Len(Ends) - 1 /\ 0 + 1 = 1
        BY <1>1, <1>5
      <4> QED BY <1>1, <1>2, <1>3, <1>4, <4>1, <1>5
    <3>2. CASE k = 1
      BY <1>2, <2>1, <3>1, <3>2
    <3>3. CASE k > 1
      <4>1. End(1) < End(k)
        BY <1>1, <1>2, <3>1, <3>3
      <4> QED BY <1>2, <1>3, <2>1, <3>1, <4>1
    <3> QED BY <1>1, <1>5, <2>1, <3>2, <3>3
  <2>2. CASE j \in 1 .. Len(Ends)
    <3>1. j \in DOMAIN Ends /\ k \in DOMAIN Ends /\ k \in 1 .. Len(Ends)
      BY <1>1, <1>5, <2>2
    <3>2. Ends[j] < Ends[k]
      BY <1>5, <3>1
    <3> QED BY <1>2, <2>2, <3>1, <3>2
  <2> QED BY <1>1, <2>1, <2>2
<1> QED BY <1>1, <1>2, <1>3, <1>4, <1>5

\* What on_recv_data looks at, and what handle_input makes of it.
LEMMA LoopFacts ==
  ASSUME InputInv, turn = "loop"
  PROVE  LET p == Len(pushed)
         IN  /\ p \in 0 .. Len(Ends)
             /\ data_len \in 1 .. MaxBytes
             /\ End(p) + data_len = read
             /\ Data = Bytes(End(p) + 1, data_len)
             /\ p = Len(Ends) => pkg_len = -1
             /\ p < Len(Ends) =>
                  pkg_len = IF data_len < HeaderLen THEN 0 ELSE Length(p + 1)
<1> USE BlockAssumption, PacketAssumption
<1> DEFINE p == Len(pushed)
<1>1. /\ p \in Nat /\ p <= Len(Ends) /\ Len(Ends) \in Nat
      /\ data_len \in 0 .. MaxBytes /\ data_len > 0
      /\ recv_buff_data_len \in 0 .. MaxBytes /\ recv_buff_offset \in Nat
      /\ pc = "handle"
      /\ data_len <= recv_buff_data_len
      /\ Len(taken) \in Nat
  BY EndFacts DEF InputInv, InputTypeOK, TypeOK, Cutting, Positions
<1>2. open
  BY <1>1 DEF InputInv, Receiving
<1>3. End(p) + data_len = read
  BY <1>2 DEF InputInv, Cutting, Undone
<1>4. End(p) \in Nat
  BY <1>1, EndFacts
<1>5. /\ Len(taken) + recv_buff_data_len = read
      /\ \A i \in 0 .. recv_buff_data_len - 1 :
           Merged(recv_buff_head, recv_buff_offset + i) = Len(taken) + i + 1
  BY <1>2 DEF InputInv, Kept
<1> DEFINE f == End(p) + 1
           used == recv_buff_data_len - data_len
           at == recv_buff_offset + used
<1> HIDE DEF p
<1>6. f \in Int /\ at \in Int
  BY <1>1, <1>4
<1>7. ASSUME NEW i \in 0 .. data_len - 1
      PROVE  Merged(recv_buff_head, at + i) = f + i
  <2>3. read \in Int /\ i \in Int
    BY <1>1, <1>3, <1>4
  <2>4. used + i \in 0 .. recv_buff_data_len - 1
    BY <1>1, <2>3
  <2>5. recv_buff_offset + (used + i) = at + i
    BY <1>1, <2>3
  <2>6. Len(taken) + (used + i) + 1 = f + i
    BY <1>1, <1>3, <1>4, <1>5, <2>3
  <2>1. /\ used + i \in 0 .. recv_buff_data_len - 1
        /\ recv_buff_offset + (used + i) = at + i
        /\ Len(taken) + (used + i) + 1 = f + i
    BY <2>4, <2>5, <2>6
  <2>2. Merged(recv_buff_head, recv_buff_offset + (used + i))
          = Len(taken) + (used + i) + 1
    BY <1>5, <2>1
  <2> QED BY <2>1, <2>2
<1>8. Data = Content(recv_buff_head, at, data_len)
  BY DEF Data
<1>9. Data = Bytes(f, data_len) /\ Len(Data) = data_len /\ Data[1] = f
  <2>0. data_len \in Nat
    BY <1>1
  <2>4. \A i \in 0 .. data_len - 1 : Merged(recv_buff_head, at + i) = f + i
    BY <1>7
  <2> HIDE DEF f, at
  <2>1. Data = Bytes(f, data_len)
    <3> HIDE BlockAssumption, PacketAssumption
    <3>1. Content(recv_buff_head, at, data_len) = Bytes(f, data_len)
      BY <1>6, <2>0, <2>4, ContentBytes
    <3> QED BY <1>8, <3>1
  <2>2. Len(Bytes(f, data_len)) = data_len /\ Bytes(f, data_len)[1] = f + 1 - 1
    <3>1. 1 \in 1 .. data_len
      BY <1>1
    <3> QED BY <1>6, <2>0, <3>1, BytesSeq
  <2>3. f + 1 - 1 = f
    BY <1>6
  <2> QED BY <2>1, <2>2, <2>3
<1> DEFINE starting == {k \in DOMAIN Ends : End(k - 1) + 1 = Data[1]}
<1>10. pkg_len = IF starting = {} THEN -1
                 ELSE IF Len(Data) < HeaderLen THEN 0
                 ELSE Length(CHOOSE k \in starting : TRUE)
  BY DEF pkg_len, handle_input
<1>11. ASSUME NEW k \in DOMAIN Ends PROVE k \in starting <=> k = p + 1
  <2>1. k \in 1 .. Len(Ends) /\ k - 1 \in 0 .. Len(Ends) /\ p \in 0 .. Len(Ends)
    BY <1>1, EndFacts
  <2>2. End(k - 1) \in Nat
    BY <2>1, EndFacts
  <2>3. End(k - 1) = End(p) <=> k - 1 = p
    <3>1. CASE k - 1 < p
      BY <1>4, <2>1, <2>2, <3>1, EndFacts
    <3>2. CASE p < k - 1
      BY <1>4, <2>1, <2>2, <3>2, EndFacts
    <3> QED BY <1>1, <2>1, <3>1, <3>2
  <2>4. k \in starting <=> End(k - 1) = End(p)
    BY <1>4, <1>9, <2>2
  <2> QED BY <1>1, <2>1, <2>3, <2>4
<1>12. ASSUME p = Len(Ends) PROVE pkg_len = -1
  <2>1. p + 1 \notin DOMAIN Ends
    BY <1>1, <1>12, EndFacts
  <2>2. starting = {}
    BY <1>11, <2>1
  <2> QED BY <1>10, <2>2
<1>13. ASSUME p < Len(Ends)
       PROVE  pkg_len = IF data_len < HeaderLen THEN 0 ELSE Length(p + 1)
  <2>1. p + 1 \in DOMAIN Ends
    BY <1>1, <1>13, EndFacts
  <2>2. starting = {p + 1}
    BY <1>11, <2>1
  <2>3. (CHOOSE k \in starting : TRUE) = p + 1
    BY <2>2
  <2>4. starting # {}
    BY <2>2
  <2> DEFINE c == CHOOSE k \in starting : TRUE
  <2>5. pkg_len = IF Len(Data) < HeaderLen THEN 0 ELSE Length(c)
    BY <1>10, <2>4
  <2>6. c = p + 1
    BY <2>3
  <2> HIDE DEF c
  <2> QED BY <1>9, <2>5, <2>6
<1>14. p \in 0 .. Len(Ends) /\ data_len \in 1 .. MaxBytes
  BY <1>1
<1> QED BY <1>3, <1>9, <1>12, <1>13, <1>14 DEF p

\* A packet that is complete is the next one the peer has sent.
LEMMA CompletePacket ==
  ASSUME InputInv, turn = "loop", Complete
  PROVE  LET p == Len(pushed)
         IN  /\ p \in 0 .. Len(Ends) - 1
             /\ pkg_len = Length(p + 1)
             /\ pkg_len \in 1 .. data_len
             /\ SubSeq(Data, 1, pkg_len) = Packet(p + 1)
             /\ Packet(p + 1) \in Seq(1 .. MaxBytes)
             /\ End(p + 1) + (data_len - pkg_len) = read
<1> DEFINE p == Len(pushed)
<1>1. /\ p \in 0 .. Len(Ends) /\ data_len \in 1 .. MaxBytes
      /\ End(p) + data_len = read
      /\ Data = Bytes(End(p) + 1, data_len)
      /\ p = Len(Ends) => pkg_len = -1
      /\ p < Len(Ends) =>
           pkg_len = IF data_len < HeaderLen THEN 0 ELSE Length(p + 1)
  BY LoopFacts
<1>2. pkg_len \in 1 .. data_len
  BY DEF Complete
<1> HIDE DEF p
<1>a. Len(Ends) \in Nat
  BY EndFacts
<1>b. p # Len(Ends)
  <2> SUFFICES ASSUME p = Len(Ends) PROVE FALSE OBVIOUS
  <2>1. pkg_len = -1
    BY <1>1
  <2> QED BY <1>1, <1>2, <2>1
<1>3. p \in 0 .. Len(Ends) - 1 /\ p < Len(Ends)
  BY <1>1, <1>a, <1>b
<1>4. pkg_len = Length(p + 1)
  BY <1>1, <1>2, <1>3
<1>5. /\ End(p) \in Nat /\ End(p + 1) \in Nat
      /\ Length(p + 1) = End(p + 1) - End(p)
  <2>1. p + 1 \in 0 .. Len(Ends)
    BY <1>3, EndFacts
  <2> QED BY <1>1, <1>3, <2>1, EndFacts
<1>6. End(p + 1) + (data_len - pkg_len) = read
  BY <1>1, <1>4, <1>5
<1> DEFINE f == End(p) + 1
           n == Length(p + 1)
<1>7. /\ f \in Nat \ {0} /\ f \in Int /\ n \in 0 .. data_len /\ n \in Nat
      /\ data_len \in Nat
  BY <1>1, <1>2, <1>4, <1>5
<1>8. f + n <= MaxBytes + 1
  <2>1. read \in 0 .. MaxBytes
    BY BlockAssumption DEF InputInv, InputTypeOK, TypeOK
  <2> QED BY <1>1, <1>2, <1>4, <1>5, <2>1, BlockAssumption
<1>9. Packet(p + 1) = Bytes(f, n)
  <2>1. (p + 1) - 1 = p
    BY <1>1
  <2> QED BY <2>1 DEF Packet
<1>10. SubSeq(Data, 1, pkg_len) = SubSeq(Bytes(f, data_len), 1, n)
  BY <1>1, <1>4
<1> HIDE DEF f, n
<1>11. SubSeq(Bytes(f, data_len), 1, n) = Bytes(f, n)
  BY <1>7, BytesSub
<1>12. Bytes(f, n) \in Seq(1 .. MaxBytes)
  BY <1>7, <1>8, BytesRange
<1> QED BY <1>2, <1>3, <1>4, <1>6, <1>9, <1>10, <1>11, <1>12 DEF p

\* Pushing it keeps the packets those of the peer.
LEMMA PushedStep ==
  ASSUME InputInv, turn = "loop", Complete, Pushed
  PROVE  /\ pushed' \in Seq(Seq((1 .. MaxBytes) \union {Stale}))
         /\ Len(pushed') = Len(pushed) + 1
         /\ Len(pushed') \in 1 .. Len(Ends)
         /\ PacketsAsSent'
         /\ data_len' \in 0 .. data_len - 1
         /\ End(Len(pushed')) + data_len' = read
<1> DEFINE p == Len(pushed)
           pkt == Packet(p + 1)
<1>1. /\ p \in 0 .. Len(Ends) - 1
      /\ pkg_len \in 1 .. data_len
      /\ SubSeq(Data, 1, pkg_len) = pkt
      /\ pkt \in Seq(1 .. MaxBytes)
      /\ End(p + 1) + (data_len - pkg_len) = read
  BY CompletePacket
<1>2. /\ pushed' = Append(pushed, pkt) /\ data_len' = data_len - pkg_len
  BY <1>1 DEF Pushed
<1>3. /\ pushed \in Seq(Seq((1 .. MaxBytes) \union {Stale}))
      /\ pushed = [k \in 1 .. p |-> Packet(k)]
      /\ data_len \in Nat
  BY DEF InputInv, InputTypeOK, PacketsAsSent
<1> HIDE DEF pkt
<1>4. pkt \in Seq((1 .. MaxBytes) \union {Stale})
  <2>1. pkt \in Seq(1 .. MaxBytes)
    BY <1>1
  <2>2. \A i \in 1 .. Len(pkt) : pkt[i] \in (1 .. MaxBytes) \union {Stale}
    BY <2>1, ElementOfSeq
  <2>3. pkt = [i \in 1 .. Len(pkt) |-> pkt[i]] /\ Len(pkt) \in Nat
    BY <2>1
  <2> QED BY <2>2, <2>3
<1>5. /\ pushed' \in Seq(Seq((1 .. MaxBytes) \union {Stale}))
      /\ Len(pushed') = p + 1
      /\ \A k \in 1 .. p : pushed'[k] = pushed[k]
      /\ pushed'[p + 1] = pkt
      /\ pushed' = [k \in 1 .. p + 1 |-> pushed'[k]]
  <2> DEFINE T == Seq((1 .. MaxBytes) \union {Stale})
  <2>1. pushed \in Seq(T) /\ pkt \in T
    BY <1>3, <1>4
  <2> HIDE DEF T
  <2>2. /\ Append(pushed, pkt) \in Seq(T)
        /\ Len(Append(pushed, pkt)) = Len(pushed) + 1
        /\ \A k \in 1 .. Len(pushed) : Append(pushed, pkt)[k] = pushed[k]
        /\ Append(pushed, pkt)[Len(pushed) + 1] = pkt
    BY <2>1, AppendProperties
  <2>3. pushed' \in Seq(T) /\ Len(pushed') = p + 1
    BY <1>2, <2>2
  <2>4. pushed' = [k \in 1 .. p + 1 |-> pushed'[k]]
    BY <2>3
  <2> QED BY <1>2, <2>2, <2>3, <2>4 DEF T
<1>6. ASSUME NEW k \in 1 .. p + 1 PROVE pushed'[k] = Packet(k)
  <2>1. CASE k \in 1 .. p
    BY <1>3, <1>5, <2>1
  <2>2. CASE k = p + 1
    BY <1>5, <2>2 DEF pkt
  <2> QED BY <1>1, <2>1, <2>2
<1>7. PacketsAsSent'
  BY <1>5, <1>6 DEF PacketsAsSent
<1>8. data_len' \in 0 .. data_len - 1
  BY <1>1, <1>2, <1>3
<1>9. Len(pushed') \in 1 .. Len(Ends)
  BY <1>1, <1>5, EndFacts
<1> QED BY <1>1, <1>2, <1>5, <1>7, <1>8, <1>9

\* on_recv_data leaves less than a packet, so that each of its steps is one
\* RecvBuffer allows, or none.
LEMMA InputStepIsRecvStep ==
  ASSUME InputInv, [InputNext]_allVars
  PROVE  [Next]_vars
<1>1. CASE UNCHANGED allVars
  BY <1>1 DEF allVars
<1>2. CASE on_recv_data \/ InputPacket \/ InputIncomplete
  BY <1>2 DEF on_recv_data, InputPacket, InputIncomplete
<1>3. CASE InputRefused \/ InputSendFails
  BY <1>3 DEF InputRefused, InputSendFails, InputCloses, Next
<1>4. CASE Returns
  <2>1. pc = "handle" /\ data_len \in Nat /\ open
    BY <1>4 DEF Returns, InputInv, InputTypeOK, Receiving
  <2>2. data_len <= MaxLeft
    <3> DEFINE p == Len(pushed)
    <3>1. /\ p \in Nat /\ p <= Len(Ends)
          /\ data_len = 0 \/ p < Len(Ends)
          /\ p < Len(Ends) => read < Ends[p + 1]
          /\ End(p) + data_len = read
      BY <1>4, <2>1 DEF Returns, InputInv, InputTypeOK, Cutting, Undone, NextMissing
    <3> HIDE DEF p
    <3>2. CASE p < Len(Ends)
      <4>1. p \in 0 .. Len(Ends) - 1 /\ p \in 0 .. Len(Ends)
        BY <3>1, <3>2, EndFacts
      <4>2. /\ End(p) \in Nat /\ End(p + 1) = Ends[p + 1]
            /\ Length(p + 1) = End(p + 1) - End(p)
            /\ Length(p + 1) \in Nat
            /\ Length(p + 1) <= MaxLeft + 1
        BY <4>1, EndFacts
      <4>3. End(p + 1) \in Nat
        <5>1. p + 1 \in 0 .. Len(Ends)
          BY <4>1, EndFacts
        <5> QED BY <5>1, EndFacts
      <4> QED BY <2>1, <3>1, <3>2, <4>2, <4>3, RecvAssumption
    <3>3. CASE data_len = 0
      BY <3>3, RecvAssumption
    <3> QED BY <3>1, <3>2, <3>3
  <2>3. data_len \in 0 .. MaxLeft
    BY <2>1, <2>2, RecvAssumption
  <2> QED BY <1>4, <2>1, <2>3 DEF Returns, Handle, NetProc, Next
<1>5. CASE Others
  BY <1>5 DEF Others, DoIo, NetProc, Next
<1> QED BY <1>1, <1>2, <1>3, <1>4, <1>5 DEF InputNext, OnRecvData

\* Before the first event nothing has been pushed.
LEMMA InitInputInv == InputInit => InputInv
<1> SUFFICES ASSUME InputInit PROVE InputInv OBVIOUS
<1> USE BlockAssumption, PacketAssumption DEF InputInit
<1>1. RecvInv
  BY InitRecvInv
<1>2. pushed = <<>> /\ Len(pushed) = 0 /\ turn = "out" /\ data_len = 0
      /\ recv_buff_data_len = 0 /\ read = 0 /\ pc = "idle"
  BY DEF Init
<1>3. InputTypeOK
  <2>1. <<>> \in Seq(Seq((1 .. MaxBytes) \union {Stale}))
    OBVIOUS
  <2> QED BY <1>1, <1>2, <2>1 DEF RecvInv, InputTypeOK
<1>4. Cutting
  BY <1>2, EndFacts DEF Cutting, Undone
<1>5. NextMissing
  <2>1. 0 < Len(Ends) => 0 < Ends[1]
    <3> SUFFICES ASSUME 0 < Len(Ends) PROVE 0 < Ends[1] OBVIOUS
    <3>1. 1 \in 0 .. Len(Ends) /\ 0 \in 0 .. Len(Ends) /\ 0 < 1
      BY EndFacts
    <3>2. End(0) < End(1)
      BY <3>1, EndFacts
    <3> QED BY <3>2, EndFacts DEF End
  <2> QED BY <1>2, <2>1 DEF NextMissing
<1>6. PacketsAsSent
  BY <1>2 DEF PacketsAsSent
<1> QED BY <1>1, <1>3, <1>4, <1>5, <1>6 DEF RecvInv, InputInv

\* Every step of on_recv_data and of the rest of do_io keeps the invariant.
LEMMA NextInputInv == ASSUME InputInv, [InputNext]_allVars PROVE InputInv'
<1> DEFINE p == Len(pushed)
           T == Seq(Seq((1 .. MaxBytes) \union {Stale}))
<1>1. RecvInv'
  BY InputStepIsRecvStep, NextRecvInv DEF InputInv, InputTypeOK, RecvInv
<1>2. /\ turn \in {"out", "loop", "return"}
      /\ turn # "out" => pc = "handle"
      /\ turn = "loop" => data_len > 0
      /\ data_len \in 0 .. MaxBytes /\ pushed \in T
      /\ p \in Nat /\ p <= Len(Ends)
      /\ open => End(p) + Undone = read
      /\ turn # "out" => data_len <= recv_buff_data_len
      /\ turn = "return" => data_len = 0 \/ p < Len(Ends)
      /\ open <=> pc \in {"idle", "recv", "handle"}
      /\ recv_buff_data_len \in 0 .. MaxBytes
      /\ read \in Nat
  BY BlockAssumption DEF InputInv, InputTypeOK, TypeOK, Cutting, Receiving
<1>3. PacketsAsSent /\ NextMissing
  BY DEF InputInv
<1> SUFFICES InputTypeOK' /\ Cutting' /\ NextMissing' /\ PacketsAsSent'
  BY <1>1 DEF RecvInv, InputInv
<1>4. CASE UNCHANGED allVars
  BY <1>4 DEF allVars, vars, inputVars, bufVars, sockVars, handlerVars,
       InputInv, InputTypeOK, TypeOK, Cutting, Undone, NextMissing, PacketsAsSent
<1>5. CASE on_recv_data
  <2>1. /\ pc = "handle" /\ turn = "out" /\ turn' = "loop"
        /\ data_len' = recv_buff_data_len /\ pushed' = pushed
        /\ pc' = pc /\ open' = open /\ read' = read
        /\ recv_buff_data_len' = recv_buff_data_len
    BY <1>5 DEF on_recv_data, vars, bufVars, sockVars, handlerVars
  <2>2. recv_buff_data_len > 0
    BY <1>2, <2>1 DEF InputInv, InputTypeOK, TypeOK, Receiving
  <2>6. TypeOK' /\ data_len' \in 0 .. MaxBytes /\ data_len' > 0
    BY <1>1, <1>2, <2>1, <2>2 DEF RecvInv
  <2>3. InputTypeOK'
    BY <1>2, <2>1, <2>6 DEF InputTypeOK
  <2>4. Cutting'
    BY <1>2, <2>1 DEF Cutting, Undone
  <2>5. NextMissing' /\ PacketsAsSent'
    BY <1>3, <2>1 DEF NextMissing, PacketsAsSent
  <2> QED BY <2>3, <2>4, <2>5
<1>6. CASE InputPacket
  <2>1. /\ turn = "loop" /\ Complete /\ Pushed
        /\ turn' = IF data_len' > 0 THEN "loop" ELSE "return"
        /\ pc' = pc /\ open' = open /\ read' = read
        /\ recv_buff_data_len' = recv_buff_data_len
    BY <1>6 DEF InputPacket, vars, bufVars, sockVars, handlerVars
  <2>2. /\ pushed' \in T /\ Len(pushed') = p + 1
        /\ Len(pushed') \in 1 .. Len(Ends)
        /\ PacketsAsSent' /\ data_len' \in 0 .. data_len - 1
        /\ End(Len(pushed')) + data_len' = read
    BY <2>1, PushedStep
  <2>6. TypeOK' /\ data_len' \in 0 .. MaxBytes
        /\ turn' \in {"loop", "return"} /\ (turn' = "loop" => data_len' > 0)
    BY <1>1, <1>2, <2>1, <2>2, BlockAssumption DEF RecvInv
  <2>3. InputTypeOK'
    BY <1>2, <2>1, <2>2, <2>6 DEF InputTypeOK
  <2>4. Cutting'
    BY <1>2, <2>1, <2>2 DEF Cutting, Undone
  <2>5. NextMissing'
    <3> SUFFICES ASSUME turn' = "return", Len(pushed') < Len(Ends)
                 PROVE  read < Ends[Len(pushed') + 1]
      BY <1>2, <2>1 DEF NextMissing
    <3> DEFINE k == Len(pushed')
    <3>1. data_len' = 0
      BY <1>2, <2>1, <2>2
    <3>2. k \in 0 .. Len(Ends) /\ k + 1 \in 0 .. Len(Ends) /\ k < k + 1
          /\ k \in 0 .. Len(Ends) - 1
      BY <2>2, EndFacts
    <3>3. End(k) + data_len' = read
      BY <2>2
    <3> HIDE DEF k
    <3>4. End(k) < End(k + 1) /\ End(k) \in Nat /\ End(k + 1) = Ends[k + 1]
      BY <3>2, EndFacts
    <3>5. read < Ends[k + 1]
      BY <3>1, <3>3, <3>4
    <3> QED BY <3>5 DEF k
  <2> QED BY <2>2, <2>3, <2>4, <2>5
<1>7. CASE InputIncomplete
  <2>1. /\ turn = "loop" /\ pkg_len >= 0 /\ ~Complete /\ turn' = "return"
        /\ data_len' = data_len /\ pushed' = pushed
        /\ pc' = pc /\ open' = open /\ read' = read
        /\ recv_buff_data_len' = recv_buff_data_len
    BY <1>7 DEF InputIncomplete, vars, bufVars, sockVars, handlerVars
  <2>2. /\ p \in 0 .. Len(Ends) /\ data_len \in 1 .. MaxBytes
        /\ End(p) + data_len = read
        /\ p = Len(Ends) => pkg_len = -1
        /\ p < Len(Ends) =>
             pkg_len = IF data_len < HeaderLen THEN 0 ELSE Length(p + 1)
    BY <2>1, LoopFacts
  <2> HIDE DEF p
  <2>a. Len(Ends) \in Nat
    BY EndFacts
  <2>b. p # Len(Ends)
    BY <2>1, <2>2
  <2>3. p < Len(Ends) /\ p \in 0 .. Len(Ends) - 1
    BY <2>2, <2>a, <2>b
  <2>4. /\ End(p) \in Nat /\ End(p + 1) = Ends[p + 1]
        /\ Length(p + 1) = End(p + 1) - End(p)
        /\ Length(p + 1) \in Nat /\ Length(p + 1) >= HeaderLen
    BY <2>2, <2>3, EndFacts
  <2>5. End(p + 1) \in Nat
    <3>1. p + 1 \in 0 .. Len(Ends)
      BY <2>3, EndFacts
    <3> QED BY <3>1, EndFacts
  <2>6. data_len < Length(p + 1)
    <3>1. CASE data_len < HeaderLen
      BY <2>2, <2>4, <3>1, PacketAssumption
    <3>2. CASE ~(data_len < HeaderLen)
      <4>1. pkg_len = Length(p + 1) /\ Length(p + 1) >= 1
        BY <2>2, <2>3, <2>4, <3>2, PacketAssumption
      <4> QED BY <2>1, <2>2, <2>4, <4>1 DEF Complete
    <3> QED BY <3>1, <3>2
  <2>7. read < Ends[p + 1]
    BY <2>2, <2>4, <2>5, <2>6
  <2>8. InputTypeOK'
    BY <1>1, <1>2, <2>1 DEF InputTypeOK, RecvInv
  <2>9. Cutting'
    BY <1>2, <2>1, <2>3 DEF Cutting, Undone, p
  <2>10. NextMissing' /\ PacketsAsSent'
    BY <1>3, <2>1, <2>7 DEF NextMissing, PacketsAsSent, p
  <2> QED BY <2>8, <2>9, <2>10
<1>8. CASE InputRefused
  <2>1. /\ turn' = "out" /\ open' = FALSE /\ pc' = "closed"
        /\ data_len' = data_len /\ pushed' = pushed
    BY <1>8 DEF InputRefused, InputCloses, close_connection, Closed
  <2>2. InputTypeOK'
    BY <1>1, <1>2, <2>1 DEF InputTypeOK, RecvInv
  <2> QED BY <1>2, <1>3, <2>1, <2>2 DEF Cutting, NextMissing, PacketsAsSent
<1>9. CASE InputSendFails
  <2>1. /\ turn = "loop" /\ turn' = "out" /\ open' = FALSE /\ pc' = "closed"
        /\ Complete /\ Pushed
    BY <1>9 DEF InputSendFails, InputCloses, close_connection, Closed
  <2>2. /\ pushed' \in T /\ Len(pushed') \in 1 .. Len(Ends)
        /\ PacketsAsSent' /\ data_len' \in 0 .. data_len - 1
    BY <2>1, PushedStep
  <2>5. TypeOK' /\ data_len' \in 0 .. MaxBytes
    BY <1>1, <1>2, <2>2, BlockAssumption DEF RecvInv
  <2>3. InputTypeOK'
    BY <2>1, <2>2, <2>5 DEF InputTypeOK
  <2>4. Cutting' /\ NextMissing'
    BY <2>1, <2>2, EndFacts DEF Cutting, NextMissing
  <2> QED BY <2>2, <2>3, <2>4
<1>10. CASE Returns
  <2>1. /\ turn = "return" /\ turn' = "out" /\ data_len' = data_len
        /\ pushed' = pushed /\ pc' = "idle" /\ open' = open /\ read' = read
        /\ recv_buff_data_len' = data_len
    BY <1>10 DEF Returns, HandleLeaves, Showed
  <2>2. InputTypeOK'
    BY <1>1, <1>2, <2>1 DEF InputTypeOK, RecvInv
  <2>3. Cutting'
    BY <1>2, <2>1 DEF Cutting, Undone
  <2>4. NextMissing' /\ PacketsAsSent'
    BY <1>3, <2>1 DEF NextMissing, PacketsAsSent
  <2> QED BY <2>2, <2>3, <2>4
<1>11. CASE Others /\ UNCHANGED inputVars
  <2>1. turn' = turn /\ data_len' = data_len /\ pushed' = pushed
    BY <1>11 DEF inputVars
  <2>2. PacketsAsSent'
    BY <1>3, <2>1 DEF PacketsAsSent
  <2>3. CASE Arrive \/ PeerCloses
    <3>1. pc' = pc /\ open' = open /\ read' = read
          /\ recv_buff_data_len' = recv_buff_data_len
      BY <2>3 DEF Arrive, PeerCloses, bufVars
    <3> QED BY <1>1, <1>2, <1>3, <2>1, <2>2, <3>1
         DEF InputTypeOK, RecvInv, Cutting, Undone, NextMissing
  <2>4. CASE open' = FALSE /\ pc' # "idle" /\ turn = "out"
    BY <1>1, <1>2, <2>1, <2>2, <2>4
    DEF InputTypeOK, RecvInv, Cutting, Undone, NextMissing
  <2>5. CASE on_rdhup \/ RecvEof \/ (turn = "out" /\ close_connection)
    BY <1>2, <2>4, <2>5 DEF on_rdhup, RecvEof, close_connection, Closed
  <2>6. CASE on_epollin \/ on_nothing
    <3>1. pc = "idle" /\ pc' \in {"idle", "recv"} /\ open' = open
          /\ read' = read /\ recv_buff_data_len' = recv_buff_data_len
      BY <2>6 DEF on_epollin, on_nothing, bufVars
    <3> QED BY <1>1, <1>2, <1>3, <2>1, <2>2, <3>1
         DEF InputTypeOK, RecvInv, Cutting, Undone, NextMissing
  <2>7. CASE Recv
    <3>1. pc = "recv" /\ pc' = "recv" /\ open' = open
      BY <2>7 DEF Recv
    <3>2. turn = "out" /\ open
      BY <1>2, <3>1
    <3>3. End(p) + recv_buff_data_len' = read'
      <4>1. Len(taken') + recv_buff_data_len' = read' /\ taken' = taken
            /\ Len(taken) + recv_buff_data_len = read
        BY <1>1, <2>7, <3>1, <3>2
        DEF RecvInv, InputInv, Kept, Recv, handlerVars
      <4>2. Len(taken) \in Nat /\ recv_buff_data_len' \in Nat /\ read' \in Nat
        BY <1>1, BlockAssumption DEF InputInv, InputTypeOK, RecvInv, TypeOK
      <4>3. End(p) \in Nat
        BY <1>2, EndFacts
      <4> QED BY <1>2, <3>2, <4>1, <4>2, <4>3 DEF Undone
    <3> QED BY <1>1, <1>2, <2>1, <2>2, <3>1, <3>2, <3>3
         DEF InputTypeOK, RecvInv, Cutting, Undone, NextMissing
  <2>8. CASE RecvAgain
    <3>1. pc = "recv" /\ turn = "out"
      BY <1>2, <2>8 DEF RecvAgain
    <3>2. CASE recv_data_len > 0
      <4>1. pc' = "handle" /\ open' = open /\ read' = read
            /\ recv_buff_data_len' = recv_buff_data_len
        BY <2>8, <3>2 DEF RecvAgain, bufVars
      <4> QED BY <1>1, <1>2, <2>1, <2>2, <3>1, <4>1
           DEF InputTypeOK, RecvInv, Cutting, Undone, NextMissing
    <3>3. CASE ~(recv_data_len > 0)
      BY <2>4, <2>8, <3>1, <3>3 DEF RecvAgain, Closed
    <3> QED BY <3>2, <3>3
  <2> QED BY <1>11, <2>3, <2>5, <2>6, <2>7, <2>8 DEF Others, DoIo
<1> QED
  BY <1>4, <1>5, <1>6, <1>7, <1>8, <1>9, <1>10, <1>11 DEF InputNext, OnRecvData

\* The invariant says what NothingLost says.
LEMMA RecvInvSound == RecvInv => NothingLost
<1>a. SUFFICES ASSUME RecvInv, open
             PROVE  taken \o Content(recv_buff_head, recv_buff_offset,
                                     recv_buff_data_len) = Bytes(1, read)
  BY DEF NothingLost
<1> DEFINE a == Len(taken)
           one == 1
           f == one + a
           n == recv_buff_data_len
<1>1. a \in Nat /\ n \in Nat /\ one \in Int /\ f \in Int /\ recv_buff_offset \in Int
  BY <1>a, BlockAssumption DEF RecvInv, TypeOK, Positions
<1>2. taken = Bytes(one, a) /\ a + n = read
  BY <1>a DEF RecvInv, Kept
<1>7. \A i \in 0 .. recv_buff_data_len - 1 :
        Merged(recv_buff_head, recv_buff_offset + i) = Len(taken) + i + 1
  BY <1>a DEF RecvInv, Kept
<1>3. ASSUME NEW i \in 0 .. n - 1
      PROVE  Merged(recv_buff_head, recv_buff_offset + i) = f + i
  <2>1. Merged(recv_buff_head, recv_buff_offset + i) = Len(taken) + i + 1
    BY <1>7
  <2>2. Len(taken) + i + 1 = f + i
    BY <1>1
  <2> QED BY <2>1, <2>2
<1> HIDE DEF a, f, n, one
<1>8. \A i \in 0 .. n - 1 : Merged(recv_buff_head, recv_buff_offset + i) = f + i
  BY <1>3
<1>4. Content(recv_buff_head, recv_buff_offset, n) = Bytes(f, n)
  <2> DEFINE o == recv_buff_offset
  <2>1. /\ n \in Nat /\ f \in Int /\ o \in Int
        /\ \A i \in 0 .. n - 1 : Merged(recv_buff_head, o + i) = f + i
    BY <1>1, <1>8
  <2> HIDE DEF o
  <2>2. Content(recv_buff_head, o, n) = Bytes(f, n)
    BY <2>1, ContentBytes
  <2> QED BY <2>2 DEF o
<1>5. Bytes(one, a) \o Bytes(one + a, n) = Bytes(one, a + n)
  BY <1>1, BytesConcat
<1>6. taken \o Content(recv_buff_head, recv_buff_offset, n) = Bytes(one, read)
  BY <1>2, <1>4, <1>5 DEF f
<1> QED BY <1>6 DEF n, one

\* The receive buffer is sound whatever number of bytes on_recv_data leaves,
\* for every block size and however the bytes arrive.
THEOREM RecvBufferSound == Spec => [](TypeOK /\ NothingLost /\ ChainFits)
<1>1. RecvInv /\ [Next]_vars => RecvInv'
  BY NextRecvInv
<1>2. RecvInv => TypeOK /\ NothingLost /\ ChainFits
  BY RecvInvSound DEF RecvInv
<1> QED BY InitRecvInv, <1>1, <1>2, PTL DEF Spec

\* The inductive invariant of on_recv_data on top of the receive buffer.
LEMMA InputInvariant == InputSpec => []InputInv
<1>1. InputInv /\ [InputNext]_allVars => InputInv'
  BY NextInputInv
<1> QED BY InitInputInv, <1>1, PTL DEF InputSpec

\* The receive buffer stays sound under on_recv_data, and when the net process
\* goes back to epoll no complete packet is left in it, for every block size,
\* header length and division into packets.
THEOREM InputSoundHolds == InputSpec => []InputSound
<1>1. ASSUME InputInv PROVE InputSound
  <2>1. RecvInv
    BY <1>1 DEF InputInv, InputTypeOK, RecvInv
  <2>2. NothingLost
    BY <2>1, RecvInvSound
  <2>3. NoPacketLeft
    <3> SUFFICES ASSUME open, pc = "idle", NEW k \in DOMAIN Ends, Ends[k] <= read,
                        ~(k <= Len(pushed))
                 PROVE  FALSE
      BY DEF NoPacketLeft
    <3> DEFINE p == Len(pushed)
    <3>1. p \in Nat /\ k \in 1 .. Len(Ends) /\ Len(Ends) \in Nat
      BY <1>1, EndFacts DEF InputInv, InputTypeOK
    <3>2. p < Len(Ends) /\ p < k
      BY <3>1
    <3>3. read < Ends[p + 1]
      BY <1>1, <3>2 DEF InputInv, NextMissing
    <3> HIDE DEF p
    <3>7. DOMAIN Ends = 1 .. Len(Ends)
      BY PacketAssumption
    <3>8. p + 1 \in 1 .. Len(Ends) /\ (p + 1 = k \/ p + 1 < k)
      BY <3>1, <3>2
    <3>4. p + 1 \in DOMAIN Ends
      BY <3>7, <3>8
    <3>5. Ends[p + 1] <= Ends[k] /\ Ends[p + 1] \in Nat /\ Ends[k] \in Nat
      BY <3>4, <3>8, PacketAssumption
    <3>6. read \in Nat
      BY <1>1, BlockAssumption DEF InputInv, InputTypeOK, TypeOK
    <3> QED BY <3>3, <3>5, <3>6
  <2> QED BY <1>1, <2>2, <2>3 DEF InputInv, InputSound
<1>2. InputInv => InputSound
  BY <1>1
<1> QED BY InputInvariant, <1>2, PTL

\* The packets pushed are those the peer has sent, whole, in order and once,
\* for every block size and however TCP cuts the bytes.
THEOREM PacketsAsSentHolds == InputSpec => []PacketsAsSent
<1>1. InputInv => PacketsAsSent
  BY DEF InputInv
<1> QED BY InputInvariant, <1>1, PTL

\* on_recv_data is one of the handlers RecvBuffer allows for: every behaviour
\* of the two together is one of the receive buffer.
THEOREM ImplementsRecvBufferHolds == InputSpec => ImplementsRecvBuffer
<1>1. InputInit => Init
  BY DEF InputInit
<1>2. InputInv /\ [InputNext]_allVars => [Next]_vars
  BY InputStepIsRecvStep
<1> QED BY InputInvariant, <1>1, <1>2, PTL DEF InputSpec, ImplementsRecvBuffer, Spec

\* A shorter stretch from the beginning is a prefix of a longer one.
LEMMA BytesPrefix ==
  ASSUME NEW m \in Nat, NEW n \in Nat, m <= n
  PROVE  IsPrefix(Bytes(1, m), Bytes(1, n))
<1> DEFINE one == 1
<1>1. one \in Int /\ m \in 0 .. n /\ m \in 0 .. m
  OBVIOUS
<1> HIDE DEF one
<1>2. Len(Bytes(one, m)) = m /\ Len(Bytes(one, n)) = n
  BY <1>1, BytesSeq
<1>3. SubSeq(Bytes(one, m), 1, m) = Bytes(one, m)
      /\ SubSeq(Bytes(one, n), 1, m) = Bytes(one, m)
  BY <1>1, BytesSub
<1>4. IsPrefix(Bytes(one, m), Bytes(one, n))
  BY <1>2, <1>3 DEF IsPrefix
<1> QED BY <1>4 DEF one

\* What has arrived and what has been used only grow.
LEMMA StreamGrows ==
  ASSUME RecvInv, RecvInv', [Next]_vars
  PROVE  arrived <= arrived' /\ Len(taken) <= Len(taken')
<1>1. arrived \in Nat /\ Len(taken) \in Nat /\ taken \in Seq((1 .. MaxBytes) \union {Stale})
  BY BlockAssumption DEF RecvInv, TypeOK
<1>2. CASE Handle
  <2>1. PICK left \in 0 .. MaxLeft : pc = "handle" /\ HandleLeaves(left)
    BY <1>2 DEF Handle
  <2>2. left \in Nat /\ left <= recv_buff_data_len
    BY <2>1, RecvAssumption DEF HandleLeaves, Showed
  <2>3. Len(taken') + left = read
    BY <2>1, <2>2, LeavesKeeps
  <2>4. Len(taken) + recv_buff_data_len = read
    BY <2>1 DEF RecvInv, Kept, Receiving
  <2>5. recv_buff_data_len \in Nat /\ Len(taken') \in Nat
    BY BlockAssumption DEF RecvInv, TypeOK
  <2>6. arrived' = arrived
    BY <2>1 DEF HandleLeaves, Showed, sockVars
  <2> QED BY <1>1, <2>2, <2>3, <2>4, <2>5, <2>6
<1>3. CASE Arrive
  BY <1>1, <1>3 DEF Arrive, handlerVars
<1>4. CASE ~Handle /\ ~Arrive
  <2>1. arrived' = arrived /\ taken' = taken
    BY <1>4 DEF Next, NetProc, on_rdhup, on_epollin, on_nothing, Recv, RecvAgain,
         RecvEof, PeerCloses, close_connection, vars, sockVars, handlerVars
  <2> QED BY <1>1, <2>1
<1> QED BY <1>2, <1>3, <1>4

\* The receive buffer under on_recv_data implements a byte stream: what has
\* been used is the beginning of what the peer has sent, and it only grows.
THEOREM StreamSpecHolds == InputSpec => StreamSpec
<1>1. ASSUME InputInit PROVE Stream!Init
  <2>1. taken = <<>> /\ arrived = 0
    BY <1>1 DEF InputInit, Init
  <2>2. Bytes(1, 0) = <<>>
    BY DEF Bytes
  <2> QED BY <2>1, <2>2 DEF Stream!Init
<1>2. ASSUME InputInv, InputInv', [InputNext]_allVars
      PROVE  [Stream!Next]_<<Bytes(1, arrived), taken>>
  <2>1. RecvInv /\ RecvInv'
    BY <1>2 DEF InputInv, InputTypeOK, RecvInv
  <2>2. arrived <= arrived' /\ Len(taken) <= Len(taken')
    BY <1>2, <2>1, InputStepIsRecvStep, StreamGrows
  <2>3. /\ arrived \in Nat /\ arrived' \in Nat
        /\ Len(taken) \in Nat /\ Len(taken') \in Nat
        /\ taken = Bytes(1, Len(taken)) /\ taken' = Bytes(1, Len(taken'))
        /\ Len(taken') <= arrived'
    BY <2>1, BlockAssumption DEF RecvInv, TypeOK, Kept
  <2>4. IsPrefix(Bytes(1, arrived), Bytes(1, arrived'))
    BY <2>2, <2>3, BytesPrefix
  <2>5. IsPrefix(Bytes(1, Len(taken)), Bytes(1, Len(taken')))
    BY <2>2, <2>3, BytesPrefix
  <2>6. IsPrefix(Bytes(1, Len(taken')), Bytes(1, arrived'))
    BY <2>3, BytesPrefix
  <2>7. IsPrefix(taken, taken') /\ IsPrefix(taken', Bytes(1, arrived'))
    BY <2>3, <2>5, <2>6
  <2>8. Stream!Next
    BY <2>4, <2>7 DEF Stream!Next, Stream!IsPrefix, IsPrefix
  <2> QED BY <2>8
<1>3. InputInv /\ InputInv' /\ [InputNext]_allVars
        => [Stream!Next]_<<Bytes(1, arrived), taken>>
  BY <1>2
<1>4. InputInit => Stream!Init
  BY <1>1
<1> QED BY InputInvariant, <1>3, <1>4, PTL DEF InputSpec, StreamSpec, Stream!Spec

-----------------------------------------------------------------------------
(* The sending half *)

\* Lengths and chain, a partial send or not: the offset never moves, there
\* are blocks for the bytes, and the length falls below 0 by less than a block,
\* and only where the bytes may need a second block.
Counted ==
  /\ send_buff_offset = 0
  /\ left_data_len <= accepted
  /\ send_buff_data_len + left_data_len <= accepted
  /\ spc = "idle" => left_data_len = 0
  /\ spc = "direct" => send_buff_data_len = 0
  /\ connected <=> spc # "closed"
  /\ send_buff_data_len > -MemBlockSize
  /\ send_buff_data_len < 0 => MemBlockSize <= MaxBytes
  /\ connected => Len(send_buff_head) * MemBlockSize >= send_buff_data_len
  /\ connected /\ MemBlockSize > MaxBytes =>
       \/ send_buff_head = <<>> /\ send_buff_data_len = 0
       \/ Len(send_buff_head) = 1 /\ send_buff_data_len > 0

\* before the first partial send: what the kernel has, what the chain holds
\* and what the call has left follow one another
Unsent ==
  connected /\ ~cut =>
    /\ send_buff_data_len >= 0
    /\ Len(sent) + send_buff_data_len + left_data_len = accepted
    /\ sent = Bytes(1, Len(sent))
    /\ \A i \in 0 .. send_buff_data_len - 1 :
         Merged(send_buff_head, i) = Len(sent) + i + 1

\* the inductive invariant of the sending half
SendInv == SendTypeOK /\ Counted /\ Unsent /\ SendChainFits

\* The types of the sending half, and what they give for lengths.
LEMMA SendShape ==
  ASSUME SendInv
  PROVE  /\ send_buff_head \in Chains /\ Len(send_buff_head) \in Nat
         /\ send_buff_offset = 0
         /\ send_buff_data_len \in Int /\ send_buff_data_len \in -MaxBytes .. MaxBytes
         /\ left_data_len \in Nat /\ left_data_len <= MaxBytes
         /\ accepted \in Nat /\ accepted <= MaxBytes
         /\ sent \in Seq(Cells) /\ Len(sent) \in Nat
         /\ room \in Nat /\ room <= SockSize
         /\ MaxBytes \in Nat /\ MemBlockSize \in Nat \ {0} /\ SockSize \in Nat \ {0}
         /\ Len(send_buff_head) * MemBlockSize \in Nat
<1>1. send_buff_head \in Chains /\ Len(send_buff_head) \in Nat
  BY DEF SendInv, SendTypeOK, Chains, Cells
<1>2. sent \in Seq(Cells) /\ Len(sent) \in Nat
  BY DEF SendInv, SendTypeOK, Cells
<1>3. Len(send_buff_head) * MemBlockSize \in Nat
  BY <1>1, BlockAssumption
<1> QED BY <1>1, <1>2, <1>3, BlockAssumption, SendAssumption
     DEF SendInv, SendTypeOK, Counted

\* A connection begins with nothing to send.
LEMMA InitSendInv == SendInit => SendInv
<1> SUFFICES ASSUME SendInit PROVE SendInv
  OBVIOUS
<1>1. send_buff_head = <<>> /\ Len(send_buff_head) = 0
  BY DEF SendInit
<1>2. SendTypeOK
  <2>1. /\ send_buff_head \in Seq([Positions -> (1 .. MaxBytes) \union {Stale}])
        /\ sent \in Seq((1 .. MaxBytes) \union {Stale})
    BY DEF SendInit
  <2>2. /\ 0 \in Positions /\ 0 \in -MaxBytes .. MaxBytes
        /\ 0 \in 0 .. MaxBytes /\ SockSize \in 0 .. SockSize
    BY BlockAssumption, SendAssumption DEF Positions
  <2> QED BY <2>1, <2>2 DEF SendInit, SendTypeOK
<1>3. Counted
  BY <1>1, BlockAssumption DEF SendInit, Counted
<1>4. Unsent
  <2>1. Bytes(1, 0) = <<>>
    BY DEF Bytes
  <2> QED BY <2>1 DEF SendInit, Unsent
<1>5. SendChainFits
  BY <1>1, BlockAssumption DEF SendInit, SendChainFits, Fits
<1> QED BY <1>2, <1>3, <1>4, <1>5 DEF SendInv

\* A step that leaves the bytes where they are keeps the invariant.
LEMMA SendStays ==
  ASSUME SendInv,
         UNCHANGED <<sendBufVars, left_data_len, accepted, sent, connVars>>,
         spc' \in {"idle", "flush", "direct", "copy", "undefined"},
         spc # "closed",
         spc' = "idle" => left_data_len = 0,
         spc' = "direct" => send_buff_data_len = 0,
         room' \in 0 .. SockSize,
         nospace' \in BOOLEAN, writable' \in BOOLEAN
  PROVE  SendInv'
<1>1. /\ send_buff_head' = send_buff_head /\ send_buff_offset' = send_buff_offset
      /\ send_buff_data_len' = send_buff_data_len
      /\ left_data_len' = left_data_len /\ accepted' = accepted /\ sent' = sent
      /\ connected' = connected /\ cut' = cut
  BY DEF sendBufVars, connVars
<1>2. SendTypeOK'
  BY <1>1 DEF SendInv, SendTypeOK
<1>3. Counted'
  BY <1>1 DEF SendInv, Counted
<1>4. Unsent'
  BY <1>1 DEF SendInv, Unsent
<1>5. SendChainFits'
  BY <1>1 DEF SendInv, SendChainFits
<1> QED BY <1>2, <1>3, <1>4, <1>5 DEF SendInv

\* What send() is offered: bytes of the first block, which is there; before
\* the first partial send they are the next bytes of the stream.
LEMMA OfferedBytes ==
  ASSUME SendInv, connected, send_buff_data_len > 0,
         NEW n \in Nat, n <= first_mem_block_data_len
  PROVE  /\ Len(send_buff_head) >= 1 /\ n <= MemBlockSize
         /\ sent \o Offered(n) \in Seq(Cells)
         /\ Len(Offered(n)) = n
         /\ Len(sent \o Offered(n)) = Len(sent) + n
         /\ ~cut => /\ n <= send_buff_data_len
                    /\ sent \o Offered(n) = Bytes(1, Len(sent) + n)
<1> DEFINE L == Len(send_buff_head)
           B == MemBlockSize
           d == send_buff_data_len
<1>1. /\ send_buff_head \in Chains /\ L \in Nat /\ d \in Int /\ B \in Nat \ {0}
      /\ send_buff_offset = 0 /\ sent \in Seq(Cells) /\ Len(sent) \in Nat
      /\ L * B \in Nat
  BY SendShape
<1>2. L * B >= d /\ d > 0
  BY DEF SendInv, Counted
<1>3. L # 0
  <2> SUFFICES ASSUME L = 0 PROVE FALSE OBVIOUS
  <2>1. L * B = 0
    BY <1>1
  <2> QED BY <1>1, <1>2, <2>1
<1>4. n <= B
  <2>1. CASE L = 1
    <3>1. L * B = B
      BY <1>1, <2>1
    <3>2. n <= d
      BY <2>1 DEF first_mem_block_data_len, single_mem_block
    <3> QED BY <1>1, <1>2, <3>1, <3>2
  <2>2. CASE L # 1
    BY <1>1, <2>2 DEF first_mem_block_data_len, single_mem_block
  <2> QED BY <2>1, <2>2
<1>5. send_buff_head[1] \in [Positions -> Cells]
  <2>1. 1 \in 1 .. L
    BY <1>1, <1>3
  <2> QED BY <1>1, <2>1 DEF Chains
<1>6. ASSUME NEW i \in 1 .. n
      PROVE  /\ i - 1 \in Positions /\ send_buff_offset + i - 1 = i - 1
             /\ send_buff_head[1][i - 1] \in Cells
  <2>1. i - 1 \in Positions /\ send_buff_offset + i - 1 = i - 1
    BY <1>1, <1>4 DEF Positions
  <2> QED BY <1>5, <2>1
<1>7. Offered(n) \in Seq(Cells) /\ Len(Offered(n)) = n
      /\ \A i \in 1 .. n : Offered(n)[i] = send_buff_head[1][i - 1]
  BY <1>6 DEF Offered
<1>8. sent \o Offered(n) \in Seq(Cells) /\ Len(sent \o Offered(n)) = Len(sent) + n
  <2> DEFINE o == Offered(n)
  <2>1. o \in Seq(Cells) /\ Len(o) = n /\ sent \in Seq(Cells)
    BY <1>1, <1>7
  <2> HIDE DEF o
  <2>2. sent \o o \in Seq(Cells) /\ Len(sent \o o) = Len(sent) + Len(o)
    BY <2>1, ConcatProperties
  <2> QED BY <2>1, <2>2 DEF o
<1>9. ASSUME ~cut PROVE n <= d
  <2>1. (L - 1) * B < d
    BY <1>1, <1>9 DEF SendInv, SendChainFits, Fits
  <2>2. CASE L = 1
    BY <2>2 DEF first_mem_block_data_len, single_mem_block
  <2>3. CASE L # 1
    <3> DEFINE L1 == L - 1
    <3>1. 0 < L1 /\ L1 \in Int
      <4>1. L \in Nat /\ L # 0 /\ L # 1
        BY <1>1, <1>3, <2>3
      <4> HIDE DEF L
      <4> QED BY <4>1
    <3> HIDE DEF L1
    <3>2. 0 * B + B <= L1 * B
      BY <3>1, TimesOrder
    <3> QED BY <1>1, <1>4, <2>1, <3>2 DEF L1
  <2> QED BY <2>2, <2>3
<1>10. ASSUME ~cut PROVE sent \o Offered(n) = Bytes(1, Len(sent) + n)
  <2>1. /\ sent = Bytes(1, Len(sent))
        /\ \A i \in 0 .. d - 1 : Merged(send_buff_head, i) = Len(sent) + i + 1
    BY <1>10 DEF SendInv, Unsent
  <2>2. ASSUME NEW i \in 1 .. n
        PROVE  send_buff_head[1][i - 1] = Len(sent) + i
    <3> DEFINE r == i - 1
               z == 0
    <3>1. r \in Positions /\ r \in 0 .. d - 1 /\ z \in Nat
      BY <1>1, <1>6, <1>9, <1>10
    <3> HIDE DEF r, z
    <3>2. Merged(send_buff_head, z * MemBlockSize + r) = send_buff_head[z + 1][r]
      BY <3>1, MergedAt
    <3>3. z * MemBlockSize + r = r /\ z + 1 = 1
      BY <1>1, <3>1 DEF z, Positions
    <3>4. send_buff_head[1][r] = Len(sent) + r + 1
      BY <2>1, <3>1, <3>2, <3>3
    <3>5. Len(sent) + r + 1 = Len(sent) + i
      BY <1>1 DEF r
    <3> QED BY <3>4, <3>5 DEF r
  <2> DEFINE a == Len(sent)
             one == 1
             f == one + a
  <2>3. a \in Nat /\ one \in Int
    BY <1>1
  <2>4. Offered(n) = Bytes(f, n)
    <3>1. /\ f \in Int /\ Offered(n) = [i \in 1 .. n |-> send_buff_head[1][i - 1]]
      BY <1>1, <1>6 DEF Offered
    <3>2. \A i \in 1 .. n : send_buff_head[1][i - 1] = f + i - 1
      BY <1>1, <2>2
    <3> QED BY <3>1, <3>2 DEF Bytes
  <2> HIDE DEF a, one
  <2>5. Bytes(one, a) \o Bytes(one + a, n) = Bytes(one, a + n)
    BY <2>3, BytesConcat
  <2> QED BY <2>1, <2>4, <2>5 DEF a, one
<1> QED BY <1>1, <1>3, <1>4, <1>7, <1>8, <1>9, <1>10

\* A block that is sent as a whole leaves the chain, the next one is first.
LEMMA FlushWholeKeeps == ASSUME SendInv, FlushWhole PROVE SendInv'
<1> DEFINE L == Len(send_buff_head)
           B == MemBlockSize
           d == send_buff_data_len
           k == first_mem_block_data_len
           one == 1
<1>1. /\ spc = "flush" /\ spc' = spc /\ d > 0 /\ room >= k
      /\ sent' = sent \o Offered(k) /\ room' = room - Len(Offered(k))
      /\ nospace' = nospace /\ writable' = writable
      /\ send_buff_head' = FreeFirst(send_buff_head, 1)
      /\ send_buff_offset' = 0 /\ send_buff_data_len' = d - k
      /\ left_data_len' = left_data_len /\ accepted' = accepted
      /\ connected' = connected /\ cut' = cut
  BY DEF FlushWhole, Taken, connVars
<1>2. /\ send_buff_head \in Chains /\ L \in Nat /\ d \in Int /\ B \in Nat \ {0}
      /\ send_buff_offset = 0 /\ sent \in Seq(Cells) /\ Len(sent) \in Nat
      /\ L * B \in Nat /\ room \in Nat /\ room <= SockSize
      /\ left_data_len \in Nat /\ accepted \in Nat /\ accepted <= MaxBytes
      /\ MaxBytes \in Nat /\ SockSize \in Nat
  BY SendShape
<1>3. /\ connected /\ L * B >= d
      /\ left_data_len <= accepted /\ d + left_data_len <= accepted
      /\ B > MaxBytes => L = 1
  <2>1. connected
    BY <1>1 DEF SendInv, Counted
  <2>2. B > MaxBytes => L = 1
    BY <1>1, <1>2, <2>1 DEF SendInv, Counted
  <2> QED BY <2>1, <2>2 DEF SendInv, Counted
<1>4. k \in Nat /\ k >= 1 /\ (L = 1 => k = d) /\ (L # 1 => k = B)
  BY <1>1, <1>2 DEF first_mem_block_data_len, single_mem_block
<1> HIDE DEF k
<1>5. /\ L >= 1 /\ k <= B
      /\ sent \o Offered(k) \in Seq(Cells)
      /\ Len(Offered(k)) = k
      /\ Len(sent \o Offered(k)) = Len(sent) + k
      /\ ~cut => k <= d /\ sent \o Offered(k) = Bytes(1, Len(sent) + k)
  <2>1. k <= first_mem_block_data_len
    BY <1>4 DEF k
  <2> QED BY <1>1, <1>3, <1>4, <2>1, OfferedBytes
<1>6. one \in 0 .. L
  BY <1>2, <1>5
<1>7. /\ one * B + B = B + B /\ (L - one) * B = L * B - B
      /\ ((L - one) - 1) * B = L * B - B - B
  <2>1. (L - one) * B = L * B - B
    BY <1>2, Times
  <2>2. L - one \in Int
    BY <1>2
  <2> HIDE DEF L
  <2>3. ((L - one) - 1) * B = (L - one) * B - B
    BY <2>2, Times
  <2> QED BY <1>2, <2>1, <2>3
<1> HIDE DEF one
<1>8. /\ send_buff_head' \in Chains
      /\ Len(send_buff_head') = L - one
      /\ \A i \in Nat : i < (L - one) * B =>
           Merged(send_buff_head', i) = Merged(send_buff_head, one * B + i)
  <2>1. send_buff_head' = FreeFirst(send_buff_head, one)
    BY <1>1 DEF one
  <2> QED BY <1>2, <1>6, <2>1, FreeContent
<1>9. one = 1 /\ one * B = B
  BY <1>2 DEF one
<1> HIDE DEF L
<1>10. SendTypeOK'
  <2>1. /\ send_buff_head' \in Seq([Positions -> (1 .. MaxBytes) \union {Stale}])
        /\ sent' \in Seq((1 .. MaxBytes) \union {Stale})
    BY <1>1, <1>5, <1>8 DEF Chains, Cells
  <2>2. 0 \in Positions /\ room' \in 0 .. SockSize
    BY <1>1, <1>2, <1>4, <1>5 DEF Positions
  <2>3. d - k \in -MaxBytes .. MaxBytes
    BY <1>1, <1>2, <1>3, <1>4
  <2> QED BY <1>1, <2>1, <2>2, <2>3 DEF SendInv, SendTypeOK
<1>11. Counted'
  <2>1. /\ d - k + left_data_len <= accepted /\ d - k > -B
        /\ d - k < 0 => B <= MaxBytes
    BY <1>1, <1>2, <1>3, <1>4, <1>5
  <2>2. Len(send_buff_head') * B >= d - k
    <3>1. Len(send_buff_head') * B = L * B - B
      BY <1>7, <1>8
    <3>2. CASE L = 1
      BY <1>2, <1>4, <3>1, <3>2
    <3>3. CASE L # 1
      BY <1>2, <1>3, <1>4, <3>1, <3>3
    <3> QED BY <3>2, <3>3
  <2>3. ASSUME B > MaxBytes PROVE send_buff_head' = <<>> /\ d - k = 0
    <3>1. L = 1 /\ k = d
      BY <1>3, <1>4, <2>3
    <3>2. Len(send_buff_head') = 0
      BY <1>2, <1>8, <1>9, <3>1
    <3> QED BY <1>2, <1>8, <3>1, <3>2 DEF Chains
  <2> QED BY <1>1, <1>3, <2>1, <2>2, <2>3 DEF SendInv, Counted
<1>12. ASSUME ~cut
       PROVE  /\ L * B - B >= d - k /\ L * B - B - B < d - k
              /\ d - k >= 0 /\ (d - k > 0 => k = B)
  <2>1. (L - 1) * B < d
    BY <1>2, <1>3, <1>12 DEF SendInv, SendChainFits, Fits, L
  <2>2. CASE L = 1
    <3>1. k = d /\ L * B = B
      BY <1>2, <1>4, <2>2
    <3> QED BY <1>2, <3>1
  <2>3. CASE L # 1
    BY <1>2, <1>3, <1>4, <1>5, <1>7, <1>9, <1>12, <2>1, <2>3
  <2> QED BY <2>2, <2>3
<1>13. Unsent'
  <2> SUFFICES ASSUME ~cut
      PROVE /\ d - k >= 0
            /\ Len(sent') + (d - k) + left_data_len = accepted
            /\ sent' = Bytes(1, Len(sent'))
            /\ \A i \in 0 .. (d - k) - 1 :
                 Merged(send_buff_head', i) = Len(sent') + i + 1
    BY <1>1 DEF Unsent
  <2>1. /\ Len(sent) + d + left_data_len = accepted
        /\ \A i \in 0 .. d - 1 : Merged(send_buff_head, i) = Len(sent) + i + 1
    BY <1>3 DEF SendInv, Unsent
  <2>2. Len(sent') = Len(sent) + k /\ sent' = Bytes(1, Len(sent) + k)
    BY <1>1, <1>5
  <2>3. ASSUME NEW i \in 0 .. (d - k) - 1
        PROVE  Merged(send_buff_head', i) = Len(sent') + i + 1
    <3>4. d - k \in Int /\ d - k > 0 /\ d - k <= L * B - B /\ i \in Int
      BY <1>2, <1>4, <1>12
    <3>5. k = B
      BY <1>12, <3>4
    <3>1. /\ i \in Nat /\ i < L * B - B /\ B + i \in 0 .. d - 1
          /\ Len(sent) + (B + i) + 1 = Len(sent') + i + 1
      BY <1>2, <2>2, <3>4, <3>5
    <3>2. Merged(send_buff_head', i) = Merged(send_buff_head, B + i)
      BY <1>7, <1>8, <1>9, <3>1
    <3>3. Merged(send_buff_head, B + i) = Len(sent) + (B + i) + 1
      BY <2>1, <3>1
    <3> QED BY <3>1, <3>2, <3>3
  <2> QED BY <1>2, <1>4, <1>12, <2>1, <2>2, <2>3
<1>14. SendChainFits'
  <2> SUFFICES ASSUME ~cut PROVE Fits(send_buff_head', 0, d - k)
    BY <1>1 DEF SendChainFits
  <2>1. L * B - B >= 0 + (d - k) /\ L * B - B - B < 0 + (d - k)
    BY <1>2, <1>4, <1>12
  <2> QED BY <1>7, <1>8, <2>1 DEF Fits
<1> QED BY <1>10, <1>11, <1>13, <1>14 DEF SendInv

\* After a part of a block has gone only the lengths are kept.
LEMMA FlushPartKeeps == ASSUME SendInv, FlushPart PROVE SendInv'
<1> DEFINE L == Len(send_buff_head)
           B == MemBlockSize
           d == send_buff_data_len
           k == first_mem_block_data_len
<1>1. /\ spc = "flush" /\ spc' = spc /\ d > 0 /\ room \in 1 .. k - 1
      /\ sent' = sent \o Offered(room) /\ room' = room - Len(Offered(room))
      /\ nospace' = nospace /\ writable' = writable
      /\ send_buff_head' = send_buff_head
      /\ send_buff_offset' = send_buff_offset /\ send_buff_data_len' = d - room
      /\ left_data_len' = left_data_len /\ accepted' = accepted
      /\ connected' = connected /\ cut'
      /\ cut' \in BOOLEAN
  BY DEF FlushPart, Taken
<1>2. /\ L \in Nat /\ d \in Int /\ B \in Nat \ {0} /\ send_buff_offset = 0
      /\ L * B \in Nat /\ room \in Nat /\ room <= SockSize
      /\ left_data_len \in Nat /\ accepted \in Nat /\ accepted <= MaxBytes
      /\ MaxBytes \in Nat /\ SockSize \in Nat
  BY SendShape
<1>3. /\ connected /\ L * B >= d
      /\ left_data_len <= accepted /\ d + left_data_len <= accepted
      /\ B > MaxBytes => L = 1
  <2>1. connected
    BY <1>1 DEF SendInv, Counted
  <2>2. B > MaxBytes => L = 1
    BY <1>1, <1>2, <2>1 DEF SendInv, Counted
  <2> QED BY <2>1, <2>2 DEF SendInv, Counted
<1>4. (L = 1 => k = d) /\ (L # 1 => k = B) /\ k \in Int
  BY <1>1, <1>2 DEF first_mem_block_data_len, single_mem_block
<1>5. room < k
  BY <1>1, <1>4
<1>6. sent \o Offered(room) \in Seq(Cells) /\ Len(Offered(room)) = room
  BY <1>1, <1>2, <1>3, <1>4, <1>5, OfferedBytes
<1>7. /\ d - room > -B /\ d - room <= d
      /\ B > MaxBytes => d - room > 0
  BY <1>1, <1>2, <1>3, <1>4, <1>5
<1>8. SendTypeOK'
  <2>1. sent' \in Seq((1 .. MaxBytes) \union {Stale})
    BY <1>1, <1>6 DEF Cells
  <2>2. room' \in 0 .. SockSize
    BY <1>1, <1>2, <1>6
  <2>3. d - room \in -MaxBytes .. MaxBytes
    BY <1>2, <1>3, <1>7
  <2> QED BY <1>1, <2>1, <2>2, <2>3 DEF SendInv, SendTypeOK
<1>9. Counted'
  <2>1. /\ d - room + left_data_len <= accepted
        /\ d - room < 0 => B <= MaxBytes
        /\ L * B >= d - room
    BY <1>2, <1>3, <1>7
  <2> QED BY <1>1, <1>3, <1>7, <2>1 DEF SendInv, Counted
<1>10. Unsent' /\ SendChainFits'
  BY <1>1 DEF Unsent, SendChainFits
<1> QED BY <1>8, <1>9, <1>10 DEF SendInv

\* The bytes of the call that go to the kernel or into a block next.
LEMMA LeftBytes ==
  ASSUME SendInv, NEW n \in Nat, n <= left_data_len
  PROVE  /\ SubSeq(Left, 1, n) = Bytes(accepted - left_data_len + 1, n)
         /\ SubSeq(Left, 1, n) \in Seq(1 .. MaxBytes)
         /\ Len(SubSeq(Left, 1, n)) = n
<1> DEFINE f == accepted - left_data_len + 1
           l == left_data_len
<1>1. /\ accepted \in Nat /\ accepted <= MaxBytes /\ l \in Nat /\ MaxBytes \in Nat
      /\ l <= accepted
  BY SendShape DEF SendInv, Counted
<1>2. f \in Nat \ {0} /\ f \in Int /\ n \in 0 .. l /\ f + n <= MaxBytes + 1
  BY <1>1
<1>3. Left = Bytes(f, l)
  BY DEF Left
<1> HIDE DEF f, l
<1>4. SubSeq(Left, 1, n) = Bytes(f, n)
  BY <1>1, <1>2, <1>3, BytesSub
<1>5. Bytes(f, n) \in Seq(1 .. MaxBytes) /\ Len(Bytes(f, n)) = n
  BY <1>2, BytesRange, BytesSeq
<1> QED BY <1>4, <1>5 DEF f

\* A sequence of bytes is one of cells.
LEMMA CellSeq == ASSUME NEW s \in Seq(1 .. MaxBytes) PROVE s \in Seq(Cells)
<1> DEFINE S == 1 .. MaxBytes
<1>1. s \in Seq(S) /\ S \subseteq Cells
  BY DEF Cells
<1> HIDE DEF S
<1> QED BY <1>1

\* With an empty buffer the kernel gets the caller's bytes directly.
LEMMA DirectSendKeeps == ASSUME SendInv, DirectSend PROVE SendInv'
<1>1. PICK n \in 1 .. left_data_len :
        n <= room /\ Taken(SubSeq(Left, 1, n)) /\ left_data_len' = left_data_len - n
  BY DEF DirectSend
<1> DEFINE s == SubSeq(Left, 1, n)
<1>2. /\ spc = "direct" /\ spc' = spc
      /\ sent' = sent \o s /\ room' = room - Len(s)
      /\ nospace' = nospace /\ writable' = writable
      /\ send_buff_head' = send_buff_head
      /\ send_buff_offset' = send_buff_offset
      /\ send_buff_data_len' = send_buff_data_len
      /\ accepted' = accepted /\ connected' = connected /\ cut' = cut
  BY <1>1 DEF DirectSend, Taken, sendBufVars, connVars
<1>3. /\ left_data_len \in Nat /\ accepted \in Nat /\ accepted <= MaxBytes
      /\ room \in Nat /\ room <= SockSize /\ SockSize \in Nat /\ MaxBytes \in Nat
      /\ sent \in Seq(Cells) /\ Len(sent) \in Nat
  BY SendShape
<1>4. /\ n \in Nat /\ n >= 1 /\ n <= left_data_len
      /\ left_data_len - n \in Nat /\ left_data_len - n <= accepted
      /\ send_buff_data_len = 0 /\ left_data_len <= accepted
  BY <1>1, <1>2, <1>3 DEF SendInv, Counted
<1>5. /\ s = Bytes(accepted - left_data_len + 1, n)
      /\ s \in Seq(1 .. MaxBytes) /\ Len(s) = n
  BY <1>4, LeftBytes
<1> HIDE DEF s
<1>6. sent \o s \in Seq(Cells) /\ Len(sent \o s) = Len(sent) + n
  <2>1. s \in Seq(Cells)
    BY <1>5, CellSeq
  <2> QED BY <1>3, <1>5, <2>1, ConcatProperties
<1>7. SendTypeOK'
  <2>1. sent' \in Seq((1 .. MaxBytes) \union {Stale})
    BY <1>2, <1>6 DEF Cells
  <2>2. room' \in 0 .. SockSize /\ left_data_len' \in 0 .. MaxBytes
    BY <1>1, <1>2, <1>3, <1>4, <1>5
  <2> QED BY <1>2, <2>1, <2>2 DEF SendInv, SendTypeOK
<1>8. Counted'
  BY <1>1, <1>2, <1>3, <1>4 DEF SendInv, Counted
<1>9. Unsent'
  <2> SUFFICES ASSUME connected, ~cut
               PROVE /\ Len(sent') + 0 + (left_data_len - n) = accepted
                     /\ sent' = Bytes(1, Len(sent'))
    BY <1>1, <1>2, <1>4 DEF Unsent
  <2>1. sent = Bytes(1, Len(sent)) /\ Len(sent) + 0 + left_data_len = accepted
    BY <1>4 DEF SendInv, Unsent
  <2> DEFINE a == Len(sent)
             one == 1
  <2>2. a \in Nat /\ one \in Int /\ accepted - left_data_len + 1 = one + a
    BY <1>3, <2>1
  <2>3. sent \o s = Bytes(one, a) \o Bytes(one + a, n)
    BY <1>5, <2>1, <2>2
  <2> HIDE DEF a, one
  <2>4. Bytes(one, a) \o Bytes(one + a, n) = Bytes(one, a + n)
    BY <1>4, <2>2, BytesConcat
  <2>5. sent' = Bytes(1, Len(sent) + n) /\ Len(sent') = Len(sent) + n
    BY <1>2, <1>6, <2>3, <2>4 DEF a, one
  <2> QED BY <1>3, <1>4, <2>1, <2>5
<1>10. SendChainFits'
  BY <1>2 DEF SendInv, SendChainFits
<1> QED BY <1>7, <1>8, <1>9, <1>10 DEF SendInv

\* What the kernel does not take is copied behind what is buffered.
LEMMA CopyBlockKeeps == ASSUME SendInv, CopyBlock PROVE SendInv'
<1> DEFINE d == send_buff_data_len
           B == MemBlockSize
           L == Len(send_buff_head)
           u == Used(send_buff_offset, d)
           l == left_data_len
           c == IF idle_len(u) < l THEN idle_len(u) ELSE l
           s == SubSeq(Left, 1, c)
<1>1. /\ spc = "copy" /\ spc' = spc /\ l > 0
      /\ send_buff_offset + d >= 0
      /\ send_buff_head' = Copied(send_buff_head, u, s)
      /\ send_buff_data_len' = d + c /\ left_data_len' = l - c
      /\ send_buff_offset' = send_buff_offset
      /\ accepted' = accepted /\ connected' = connected /\ cut' = cut
      /\ sent' = sent /\ room' = room /\ nospace' = nospace /\ writable' = writable
  BY DEF CopyBlock, Used, Copied, sendSockVars, connVars
<1>2. /\ send_buff_head \in Chains /\ L \in Nat /\ d \in Int /\ B \in Nat \ {0}
      /\ send_buff_offset = 0 /\ sent \in Seq(Cells) /\ Len(sent) \in Nat
      /\ L * B \in Nat /\ l \in Nat /\ accepted \in Nat /\ accepted <= MaxBytes
      /\ MaxBytes \in Nat
  BY SendShape
<1>3. u = d /\ d \in Nat
  BY <1>1, <1>2 DEF Used
<1>4. /\ connected /\ L * B >= d /\ l <= accepted /\ d + l <= accepted
      /\ B > MaxBytes => \/ send_buff_head = <<>> /\ d = 0
                         \/ L = 1 /\ d > 0
  BY <1>1 DEF SendInv, Counted
<1>5. /\ d % B \in Positions /\ d \div B \in Nat /\ d = (d \div B) * B + (d % B)
      /\ idle_len(u) = B - (d % B)
  BY <1>3, DivMod DEF idle_len
<1>6. /\ c \in Nat /\ c >= 1 /\ c <= l /\ c <= idle_len(u) /\ c <= B - (d % B)
      /\ idle_len(u) \in Nat
  <2>1. idle_len(u) \in Nat /\ idle_len(u) >= 1
    BY <1>2, <1>5 DEF Positions
  <2> HIDE DEF u
  <2> QED BY <1>1, <1>2, <1>5, <2>1
<1> HIDE DEF c
<1>7. /\ s = Bytes(accepted - l + 1, c)
      /\ s \in Seq(1 .. MaxBytes) /\ Len(s) = c
  BY <1>6, LeftBytes
<1> HIDE DEF s
<1> DEFINE w == WithRoom(send_buff_head, u)
           new == Copied(send_buff_head, u, s)
           q == d \div B
           r == d % B
<1>8. /\ w \in Chains /\ Len(w) = IF r = 0 THEN L + 1 ELSE L
  <2>1. u \in Nat /\ u % B = r
    BY <1>3
  <2> HIDE DEF u
  <2> QED BY <1>2, <2>1, RoomType
<1>9. Len(w) * B >= d + c /\ Len(w) \in Nat
  <2>1. CASE r = 0
    <3>1. Len(w) * B = L * B + B
      BY <1>2, <1>8, <2>1, Times
    <3> QED BY <1>2, <1>3, <1>4, <1>5, <1>6, <1>8, <2>1, <3>1 DEF Positions
  <2>2. CASE r # 0
    <3>1. Len(w) = L
      BY <1>8, <2>2
    <3> HIDE DEF L, q, r
    <3>2. r \in Positions /\ q \in Nat /\ d = q * B + r
      BY <1>5 DEF q, r
    <3>3. q * B \in Int /\ (q + 1) * B = q * B + B
      BY <3>2, Times
    <3>4. q < L
      <4> SUFFICES ASSUME ~(q < L) PROVE FALSE OBVIOUS
      <4>1. CASE q = L
        BY <1>2, <1>4, <2>2, <3>2, <3>3, <4>1 DEF Positions
      <4>2. CASE L < q
        <5>1. L * B + B <= q * B
          BY <1>2, <3>2, <4>2, TimesOrder
        <5> QED BY <1>2, <1>4, <3>2, <3>3, <5>1 DEF Positions
      <4> QED BY <1>2, <3>2, <4>1, <4>2
    <3>5. q * B + B <= L * B
      BY <1>2, <3>2, <3>4, TimesOrder
    <3>6. c <= B - r
      BY <1>6 DEF r
    <3> QED BY <1>2, <1>6, <3>1, <3>2, <3>3, <3>5, <3>6 DEF Positions
  <2> QED BY <2>1, <2>2
<1>10. w # <<>>
  <2> SUFFICES ASSUME Len(w) = 0 PROVE FALSE OBVIOUS
  <2>1. Len(w) * B = 0
    BY <1>2
  <2> QED BY <1>3, <1>6, <1>9, <2>1
<1>11. new \in Chains /\ Len(new) = Len(w)
  <2>1. u \in Nat
    BY <1>3
  <2> HIDE DEF w, u
  <2>2. Fill(w, u, s) \in Chains /\ Len(Fill(w, u, s)) = Len(w)
    BY <1>7, <1>8, <1>10, <2>1, FillType
  <2>3. new = Fill(w, u, s)
    BY DEF Copied, w
  <2> QED BY <2>2, <2>3
<1> HIDE DEF new, w
<1>12. send_buff_head' = new
  BY <1>1 DEF new
<1>13. SendTypeOK'
  <2>1. send_buff_head' \in Seq([Positions -> (1 .. MaxBytes) \union {Stale}])
    BY <1>11, <1>12 DEF Chains, Cells
  <2>2. d + c \in -MaxBytes .. MaxBytes /\ l - c \in 0 .. MaxBytes
    BY <1>2, <1>3, <1>4, <1>6
  <2> QED BY <1>1, <2>1, <2>2 DEF SendInv, SendTypeOK
<1>14. Counted'
  <2>1. /\ l - c <= accepted /\ (d + c) + (l - c) <= accepted /\ d + c > 0
        /\ d + c > -B /\ ~(d + c < 0)
    BY <1>2, <1>3, <1>4, <1>6
  <2>2. Len(send_buff_head') * B >= d + c
    BY <1>9, <1>11, <1>12
  <2>3. ASSUME B > MaxBytes PROVE Len(send_buff_head') = 1
    <3>1. CASE send_buff_head = <<>> /\ d = 0
      <4>1. L = 0 /\ r = 0
        BY <1>2, <3>1
      <4> QED BY <1>8, <1>11, <1>12, <4>1
    <3>2. CASE L = 1 /\ d > 0
      <4>1. d < B
        BY <1>2, <1>4, <2>3
      <4>2. r # 0
        BY <1>2, <1>3, <3>2, <4>1
      <4> QED BY <1>8, <1>11, <1>12, <3>2, <4>2
    <3> QED BY <1>4, <2>3, <3>1, <3>2
  <2> QED BY <1>1, <1>4, <2>1, <2>2, <2>3 DEF SendInv, Counted
<1>15. ASSUME ~cut
       PROVE  /\ Fits(new, send_buff_offset, d + Len(s))
              /\ \A i \in 0 .. u - 1 : Merged(new, i) = Merged(send_buff_head, i)
              /\ \A i \in 1 .. Len(s) : Merged(new, u + i - 1) = s[i]
  <2>1. /\ Fits(send_buff_head, send_buff_offset, d) /\ send_buff_offset \in Nat
        /\ Len(s) \in 1 .. idle_len(u)
    BY <1>2, <1>4, <1>6, <1>7, <1>15 DEF SendInv, SendChainFits
  <2> QED BY <1>2, <1>3, <1>7, <2>1, FillContent DEF new
<1>16. Unsent'
  <2> SUFFICES ASSUME ~cut
      PROVE /\ d + c >= 0
            /\ Len(sent) + (d + c) + (l - c) = accepted
            /\ sent = Bytes(1, Len(sent))
            /\ \A i \in 0 .. (d + c) - 1 : Merged(new, i) = Len(sent) + i + 1
    BY <1>1, <1>12 DEF Unsent
  <2>1. /\ Len(sent) + d + l = accepted /\ sent = Bytes(1, Len(sent))
        /\ \A i \in 0 .. d - 1 : Merged(send_buff_head, i) = Len(sent) + i + 1
    BY <1>4 DEF SendInv, Unsent
  <2>2. ASSUME NEW i \in 0 .. (d + c) - 1 PROVE Merged(new, i) = Len(sent) + i + 1
    <3>1. CASE i < d
      <4>1. i \in 0 .. d - 1
        BY <1>3, <1>6, <3>1
      <4> QED BY <1>3, <1>15, <2>1, <4>1
    <3>2. CASE ~(i < d)
      <4> DEFINE j == i - d + 1
      <4>1. j \in 1 .. c /\ d + j - 1 = i
            /\ accepted - l + 1 + j - 1 = Len(sent) + i + 1
        BY <1>2, <1>3, <1>6, <2>1, <3>2
      <4> HIDE DEF j
      <4>2. Merged(new, i) = s[j]
        BY <1>3, <1>7, <1>15, <4>1
      <4>3. s[j] = accepted - l + 1 + j - 1
        BY <1>7, <4>1 DEF Bytes
      <4> QED BY <4>1, <4>2, <4>3
    <3> QED BY <3>1, <3>2
  <2> QED BY <1>2, <1>3, <1>6, <2>1, <2>2
<1>17. SendChainFits'
  <2> SUFFICES ASSUME ~cut PROVE Fits(new, send_buff_offset, d + c)
    BY <1>1, <1>12 DEF SendChainFits
  <2> QED BY <1>7, <1>15
<1> QED BY <1>13, <1>14, <1>16, <1>17 DEF SendInv

\* A call of send_data has all of its bytes left.
LEMMA SendDataKeeps ==
  ASSUME SendInv, NEW n \in DataLens, send_data(n) PROVE SendInv'
<1>1. /\ spc = "idle" /\ connected /\ accepted + n <= MaxBytes
      /\ accepted' = accepted + n /\ left_data_len' = n /\ spc' = "flush"
      /\ send_buff_head' = send_buff_head /\ send_buff_offset' = send_buff_offset
      /\ send_buff_data_len' = send_buff_data_len
      /\ sent' = sent /\ room' = room /\ nospace' = nospace /\ writable' = writable
      /\ connected' = connected /\ cut' = cut
  BY DEF send_data, sendBufVars, sendSockVars, connVars
<1>2. /\ n \in Nat /\ accepted \in Nat /\ MaxBytes \in Nat /\ left_data_len = 0
      /\ send_buff_data_len \in Int /\ Len(sent) \in Nat
      /\ send_buff_data_len <= accepted
  BY <1>1, SendShape, SendAssumption DEF SendInv, Counted
<1>3. SendTypeOK'
  <2>1. n \in 0 .. MaxBytes /\ accepted + n \in 0 .. MaxBytes
    BY <1>1, <1>2
  <2> QED BY <1>1, <2>1 DEF SendInv, SendTypeOK
<1>4. Counted'
  <2>1. n <= accepted + n /\ send_buff_data_len + n <= accepted + n
    BY <1>2
  <2> QED BY <1>1, <2>1 DEF SendInv, Counted
<1>5. Unsent'
  <2> SUFFICES ASSUME ~cut
      PROVE /\ send_buff_data_len >= 0
            /\ Len(sent) + send_buff_data_len + n = accepted + n
            /\ sent = Bytes(1, Len(sent))
            /\ \A i \in 0 .. send_buff_data_len - 1 :
                 Merged(send_buff_head, i) = Len(sent) + i + 1
    BY <1>1 DEF Unsent
  <2>1. Len(sent) + send_buff_data_len + left_data_len = accepted
    BY <1>1 DEF SendInv, Unsent
  <2>2. Len(sent) + send_buff_data_len + n = accepted + n
    BY <1>2, <2>1
  <2> QED BY <1>1, <2>2 DEF SendInv, Unsent
<1>6. SendChainFits'
  BY <1>1 DEF SendInv, SendChainFits
<1> QED BY <1>3, <1>4, <1>5, <1>6 DEF SendInv

\* A closed connection gives its blocks back and keeps its counters.
LEMMA SendCloseKeeps == ASSUME SendInv, send_close_connection PROVE SendInv'
<1>1. /\ ~connected' /\ connected' \in BOOLEAN
      /\ send_buff_head' = <<>> /\ spc' = "closed"
      /\ send_buff_offset' = send_buff_offset
      /\ send_buff_data_len' = send_buff_data_len
      /\ left_data_len' = left_data_len /\ accepted' = accepted
      /\ sent' = sent /\ room' = room /\ nospace' = nospace /\ writable' = writable
      /\ cut' = cut
  BY DEF send_close_connection, sendSockVars
<1>2. SendTypeOK'
  <2>1. send_buff_head' \in Seq([Positions -> (1 .. MaxBytes) \union {Stale}])
    BY <1>1
  <2> QED BY <1>1, <2>1 DEF SendInv, SendTypeOK
<1>3. Counted'
  BY <1>1 DEF SendInv, Counted
<1> QED BY <1>1, <1>2, <1>3 DEF SendInv, Unsent, SendChainFits

\* Every step of the sending side and of its peer keeps the invariant.
LEMMA NextSendInv == ASSUME SendInv, [SendNext]_sendVars PROVE SendInv'
<1>0. /\ spc \in {"idle", "flush", "direct", "copy", "closed", "undefined"}
      /\ room \in 0 .. SockSize /\ nospace \in BOOLEAN /\ writable \in BOOLEAN
      /\ left_data_len \in Nat /\ send_buff_data_len \in Int
      /\ SockSize \in Nat
      /\ connected <=> spc # "closed"
      /\ spc = "idle" => left_data_len = 0
      /\ spc = "direct" => send_buff_data_len = 0
  BY SendShape DEF SendInv, SendTypeOK, Counted
<1>1. ASSUME NEW n \in DataLens, send_data(n) PROVE SendInv'
  BY <1>1, SendDataKeeps
<1>2. CASE FlushWhole
  BY <1>2, FlushWholeKeeps
<1>3. CASE FlushPart
  BY <1>3, FlushPartKeeps
<1>4. CASE FlushAgain \/ FlushDone
  <2>1. /\ UNCHANGED <<sendBufVars, left_data_len, accepted, sent, connVars>>
        /\ spc = "flush" /\ spc' = AfterFlush /\ room' = room
        /\ nospace' \in BOOLEAN /\ writable' \in BOOLEAN
    BY <1>0, <1>4 DEF FlushAgain, FlushDone, Again, sendSockVars
  <2>2. /\ spc' \in {"idle", "direct", "copy"}
        /\ spc' = "idle" => left_data_len = 0
        /\ spc' = "direct" => send_buff_data_len = 0
    BY <2>1 DEF AfterFlush
  <2> QED BY <1>0, <2>1, <2>2, SendStays
<1>5. CASE DirectSend
  BY <1>5, DirectSendKeeps
<1>6. CASE DirectAgain
  <2>1. /\ UNCHANGED <<sendBufVars, left_data_len, accepted, sent, connVars>>
        /\ spc = "direct" /\ spc' = "copy" /\ room' = room
        /\ nospace' \in BOOLEAN /\ writable' \in BOOLEAN
    BY <1>0, <1>6 DEF DirectAgain, Again
  <2> QED BY <1>0, <2>1, SendStays
<1>7. CASE CopyBlock
  BY <1>7, CopyBlockKeeps
<1>8. CASE CopyWild
  <2>1. /\ UNCHANGED <<sendBufVars, left_data_len, accepted, sent, connVars>>
        /\ spc = "copy" /\ spc' = "undefined" /\ room' = room
        /\ nospace' \in BOOLEAN /\ writable' \in BOOLEAN
    BY <1>0, <1>8 DEF CopyWild, sendSockVars
  <2> QED BY <1>0, <2>1, SendStays
<1>9. CASE SendReturn
  <2>1. /\ UNCHANGED <<sendBufVars, left_data_len, accepted, sent, connVars>>
        /\ spc \in {"direct", "copy"} /\ spc' = "idle" /\ room' = room
        /\ left_data_len = 0
        /\ nospace' \in BOOLEAN /\ writable' \in BOOLEAN
    BY <1>0, <1>9 DEF SendReturn, sendSockVars
  <2> QED BY <1>0, <2>1, SendStays
<1>10. CASE on_epollout
  <2>1. /\ UNCHANGED <<sendBufVars, left_data_len, accepted, sent, connVars>>
        /\ spc = "idle" /\ spc' \in {"idle", "flush"} /\ room' = room
        /\ nospace' \in BOOLEAN /\ writable' \in BOOLEAN
    BY <1>0, <1>10 DEF on_epollout
  <2> QED BY <1>0, <2>1, SendStays
<1>11. CASE send_close_connection
  BY <1>11, SendCloseKeeps
<1>12. CASE PeerReads
  <2>1. /\ UNCHANGED <<sendBufVars, left_data_len, accepted, sent, connVars>>
        /\ spc # "closed" /\ spc # "undefined" /\ spc' = spc
        /\ nospace' \in BOOLEAN /\ writable' \in BOOLEAN
    BY <1>0, <1>12 DEF PeerReads
  <2>2. room' \in 0 .. SockSize
    BY <1>0, <1>12 DEF PeerReads
  <2> QED BY <1>0, <2>1, <2>2, SendStays
<1>13. CASE UNCHANGED sendVars
  <2>1. /\ UNCHANGED <<send_buff_head, send_buff_offset, send_buff_data_len, spc,
                       left_data_len, accepted, sent, room, nospace, writable,
                       connected, cut>>
    BY <1>13 DEF sendVars, sendBufVars, sendSockVars, connVars
  <2> QED BY <2>1 DEF SendInv, SendTypeOK, Counted, Unsent, SendChainFits
<1> QED BY <1>1, <1>2, <1>3, <1>4, <1>5, <1>6, <1>7, <1>8, <1>9, <1>10, <1>11,
        <1>12, <1>13 DEF SendNext, SendProc

\* The invariant says what SendNothingLost says.
LEMMA SendInvSound == SendInv => SendNothingLost
<1>a. SUFFICES ASSUME SendInv, connected, ~cut
             PROVE  (sent \o Content(send_buff_head, send_buff_offset,
                                     send_buff_data_len)) \o Left
                      = Bytes(1, accepted)
  BY DEF SendNothingLost
<1> DEFINE a == Len(sent)
           one == 1
           f == one + a
           n == send_buff_data_len
           l == left_data_len
           z == 0
           an == a + n
<1>1. /\ a \in Nat /\ n \in Int /\ one \in Int /\ f \in Int /\ z \in Int
      /\ l \in Nat /\ accepted \in Nat /\ send_buff_offset = z
  BY <1>a, SendShape
<1>2. /\ sent = Bytes(one, a) /\ a + n + l = accepted /\ n >= 0
      /\ \A i \in 0 .. n - 1 : Merged(send_buff_head, i) = a + i + 1
  BY <1>a DEF SendInv, Unsent
<1>3. n \in Nat /\ an \in Nat /\ accepted - l + 1 = one + an /\ an + l = accepted
  BY <1>1, <1>2
<1>4. ASSUME NEW i \in 0 .. n - 1 PROVE Merged(send_buff_head, z + i) = f + i
  <2>1. z + i = i /\ a + i + 1 = f + i
    BY <1>1
  <2> QED BY <1>2, <2>1
<1>5. Left = Bytes(one + an, l)
  BY <1>3 DEF Left
<1> HIDE DEF a, f, n, one, l, z, an
<1>6. \A i \in 0 .. n - 1 : Merged(send_buff_head, z + i) = f + i
  BY <1>4
<1>7. Content(send_buff_head, z, n) = Bytes(f, n)
  <2>1. n \in Nat /\ f \in Int /\ z \in Int
    BY <1>1, <1>3
  <2> QED BY <1>6, <2>1, ContentBytes
<1>8. Bytes(one, a) \o Bytes(one + a, n) = Bytes(one, a + n)
  BY <1>1, <1>3, BytesConcat
<1>9. Bytes(one, an) \o Bytes(one + an, l) = Bytes(one, an + l)
  BY <1>1, <1>3, BytesConcat
<1>10. sent \o Content(send_buff_head, z, n) = Bytes(one, an)
  BY <1>2, <1>7, <1>8 DEF f, an
<1>11. (sent \o Content(send_buff_head, z, n)) \o Left = Bytes(one, accepted)
  BY <1>3, <1>5, <1>9, <1>10
<1> QED BY <1>1, <1>11 DEF n, one

\* The send buffer is sound for every block size, every size of the socket's
\* buffer and every sequence of calls: until the kernel takes a part of a
\* block, what it has taken, what is buffered and what the call has left are
\* the bytes send_data was called with, and the chain has the blocks they need.
THEOREM BufferSoundHolds == SendSpec => []BufferSound
<1>1. SendInv /\ [SendNext]_sendVars => SendInv'
  BY NextSendInv
<1>2. SendInv => BufferSound
  BY SendInvSound DEF SendInv, BufferSound
<1> QED BY InitSendInv, <1>1, <1>2, PTL DEF SendSpec
=============================================================================
