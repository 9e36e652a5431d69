--------------------------- MODULE PlainServerProof ---------------------------
(***************************************************************************)
(* The plain mode, for any number of workers, clients, packets and kills   *)
(* and queues of any length: a packet is in one place, and what the net    *)
(* process does in the life in which a request came in, it does to the     *)
(* client that sent it.                                                    *)
(***************************************************************************)
EXTENDS PlainServer, SequenceTheorems, FiniteSetTheorems, TLAPS

\* Without a net process there is no connection and a restart to come; ids
\* above m_id have not been given in this life.
Connections ==
  /\ ~up => life < MaxNetCrash /\ \A i \in Ids : conn[i] = NULL
  /\ \A i \in Ids : conn[i] # NULL => i < m_id

\* The lock has one holder, and a worker has a packet from the copy to the
\* end of handle_process.
Hands ==
  /\ \A w \in Workers : wpc[w] \in Holding => rlock = w
  /\ \A w \in Workers :
       wpc[w] \in {"check", "lock", "copy", "dead"} => mine[w] = NULL
  /\ \A w \in Workers : wpc[w] \in {"move", "process"} => mine[w] # NULL
  /\ \A w \in Workers :
       wpc[w] = "move" => rcvq # <<>> /\ mine[w] = Head(rcvq)

\* A request or a block of this life has an id that was given in this life,
\* and whoever is connected under it is the client of the request.
OwnedIn(r, c, m, l) ==
  /\ r.life <= l
  /\ r.life = l => r.id < m /\ (r.id \in Ids => c[r.id] \in {NULL, r.client})

Owned(r) == OwnedIn(r, conn, m_id, life)

AllOwned ==
  /\ \A k \in 1 .. Len(rcvq) : Owned(rcvq[k])
  /\ \A k \in 1 .. Len(sndq) : Owned(sndq[k])
  /\ \A w \in Workers : mine[w] # NULL => Owned(mine[w])

InQueue(s) == \E k \in 1 .. Len(rcvq) : rcvq[k].seq = s
InHand(s) == \E w \in Workers : HasPacket(w) /\ mine[w].seq = s
Done(s) == \E k \in 1 .. Len(handled) : handled[k] = s

\* no two places of the same kind hold the same packet
Distinct ==
  /\ \A j, k \in 1 .. Len(rcvq) : rcvq[j].seq = rcvq[k].seq => j = k
  /\ \A v, w \in Workers :
       HasPacket(v) /\ HasPacket(w) /\ mine[v].seq = mine[w].seq => v = w
  /\ \A j, k \in 1 .. Len(handled) : handled[j] = handled[k] => j = k

\* nor do two places of different kinds
Apart ==
  \A s \in 1 .. MaxSend :
    /\ InQueue(s) => ~InHand(s) /\ ~Done(s) /\ s \notin lost
    /\ InHand(s) => ~Done(s) /\ s \notin lost
    /\ Done(s) => s \notin lost

\* the packets with a place are the ones that were made
Placed ==
  \A s \in 1 .. MaxSend :
    s <= made <=> InQueue(s) \/ InHand(s) \/ Done(s) \/ s \in lost

Places == Distinct /\ Apart /\ Placed

Inv == TypeOK /\ Connections /\ Hands /\ AllOwned /\ Places /\ OwnInOneLife
-----------------------------------------------------------------------------
(* The parameters, and sequences element by element *)

LEMMA Params ==
  /\ MaxClient \in Nat /\ MaxSend \in Nat /\ RcvLen \in Nat /\ SndLen \in Nat
  /\ MaxCrash \in Nat /\ MaxNetCrash \in Nat
  /\ NULL \notin Workers /\ NULL \notin Clients /\ NULL \notin Requests
BY PlainAssumption

\* Append leaves what was there and puts the new element behind it.
LEMMA AppendElements ==
  ASSUME NEW S, NEW q \in Seq(S), NEW e \in S
  PROVE  /\ Append(q, e) \in Seq(S)
         /\ Len(Append(q, e)) = Len(q) + 1
         /\ Len(q) \in Nat
         /\ \A k \in 1 .. Len(q) : Append(q, e)[k] = q[k]
         /\ Append(q, e)[Len(q) + 1] = e
BY AppendProperties, LenProperties

\* Tail moves each element one place ahead.
LEMMA TailElements ==
  ASSUME NEW S, NEW q \in Seq(S), q # <<>>
  PROVE  /\ Tail(q) \in Seq(S)
         /\ Len(Tail(q)) = Len(q) - 1
         /\ Len(q) \in Nat \ {0}
         /\ \A k \in 1 .. Len(q) - 1 : Tail(q)[k] = q[k + 1]
         /\ Head(q) = q[1] /\ Head(q) \in S
<1>1. Len(q) \in Nat \ {0}
  BY LenProperties, EmptySeq
<1> QED
  BY <1>1, HeadTailProperties

USE DEF connVars, workVars, vars

-----------------------------------------------------------------------------
(* Types *)

LEMMA InitInv == Init => Inv
<1> SUFFICES ASSUME Init PROVE Inv
  OBVIOUS
<1> USE Params DEF Init
<1>1. TypeOK
  BY EmptySeq DEF TypeOK, Ids
<1>2. Connections
  BY DEF Connections
<1>3. Hands
  BY DEF Hands, Holding
<1>4. AllOwned
  BY DEF AllOwned
<1>5. Places
  BY DEF Places, Distinct, Apart, Placed, InQueue, InHand, Done, HasPacket
<1>6. OwnInOneLife
  BY DEF OwnInOneLife
<1> QED
  BY <1>1, <1>2, <1>3, <1>4, <1>5, <1>6 DEF Inv

\* What the net process does to a connection keeps the types.
LEMMA DisconnectTypes ==
  ASSUME TypeOK, NEW i, Disconnect(i)
  PROVE  conn' \in [Ids -> Clients \union {NULL}]
BY DEF TypeOK, Disconnect

\* A block of the send queue keeps the types of what it changes.
LEMMA ActTypes ==
  ASSUME TypeOK, NEW b \in Blocks, Act(b)
  PROVE  /\ conn' \in [Ids -> Clients \union {NULL}]
         /\ acts' \subseteq [type : {"DAT", "FIN"}, to : Clients,
                             owner : Clients, same : BOOLEAN]
<1>1. CASE b.id \in Ids /\ conn[b.id] # NULL
  <2>1. conn' \in [Ids -> Clients \union {NULL}]
    BY <1>1, DisconnectTypes DEF Act, TypeOK
  <2>2. conn[b.id] \in Clients
    BY <1>1 DEF TypeOK
  <2>3. b.type \in {"DAT", "FIN"} /\ b.client \in Clients
    BY DEF Blocks
  <2>4. (b.life = life) \in BOOLEAN
    OBVIOUS
  <2>5. [type |-> b.type, to |-> conn[b.id], owner |-> b.client,
         same |-> b.life = life]
          \in [type : {"DAT", "FIN"}, to : Clients, owner : Clients,
               same : BOOLEAN]
    BY <2>2, <2>3, <2>4, Zenon
  <2>6. acts' = acts \union
          {[type |-> b.type, to |-> conn[b.id], owner |-> b.client,
            same |-> b.life = life]}
    BY <1>1, Zenon DEF Act
  <2>7. acts \subseteq [type : {"DAT", "FIN"}, to : Clients, owner : Clients,
                        same : BOOLEAN]
    BY Zenon DEF TypeOK
  <2> QED
    BY <2>1, <2>5, <2>6, <2>7, Zenon
<1>2. CASE ~(b.id \in Ids /\ conn[b.id] # NULL)
  BY <1>2, Zenon DEF Act, TypeOK
<1> QED
  BY <1>1, <1>2

\* The send queue after a reply, a close or nothing.
LEMMA AnswerTypes ==
  ASSUME NEW r \in Requests, NEW a \in Answer(r)
  PROVE  a \in Seq(Blocks) /\ (a = <<>> \/ (Len(a) = 1 /\ a[1] \in Blocks
           /\ a[1].id \in {r.id, Negative} /\ a[1].client = r.client
           /\ a[1].life = r.life))
<1>1. /\ r.id \in Ids \union {Negative} /\ r.client \in Clients
      /\ r.life \in 0 .. MaxNetCrash
  BY DEF Requests
<1>2. CASE a = <<>>
  BY <1>2, EmptySeq
<1>3. ASSUME NEW t \in {"DAT", "FIN"}, NEW n \in {r.id, Negative},
             a = <<[type |-> t, id |-> n, client |-> r.client,
                    life |-> r.life]>>
      PROVE  /\ a \in Seq(Blocks) /\ Len(a) = 1 /\ a[1] \in Blocks
             /\ a[1].id \in {r.id, Negative} /\ a[1].client = r.client
             /\ a[1].life = r.life
  <2>1. [type |-> t, id |-> n, client |-> r.client, life |-> r.life] \in Blocks
    BY <1>1 DEF Blocks
  <2> QED
    BY <1>3, <2>1
<1>4. \/ a = <<>>
      \/ \E t \in {"DAT", "FIN"}, n \in {r.id, Negative} :
           a = <<[type |-> t, id |-> n, client |-> r.client,
                  life |-> r.life]>>
  BY Zenon DEF Answer
<1> QED
  BY <1>2, <1>3, <1>4

\* What handle_process leaves in the send queue: what was there, and perhaps
\* one block about the request.
LEMMA ProcessSends ==
  ASSUME TypeOK, NEW r \in Requests, NEW a \in Answer(r),
         sndq' = IF Len(sndq) + Len(a) > SndLen THEN sndq ELSE sndq \o a
  PROVE  /\ sndq' \in Seq(Blocks) /\ Len(sndq') <= SndLen
         /\ \A k \in 1 .. Len(sndq') :
              \/ k \in 1 .. Len(sndq) /\ sndq'[k] = sndq[k]
              \/ /\ sndq'[k].id \in {r.id, Negative}
                 /\ sndq'[k].life = r.life /\ sndq'[k].client = r.client
<1>1. sndq \in Seq(Blocks) /\ Len(sndq) <= SndLen /\ Len(sndq) \in Nat
  BY LenProperties DEF TypeOK
<1>2. /\ a \in Seq(Blocks) /\ Len(a) \in Nat
      /\ (a = <<>> \/ (Len(a) = 1
           /\ a[1].id \in {r.id, Negative} /\ a[1].client = r.client
           /\ a[1].life = r.life))
  BY AnswerTypes, LenProperties
<1>3. CASE Len(sndq) + Len(a) > SndLen
  BY <1>1, <1>3
<1>4. CASE ~(Len(sndq) + Len(a) > SndLen)
  <2>1. sndq' = sndq \o a
    BY <1>4
  <2>2. /\ sndq' \in Seq(Blocks) /\ Len(sndq') = Len(sndq) + Len(a)
        /\ \A k \in 1 .. Len(sndq) + Len(a) :
             sndq'[k] = IF k <= Len(sndq) THEN sndq[k] ELSE a[k - Len(sndq)]
    BY <1>1, <1>2, <2>1, ConcatProperties
  <2>3. Len(sndq') <= SndLen
    BY <1>1, <1>2, <1>4, <2>2, Params
  <2>4. CASE a = <<>>
    BY <1>1, <2>1, <2>2, <2>3, <2>4
  <2>5. CASE a # <<>>
    <3>1. SUFFICES ASSUME NEW k \in 1 .. Len(sndq'), k \notin 1 .. Len(sndq)
                   PROVE  sndq'[k] = a[1]
      BY <1>1, <1>2, <2>2, <2>3, <2>5
    <3>2. k = Len(sndq) + 1
      BY <1>1, <1>2, <2>2, <2>5, <3>1
    <3> QED
      BY <1>1, <1>2, <2>2, <2>5, <3>2
  <2> QED
    BY <2>4, <2>5
<1> QED
  BY <1>3, <1>4

\* The packet that handle_process is called with.
LEMMA MineIsRequest ==
  ASSUME TypeOK, NEW w \in Workers, mine[w] # NULL
  PROVE  mine[w] \in Requests /\ mine[w].seq \in 1 .. MaxSend
BY DEF TypeOK, Requests

LEMMA TypeStep ==
  ASSUME TypeOK, Connections, Hands, [Next]_vars
  PROVE  TypeOK'
<1> USE Params
<1>1. CASE Accept
  <2>1. m_id \in Ids /\ connects + 1 \in Clients
    BY <1>1 DEF TypeOK, Accept, Ids, Clients
  <2>2. conn' \in [Ids -> Clients \union {NULL}]
    BY <1>1, <2>1 DEF TypeOK, Accept
  <2> QED
    BY <1>1, <2>2 DEF TypeOK, Accept
<1>2. CASE NetPop
  <2>1. /\ Tail(sndq) \in Seq(Blocks) /\ Len(Tail(sndq)) = Len(sndq) - 1
        /\ Len(sndq) \in Nat /\ Head(sndq) \in Blocks
    BY <1>2, TailElements DEF TypeOK, NetPop
  <2>2. sndq' \in Seq(Blocks) /\ Len(sndq') <= SndLen
    <3>1. sndq' = Tail(sndq)
      BY <1>2 DEF NetPop
    <3>2. Len(sndq) <= SndLen
      BY DEF TypeOK
    <3>3. Len(Tail(sndq)) <= SndLen
      BY <2>1, <3>2
    <3> QED
      BY <2>1, <3>1, <3>3, Zenon
  <2>3. /\ conn' \in [Ids -> Clients \union {NULL}]
        /\ acts' \subseteq [type : {"DAT", "FIN"}, to : Clients,
                            owner : Clients, same : BOOLEAN]
    BY <1>2, <2>1, ActTypes DEF NetPop
  <2> QED
    BY <1>2, <2>2, <2>3 DEF TypeOK, NetPop
<1>3. CASE NetCrash
  <2>1. CASE sndq' = sndq
    BY <1>3, <2>1 DEF TypeOK, NetCrash
  <2>2. CASE sndq # <<>> /\ sndq' = Tail(sndq)
    <3>1. /\ Tail(sndq) \in Seq(Blocks) /\ Len(Tail(sndq)) = Len(sndq) - 1
          /\ Len(sndq) \in Nat
      BY <2>2, TailElements DEF TypeOK
    <3>2. sndq' \in Seq(Blocks) /\ Len(sndq') <= SndLen
      <4>1. Len(sndq) <= SndLen
        BY DEF TypeOK
      <4>2. Len(Tail(sndq)) <= SndLen
        BY <3>1, <4>1
      <4> QED
        BY <2>2, <3>1, <4>2, Zenon
    <3> QED
      BY <1>3, <3>2 DEF TypeOK, NetCrash
  <2>3. sndq' = sndq \/ (sndq # <<>> /\ sndq' = Tail(sndq))
    BY <1>3, Zenon DEF NetCrash
  <2> QED
    BY <2>1, <2>2, <2>3
<1>4. CASE MainRebootNet
  BY <1>4 DEF TypeOK, MainRebootNet, Connections
<1>5. ASSUME NEW w \in Workers, MainRebootWorker(w) PROVE TypeOK'
  BY <1>5 DEF TypeOK, MainRebootWorker, Goto
<1>6. ASSUME NEW i \in Ids, HangUp(i) PROVE TypeOK'
  BY <1>6, DisconnectTypes DEF TypeOK, HangUp
<1>7. ASSUME NEW i \in Ids, Receive(i) PROVE TypeOK'
  <2>1. CASE Len(rcvq) < RcvLen
    <3>1. [seq |-> made + 1, id |-> i, client |-> conn[i], life |-> life]
            \in Requests
      BY <1>7, <2>1 DEF TypeOK, Receive, Requests
    <3>2. /\ rcvq' \in Seq(Requests) /\ Len(rcvq') = Len(rcvq) + 1
          /\ Len(rcvq) \in Nat
      <4>1. rcvq' = Append(rcvq, [seq |-> made + 1, id |-> i,
                                  client |-> conn[i], life |-> life])
        BY <1>7, <2>1 DEF Receive
      <4>2. rcvq \in Seq(Requests)
        BY DEF TypeOK
      <4>3. ASSUME NEW r \in Requests, rcvq' = Append(rcvq, r)
            PROVE  /\ rcvq' \in Seq(Requests) /\ Len(rcvq') = Len(rcvq) + 1
                   /\ Len(rcvq) \in Nat
        BY <4>2, <4>3, AppendElements
      <4> QED
        BY <3>1, <4>1, <4>3, Zenon
    <3> QED
      BY <1>7, <2>1, <3>2 DEF TypeOK, Receive
  <2>2. CASE ~(Len(rcvq) < RcvLen)
    BY <1>7, <2>2, DisconnectTypes DEF TypeOK, Receive
  <2> QED
    BY <2>1, <2>2
<1>8. ASSUME NEW w \in Workers, WorkerCheck(w) PROVE TypeOK'
  BY <1>8 DEF TypeOK, WorkerCheck, Goto
<1>9. ASSUME NEW w \in Workers, WorkerLock(w) PROVE TypeOK'
  BY <1>9 DEF TypeOK, WorkerLock, Goto
<1>10. ASSUME NEW w \in Workers, WorkerCopy(w) PROVE TypeOK'
  <2>1. rcvq # <<>> => Head(rcvq) \in Requests
    BY TailElements DEF TypeOK
  <2> QED
    BY <1>10, <2>1 DEF TypeOK, WorkerCopy, Goto
<1>11. ASSUME NEW w \in Workers, WorkerMove(w) PROVE TypeOK'
  <2>1. rcvq # <<>>
    BY <1>11 DEF Hands, WorkerMove
  <2>2. /\ Tail(rcvq) \in Seq(Requests) /\ Len(Tail(rcvq)) = Len(rcvq) - 1
        /\ Len(rcvq) \in Nat
    BY <2>1, TailElements DEF TypeOK
  <2>3. rcvq' \in Seq(Requests) /\ Len(rcvq') <= RcvLen
    <3>1. rcvq' = Tail(rcvq)
      BY <1>11, <2>1 DEF WorkerMove
    <3>2. Len(rcvq) <= RcvLen
      BY DEF TypeOK
    <3>3. Len(Tail(rcvq)) <= RcvLen
      BY <2>2, <3>2
    <3> QED
      BY <2>2, <3>1, <3>3, Zenon
  <2> QED
    BY <1>11, <2>3 DEF TypeOK, WorkerMove, Goto
<1>12. ASSUME NEW w \in Workers, WorkerUnlock(w) PROVE TypeOK'
  BY <1>12 DEF TypeOK, WorkerUnlock, Goto
<1>13. ASSUME NEW w \in Workers, WorkerProcess(w) PROVE TypeOK'
  <2>1. mine[w] \in Requests /\ mine[w].seq \in 1 .. MaxSend
    BY <1>13, MineIsRequest DEF WorkerProcess, Hands
  <2>2. sndq' \in Seq(Blocks) /\ Len(sndq') <= SndLen
    BY <1>13, <2>1, ProcessSends DEF WorkerProcess
  <2>3. handled' \in Seq(1 .. MaxSend)
    BY <1>13, <2>1, AppendElements DEF WorkerProcess, TypeOK
  <2> QED
    BY <1>13, <2>2, <2>3 DEF TypeOK, WorkerProcess, Goto
<1>14. ASSUME NEW w \in Workers, WorkerCrash(w) PROVE TypeOK'
  <2>1. HasPacket(w) => mine[w].seq \in 1 .. MaxSend
    BY MineIsRequest DEF HasPacket
  <2>2. lost' \subseteq 1 .. MaxSend
    BY <1>14, <2>1 DEF TypeOK, WorkerCrash
  <2>3. crashes' \in 0 .. MaxCrash
    BY <1>14 DEF TypeOK, WorkerCrash
  <2>4. /\ wpc' = [wpc EXCEPT ![w] = "dead"]
        /\ mine' = [mine EXCEPT ![w] = NULL]
        /\ UNCHANGED <<connVars, rcvq, sndq, rlock, handled, made, acts>>
    BY <1>14 DEF WorkerCrash, Goto
  <2> QED
    BY <2>2, <2>3, <2>4 DEF TypeOK
<1>15. CASE UNCHANGED vars
  BY <1>15 DEF TypeOK
<1> QED
  BY <1>1, <1>2, <1>3, <1>4, <1>5, <1>6, <1>7, <1>8, <1>9, <1>10, <1>11,
     <1>12, <1>13, <1>14, <1>15 DEF Next, Main, WorkerStep

-----------------------------------------------------------------------------
(* Connections and the lock *)

LEMMA ConnectionsStep ==
  ASSUME TypeOK, Connections, [Next]_vars
  PROVE  Connections'
<1> USE Params DEF Connections
<1>1. CASE Accept
  <2>1. m_id \in Ids /\ m_id \in Nat
    BY <1>1 DEF TypeOK, Accept, Ids
  <2> QED
    BY <1>1, <2>1 DEF TypeOK, Accept, Ids
<1>2. CASE NetPop
  <2>1. conn' = conn \/ \E i \in Ids : conn' = [conn EXCEPT ![i] = NULL]
    BY <1>2, Zenon DEF NetPop, Act, Disconnect
  <2> QED
    BY <1>2, <2>1 DEF TypeOK, NetPop
<1>3. CASE NetCrash
  BY <1>3 DEF TypeOK, NetCrash
<1>4. CASE MainRebootNet
  BY <1>4 DEF TypeOK, MainRebootNet
<1>5. ASSUME NEW i \in Ids, HangUp(i) PROVE Connections'
  BY <1>5 DEF TypeOK, HangUp, Disconnect
<1>6. ASSUME NEW i \in Ids, Receive(i) PROVE Connections'
  BY <1>6 DEF TypeOK, Receive, Disconnect
<1>7. CASE UNCHANGED connVars
  BY <1>7
<1> QED
  BY <1>1, <1>2, <1>3, <1>4, <1>5, <1>6, <1>7
  DEF Next, Main, WorkerStep, MainRebootWorker, WorkerCheck, WorkerLock,
      WorkerCopy, WorkerMove, WorkerUnlock, WorkerProcess, WorkerCrash

\* An append leaves the head of a queue with a packet.
LEMMA ReceiveKeepsHead ==
  ASSUME TypeOK, NEW i \in Ids, Receive(i), rcvq # <<>>
  PROVE  rcvq' # <<>> /\ Head(rcvq') = Head(rcvq)
<1>1. CASE rcvq' = rcvq
  BY <1>1
<1>2. ASSUME NEW r, rcvq' = Append(rcvq, r)
      PROVE  rcvq' # <<>> /\ Head(rcvq') = Head(rcvq)
  <2>1. rcvq \in Seq(Requests)
    BY DEF TypeOK
  <2> QED
    BY <1>2, <2>1
<1> QED
  BY <1>1, <1>2 DEF Receive

LEMMA HandsStep ==
  ASSUME TypeOK, Hands, [Next]_vars
  PROVE  Hands'
<1> USE Params DEF Hands, Holding, Goto
<1>1. CASE UNCHANGED <<rcvq, rlock, wpc, mine>>
  BY <1>1
<1>2. ASSUME NEW i \in Ids, Receive(i) PROVE Hands'
  BY <1>2, ReceiveKeepsHead DEF Receive, TypeOK
<1>3. ASSUME NEW w \in Workers, MainRebootWorker(w) PROVE Hands'
  BY <1>3 DEF TypeOK, MainRebootWorker
<1>4. ASSUME NEW w \in Workers, WorkerCheck(w) PROVE Hands'
  BY <1>4 DEF TypeOK, WorkerCheck
<1>5. ASSUME NEW w \in Workers, WorkerLock(w) PROVE Hands'
  BY <1>5 DEF TypeOK, WorkerLock
<1>6. ASSUME NEW w \in Workers, WorkerCopy(w) PROVE Hands'
  <2>1. rcvq # <<>> => Head(rcvq) # NULL
    BY TailElements DEF TypeOK
  <2> QED
    BY <1>6, <2>1 DEF TypeOK, WorkerCopy
<1>7. ASSUME NEW w \in Workers, WorkerMove(w) PROVE Hands'
  BY <1>7 DEF TypeOK, WorkerMove
<1>8. ASSUME NEW w \in Workers, WorkerUnlock(w) PROVE Hands'
  BY <1>8 DEF TypeOK, WorkerUnlock
<1>9. ASSUME NEW w \in Workers, WorkerProcess(w) PROVE Hands'
  BY <1>9 DEF TypeOK, WorkerProcess
<1>10. ASSUME NEW w \in Workers, WorkerCrash(w) PROVE Hands'
  BY <1>10 DEF TypeOK, WorkerCrash
<1> QED
  BY <1>1, <1>2, <1>3, <1>4, <1>5, <1>6, <1>7, <1>8, <1>9, <1>10
  DEF Next, Main, WorkerStep, Accept, NetPop, NetCrash, MainRebootNet, HangUp

-----------------------------------------------------------------------------
(* Requests and blocks belong to the client under their id *)

\* A connection that goes, and one that comes under a new id, change nothing.
LEMMA OwnedStays ==
  ASSUME NEW r, NEW c, NEW d, NEW m \in Int, NEW n \in Int, NEW l,
         r.id \in Int, OwnedIn(r, c, m, l), m <= n,
         \A i \in Ids : i < m => d[i] \in {NULL, c[i]}
  PROVE  OwnedIn(r, d, n, l)
BY Params DEF OwnedIn, Ids

\* In the next life nothing is of this life.
LEMMA OwnedEnds ==
  ASSUME NEW r, NEW c, NEW m, NEW l \in Int, NEW n, r.life \in Int,
         OwnedIn(r, c, m, l)
  PROVE  OwnedIn(r, c, n, l + 1)
BY DEF OwnedIn

\* What the packets of the queues and of the workers are made of.
LEMMA FieldTypes ==
  ASSUME TypeOK
  PROVE  /\ Len(rcvq) \in Nat /\ Len(sndq) \in Nat
         /\ \A k \in 1 .. Len(rcvq) : rcvq[k] \in Requests
         /\ \A k \in 1 .. Len(sndq) : sndq[k] \in Blocks
         /\ \A r \in Requests \union Blocks : r.id \in Int /\ r.life \in Int
<1>1. Len(rcvq) \in Nat /\ Len(sndq) \in Nat
  BY LenProperties DEF TypeOK
<1>2. \A k \in 1 .. Len(rcvq) : rcvq[k] \in Requests
  BY ElementOfSeq DEF TypeOK
<1>3. \A k \in 1 .. Len(sndq) : sndq[k] \in Blocks
  BY ElementOfSeq DEF TypeOK
<1>4. \A r \in Requests \union Blocks : r.id \in Int /\ r.life \in Int
  BY Params DEF Requests, Blocks, Ids, Negative
<1> QED
  BY <1>1, <1>2, <1>3, <1>4

\* A step after which each packet was one before, in the same life, with no
\* client under an id given before, keeps everything owned.
LEMMA OwnedStep ==
  ASSUME TypeOK, AllOwned, life' = life,
         m_id' \in Int, m_id <= m_id',
         \A i \in Ids : i < m_id => conn'[i] \in {NULL, conn[i]}
  PROVE  /\ \A k \in 1 .. Len(rcvq) : OwnedIn(rcvq[k], conn', m_id', life')
         /\ \A k \in 1 .. Len(sndq) : OwnedIn(sndq[k], conn', m_id', life')
         /\ \A w \in Workers :
              mine[w] # NULL => OwnedIn(mine[w], conn', m_id', life')
<1>0. m_id \in Int
  BY Params DEF TypeOK
<1>1. ASSUME NEW r \in Requests \union Blocks, OwnedIn(r, conn, m_id, life)
      PROVE  OwnedIn(r, conn', m_id', life')
  <2>1. r.id \in Int
    BY FieldTypes
  <2>2. OwnedIn(r, conn', m_id', life)
    BY <1>0, <1>1, <2>1, OwnedStays
  <2> QED
    BY <2>2
<1>2. \A w \in Workers : mine[w] # NULL => mine[w] \in Requests
  BY MineIsRequest
<1> QED
  BY <1>1, <1>2, FieldTypes DEF AllOwned, Owned

LEMMA AllOwnedStep ==
  ASSUME TypeOK, Connections, Hands, AllOwned, [Next]_vars
  PROVE  AllOwned'
<1> USE Params
<1>0. /\ m_id \in Int /\ Len(rcvq) \in Nat /\ Len(sndq) \in Nat
      /\ sndq \in Seq(Blocks) /\ rcvq \in Seq(Requests)
  BY FieldTypes DEF TypeOK
<1>1. CASE Accept
  <2>1. m_id' = m_id + 1 /\ life' = life /\ UNCHANGED <<rcvq, sndq, mine>>
    BY <1>1 DEF Accept
  <2>2. \A i \in Ids : i < m_id => conn'[i] \in {NULL, conn[i]}
    BY <1>0, <1>1 DEF Accept, TypeOK, Ids
  <2> QED
    BY <1>0, <2>1, <2>2, OwnedStep DEF AllOwned, Owned
<1>2. ASSUME NEW i \in Ids, Disconnect(i), UNCHANGED <<m_id, life>>
      PROVE  \A j \in Ids : j < m_id => conn'[j] \in {NULL, conn[j]}
  BY <1>2 DEF Disconnect, TypeOK
<1>3. ASSUME UNCHANGED <<m_id, life>>, UNCHANGED <<rcvq, mine>>,
             sndq # <<>>, sndq' = Tail(sndq),
             \A i \in Ids : i < m_id => conn'[i] \in {NULL, conn[i]}
      PROVE  AllOwned'
  <2>1. /\ Len(sndq') = Len(sndq) - 1
        /\ \A k \in 1 .. Len(sndq) - 1 : sndq'[k] = sndq[k + 1]
    BY <1>0, <1>3, TailElements
  <2>2. \A k \in 1 .. Len(sndq') : OwnedIn(sndq'[k], conn', m_id', life')
    <3>1. \A k \in 1 .. Len(sndq) : OwnedIn(sndq[k], conn', m_id', life')
      BY <1>0, <1>3, OwnedStep
    <3>2. ASSUME NEW k \in 1 .. Len(sndq')
          PROVE  k + 1 \in 1 .. Len(sndq) /\ sndq'[k] = sndq[k + 1]
      BY <1>0, <2>1, <3>2
    <3> QED
      BY <3>1, <3>2
  <2> QED
    BY <1>0, <1>3, <2>2, OwnedStep DEF AllOwned, Owned
<1>4. ASSUME UNCHANGED <<m_id, life>>, UNCHANGED <<rcvq, sndq, mine>>,
             \A i \in Ids : i < m_id => conn'[i] \in {NULL, conn[i]}
      PROVE  AllOwned'
  BY <1>0, <1>4, OwnedStep DEF AllOwned, Owned
<1>5. CASE NetPop
  <2>1. conn' = conn \/ \E i \in Ids : conn' = [conn EXCEPT ![i] = NULL]
    BY <1>5, Zenon DEF NetPop, Act, Disconnect
  <2>2. \A i \in Ids : conn'[i] \in {NULL, conn[i]}
    BY <2>1 DEF TypeOK
  <2> QED
    BY <1>3, <1>5, <2>2 DEF NetPop
<1>6. CASE NetCrash
  <2>1. \A i \in Ids : conn'[i] \in {NULL, conn[i]}
    BY <1>6 DEF NetCrash
  <2>2. sndq' = sndq \/ (sndq # <<>> /\ sndq' = Tail(sndq))
    BY <1>6, Zenon DEF NetCrash
  <2> QED
    BY <1>3, <1>4, <1>6, <2>1, <2>2 DEF NetCrash
<1>7. CASE MainRebootNet
  <2>1. life' = life + 1 /\ UNCHANGED <<conn, rcvq, sndq, mine>>
    BY <1>7 DEF MainRebootNet
  <2>2. life \in Int
    BY DEF TypeOK
  <2>3. ASSUME NEW r \in Requests \union Blocks, OwnedIn(r, conn, m_id, life)
        PROVE  OwnedIn(r, conn', m_id', life')
    <3>1. r.life \in Int
      BY FieldTypes
    <3>2. OwnedIn(r, conn, m_id', life + 1)
      BY <2>2, <2>3, <3>1, OwnedEnds
    <3> QED
      BY <2>1, <3>2
  <2>4. \A w \in Workers : mine[w] # NULL => mine[w] \in Requests
    BY MineIsRequest
  <2> QED
    BY <2>1, <2>3, <2>4, FieldTypes DEF AllOwned, Owned
<1>8. ASSUME NEW i \in Ids, HangUp(i) PROVE AllOwned'
  BY <1>2, <1>4, <1>8 DEF HangUp
<1>9. ASSUME NEW i \in Ids, Receive(i) PROVE AllOwned'
  <2>1. CASE ~(Len(rcvq) < RcvLen)
    BY <1>2, <1>4, <1>9, <2>1 DEF Receive
  <2>2. CASE Len(rcvq) < RcvLen
    <3> DEFINE r == [seq |-> made + 1, id |-> i, client |-> conn[i],
                     life |-> life]
    <3>1. /\ rcvq' = Append(rcvq, r)
          /\ UNCHANGED <<conn, m_id, life, sndq, mine>>
      BY <1>9, <2>2 DEF Receive
    <3>2. r \in Requests
      BY <1>9, <2>2 DEF TypeOK, Receive, Requests
    <3>3. OwnedIn(r, conn, m_id, life)
      BY <1>9 DEF OwnedIn, Connections, Receive, TypeOK
    <3> HIDE DEF r
    <3>4. /\ Len(rcvq') = Len(rcvq) + 1
          /\ \A k \in 1 .. Len(rcvq) : rcvq'[k] = rcvq[k]
          /\ rcvq'[Len(rcvq) + 1] = r
      BY <1>0, <3>1, <3>2, AppendElements
    <3>5. \A k \in 1 .. Len(rcvq') : OwnedIn(rcvq'[k], conn', m_id', life')
      BY <1>0, <3>1, <3>3, <3>4 DEF AllOwned, Owned
    <3> QED
      BY <3>1, <3>5 DEF AllOwned, Owned
  <2> QED
    BY <2>1, <2>2
<1>10. ASSUME NEW w \in Workers, WorkerCopy(w) PROVE AllOwned'
  <2>1. rcvq # <<>> => Head(rcvq) = rcvq[1] /\ 1 \in 1 .. Len(rcvq)
    BY <1>0, TailElements
  <2> QED
    BY <1>10, <2>1 DEF WorkerCopy, AllOwned, Owned, TypeOK
<1>11. ASSUME NEW w \in Workers, WorkerMove(w) PROVE AllOwned'
  <2>1. rcvq # <<>>
    BY <1>11 DEF Hands, WorkerMove
  <2>2. rcvq' = Tail(rcvq) /\ UNCHANGED <<conn, m_id, life, sndq, mine>>
    BY <1>11, <2>1 DEF WorkerMove
  <2>3. /\ Len(rcvq') = Len(rcvq) - 1
        /\ \A k \in 1 .. Len(rcvq) - 1 : rcvq'[k] = rcvq[k + 1]
    BY <1>0, <2>1, <2>2, TailElements
  <2> QED
    BY <1>0, <2>2, <2>3 DEF AllOwned, Owned
<1>12. ASSUME NEW w \in Workers, WorkerProcess(w) PROVE AllOwned'
  <2>1. mine[w] \in Requests /\ mine[w] # NULL
    BY <1>12, MineIsRequest DEF WorkerProcess, Hands
  <2>2. \A k \in 1 .. Len(sndq') :
          \/ k \in 1 .. Len(sndq) /\ sndq'[k] = sndq[k]
          \/ /\ sndq'[k].id \in {mine[w].id, Negative}
             /\ sndq'[k].life = mine[w].life
             /\ sndq'[k].client = mine[w].client
    BY <1>12, <2>1, ProcessSends DEF WorkerProcess
  <2>3. OwnedIn(mine[w], conn, m_id, life)
    BY <2>1 DEF AllOwned, Owned
  <2>4. m_id >= 1 /\ Negative = -1 /\ Negative \notin Ids
    BY DEF TypeOK, Negative, Ids
  <2>5. ASSUME NEW b, b.id \in {mine[w].id, Negative},
               b.life = mine[w].life, b.client = mine[w].client
        PROVE  OwnedIn(b, conn, m_id, life)
    BY <1>0, <2>3, <2>4, <2>5 DEF OwnedIn
  <2>6. UNCHANGED <<conn, m_id, life, rcvq>>
    BY <1>12 DEF WorkerProcess
  <2>7. \A k \in 1 .. Len(sndq') : OwnedIn(sndq'[k], conn', m_id', life')
    BY <2>2, <2>5, <2>6 DEF AllOwned, Owned
  <2>8. \A v \in Workers : mine'[v] \in {NULL, mine[v]}
    BY <1>12 DEF WorkerProcess, TypeOK
  <2> QED
    BY <2>6, <2>7, <2>8 DEF AllOwned, Owned
<1>13. ASSUME NEW w \in Workers, WorkerCrash(w) PROVE AllOwned'
  <2>1. \A v \in Workers : mine'[v] \in {NULL, mine[v]}
    BY <1>13 DEF WorkerCrash, TypeOK
  <2> QED
    BY <1>13, <2>1 DEF WorkerCrash, AllOwned, Owned
<1>14. CASE UNCHANGED <<connVars, rcvq, sndq, mine>>
  BY <1>14 DEF AllOwned, Owned
<1> QED
  BY <1>1, <1>5, <1>6, <1>7, <1>8, <1>9, <1>10, <1>11, <1>12, <1>13, <1>14
  DEF Next, Main, WorkerStep, MainRebootWorker, WorkerCheck, WorkerLock,
      WorkerUnlock

\* A block that is acted on in the life of its request is the own client's.
LEMMA OwnStep ==
  ASSUME TypeOK, AllOwned, OwnInOneLife, [Next]_vars
  PROVE  OwnInOneLife'
<1>1. CASE NetPop
  <2> DEFINE b == Head(sndq)
  <2>1. b = sndq[1] /\ 1 \in 1 .. Len(sndq)
    BY <1>1, TailElements DEF TypeOK, NetPop
  <2>2. OwnedIn(b, conn, m_id, life)
    BY <2>1 DEF AllOwned, Owned
  <2>3. \/ acts' = acts
        \/ /\ b.id \in Ids /\ conn[b.id] # NULL
           /\ acts' = acts \union
                {[type |-> b.type, to |-> conn[b.id], owner |-> b.client,
                  same |-> b.life = life]}
    BY <1>1, Zenon DEF NetPop, Act
  <2> HIDE DEF b
  <2>4. b.id \in Ids /\ conn[b.id] # NULL /\ b.life = life
          => conn[b.id] = b.client
    BY <2>2 DEF OwnedIn
  <2>5. ASSUME NEW a, a = [type |-> b.type, to |-> conn[b.id],
                           owner |-> b.client, same |-> b.life = life]
        PROVE  a.to = conn[b.id] /\ a.owner = b.client
               /\ (a.same <=> b.life = life)
    BY <2>5, Zenon
  <2> QED
    BY <2>3, <2>4, <2>5, Zenon DEF OwnInOneLife
<1>2. CASE UNCHANGED acts
  BY <1>2 DEF OwnInOneLife
<1> QED
  BY <1>1, <1>2
  DEF Next, Main, WorkerStep, MainRebootWorker, WorkerCheck, WorkerLock,
      WorkerCopy, WorkerMove, WorkerUnlock, WorkerProcess, WorkerCrash,
      Accept, NetCrash, MainRebootNet, HangUp, Receive

-----------------------------------------------------------------------------
(* Each packet in one place *)

\* Who has which packet, and the queues and histories, stay as they are.
LEMMA PlacesStay ==
  ASSUME Places, UNCHANGED <<rcvq, handled, lost, made>>,
         \A v \in Workers : HasPacket(v)' <=> HasPacket(v),
         \A v \in Workers : HasPacket(v) => mine'[v] = mine[v]
  PROVE  Places'
<1>1. \A s : InHand(s)' <=> InHand(s)
  BY DEF InHand
<1>2. \A s : (InQueue(s)' <=> InQueue(s)) /\ (Done(s)' <=> Done(s))
  BY DEF InQueue, Done
<1>3. Distinct'
  BY DEF Places, Distinct
<1>4. Apart' /\ Placed'
  BY <1>1, <1>2 DEF Places, Apart, Placed
<1> QED
  BY <1>3, <1>4 DEF Places

\* The packets in the places have numbers.
LEMMA SeqTypes ==
  ASSUME TypeOK
  PROVE  /\ Len(rcvq) \in Nat /\ Len(handled) \in Nat
         /\ \A k \in 1 .. Len(rcvq) : rcvq[k].seq \in 1 .. MaxSend
         /\ \A v \in Workers : HasPacket(v) => mine[v].seq \in 1 .. MaxSend
         /\ \A k \in 1 .. Len(handled) : handled[k] \in 1 .. MaxSend
<1>1. \A k \in 1 .. Len(rcvq) : rcvq[k].seq \in 1 .. MaxSend
  BY FieldTypes DEF Requests
<1>2. \A v \in Workers : HasPacket(v) => mine[v].seq \in 1 .. MaxSend
  BY MineIsRequest DEF HasPacket
<1>3. \A k \in 1 .. Len(handled) : handled[k] \in 1 .. MaxSend
  BY ElementOfSeq DEF TypeOK
<1>4. Len(rcvq) \in Nat /\ Len(handled) \in Nat
  BY LenProperties DEF TypeOK
<1> QED
  BY <1>1, <1>2, <1>3, <1>4

\* A new packet goes behind the others.
LEMMA ReceivePlaces ==
  ASSUME TypeOK, Places, NEW r \in Requests, r.seq = made + 1,
         made < MaxSend, rcvq' = Append(rcvq, r), made' = made + 1,
         UNCHANGED <<wpc, mine, handled, lost>>
  PROVE  Places'
<1>0. made \in Nat /\ made' \in 1 .. MaxSend /\ rcvq \in Seq(Requests)
  BY Params DEF TypeOK
<1>1. /\ Len(rcvq') = Len(rcvq) + 1 /\ Len(rcvq) \in Nat
      /\ \A k \in 1 .. Len(rcvq) : rcvq'[k] = rcvq[k]
      /\ rcvq'[Len(rcvq) + 1] = r
  BY <1>0, AppendElements
<1>2. ~InQueue(made') /\ ~InHand(made') /\ ~Done(made') /\ made' \notin lost
  BY <1>0 DEF Places, Placed
<1>3. \A s : InQueue(s)' <=> InQueue(s) \/ s = made'
  BY <1>0, <1>1 DEF InQueue
<1>4. \A s : (InHand(s)' <=> InHand(s)) /\ (Done(s)' <=> Done(s))
  BY DEF InHand, Done, HasPacket
<1>5. Distinct'
  <2>1. \A k \in 1 .. Len(rcvq) : rcvq'[k].seq # made'
    BY <1>1, <1>2 DEF InQueue
  <2>2. \A j, k \in 1 .. Len(rcvq') : rcvq'[j].seq = rcvq'[k].seq => j = k
    <3> SUFFICES ASSUME NEW j \in 1 .. Len(rcvq'), NEW k \in 1 .. Len(rcvq'),
                        rcvq'[j].seq = rcvq'[k].seq
                 PROVE  j = k
      OBVIOUS
    <3>1. CASE j \in 1 .. Len(rcvq) /\ k \in 1 .. Len(rcvq)
      BY <1>1, <3>1 DEF Places, Distinct
    <3>2. CASE j = Len(rcvq) + 1 \/ k = Len(rcvq) + 1
      BY <1>1, <2>1, <3>2
    <3> QED
      BY <1>1, <3>1, <3>2
  <2> QED
    BY <2>2 DEF Places, Distinct, HasPacket
<1>6. Apart'
  BY <1>2, <1>3, <1>4 DEF Places, Apart
<1>7. Placed'
  BY <1>0, <1>2, <1>3, <1>4 DEF Places, Placed
<1> QED
  BY <1>5, <1>6, <1>7 DEF Places

\* The packet a worker has copied leaves the queue and is the worker's.
LEMMA MovePlaces ==
  ASSUME TypeOK, Hands, Places, NEW w \in Workers, WorkerMove(w)
  PROVE  Places'
<1>0. /\ rcvq # <<>> /\ rcvq \in Seq(Requests) /\ mine[w] = Head(rcvq)
      /\ mine[w] # NULL
  BY DEF TypeOK, Hands, WorkerMove
<1>1. rcvq' = Tail(rcvq) /\ UNCHANGED <<mine, handled, lost, made>>
  BY <1>0 DEF WorkerMove
<1>2. /\ Len(rcvq') = Len(rcvq) - 1 /\ Len(rcvq) \in Nat \ {0}
      /\ \A k \in 1 .. Len(rcvq) - 1 : rcvq'[k] = rcvq[k + 1]
      /\ mine[w] = rcvq[1]
  BY <1>0, <1>1, TailElements
<1>3. /\ ~HasPacket(w) /\ HasPacket(w)'
      /\ \A v \in Workers \ {w} : HasPacket(v)' <=> HasPacket(v)
  BY <1>0, <1>1 DEF HasPacket, WorkerMove, Goto, TypeOK
<1> DEFINE t == mine[w].seq
<1>4. InQueue(t) /\ t \in 1 .. MaxSend
  BY <1>0, <1>2, SeqTypes DEF InQueue
<1>5. ~InHand(t) /\ ~Done(t) /\ t \notin lost
  BY <1>4 DEF Places, Apart
<1>6. ASSUME NEW s PROVE InQueue(s)' <=> InQueue(s) /\ s # t
  <2>1. ASSUME InQueue(s)' PROVE InQueue(s) /\ s # t
    <3>1. PICK k \in 1 .. Len(rcvq') : rcvq'[k].seq = s
      BY <2>1 DEF InQueue
    <3>2. k + 1 \in 1 .. Len(rcvq) /\ rcvq[k + 1].seq = s /\ k + 1 # 1
      BY <1>2, <3>1
    <3>3. 1 \in 1 .. Len(rcvq)
      BY <1>2
    <3> QED
      BY <1>2, <3>2, <3>3 DEF Places, Distinct, InQueue
  <2>2. ASSUME InQueue(s), s # t PROVE InQueue(s)'
    <3>1. PICK k \in 1 .. Len(rcvq) : rcvq[k].seq = s
      BY <2>2 DEF InQueue
    <3>2. k - 1 \in 1 .. Len(rcvq') /\ rcvq'[k - 1] = rcvq[k]
      BY <1>2, <2>2, <3>1
    <3> QED
      BY <3>1, <3>2 DEF InQueue
  <2> QED
    BY <2>1, <2>2
<1>7. \A s : InHand(s)' <=> InHand(s) \/ s = t
  BY <1>1, <1>3 DEF InHand
<1>8. \A s : Done(s)' <=> Done(s)
  BY <1>1 DEF Done
<1>9. Distinct'
  <2>1. \A j, k \in 1 .. Len(rcvq') : rcvq'[j].seq = rcvq'[k].seq => j = k
    <3> SUFFICES ASSUME NEW j \in 1 .. Len(rcvq'), NEW k \in 1 .. Len(rcvq'),
                        rcvq'[j].seq = rcvq'[k].seq
                 PROVE  j = k
      OBVIOUS
    <3>1. /\ j + 1 \in 1 .. Len(rcvq) /\ k + 1 \in 1 .. Len(rcvq)
          /\ rcvq[j + 1].seq = rcvq[k + 1].seq
      BY <1>2
    <3>2. j + 1 = k + 1
      BY <3>1 DEF Places, Distinct
    <3> QED
      BY <1>2, <3>2
  <2>2. \A u, v \in Workers :
          HasPacket(u)' /\ HasPacket(v)' /\ mine'[u].seq = mine'[v].seq
            => u = v
    BY <1>1, <1>3, <1>5 DEF Places, Distinct, InHand
  <2> QED
    BY <1>1, <2>1, <2>2 DEF Places, Distinct
<1> HIDE DEF t
<1>10. Apart'
  BY <1>1, <1>5, <1>6, <1>7, <1>8 DEF Places, Apart
<1>11. Placed'
  BY <1>1, <1>4, <1>6, <1>7, <1>8 DEF Places, Placed
<1> QED
  BY <1>9, <1>10, <1>11 DEF Places

\* A worker gives its packet away, and the others keep theirs.
LEMMA HandEmptied ==
  ASSUME TypeOK, Places, NEW w \in Workers, HasPacket(w), ~HasPacket(w)',
         \A v \in Workers \ {w} : (HasPacket(v)' <=> HasPacket(v))
                                  /\ mine'[v] = mine[v]
  PROVE  /\ \A s : InHand(s)' <=> InHand(s) /\ s # mine[w].seq
         /\ \A u, v \in Workers :
              HasPacket(u)' /\ HasPacket(v)' /\ mine'[u].seq = mine'[v].seq
                => u = v
         /\ InHand(mine[w].seq) /\ mine[w].seq \in 1 .. MaxSend
<1>1. InHand(mine[w].seq) /\ mine[w].seq \in 1 .. MaxSend
  BY SeqTypes DEF InHand
<1>2. \A v \in Workers \ {w} : HasPacket(v) => mine[v].seq # mine[w].seq
  BY DEF Places, Distinct
<1>3. \A s : InHand(s)' <=> InHand(s) /\ s # mine[w].seq
  BY <1>2 DEF InHand
<1> QED
  BY <1>1, <1>3 DEF Places, Distinct

\* A packet that was handled is in the history, once.
LEMMA ProcessPlaces ==
  ASSUME TypeOK, Hands, Places, NEW w \in Workers, WorkerProcess(w)
  PROVE  Places'
<1> DEFINE t == mine[w].seq
<1>0. /\ HasPacket(w) /\ ~HasPacket(w)'
      /\ \A v \in Workers \ {w} : (HasPacket(v)' <=> HasPacket(v))
                                  /\ mine'[v] = mine[v]
  BY DEF HasPacket, Hands, WorkerProcess, Goto, TypeOK
<1>1. /\ \A s : InHand(s)' <=> InHand(s) /\ s # t
      /\ \A u, v \in Workers :
           HasPacket(u)' /\ HasPacket(v)' /\ mine'[u].seq = mine'[v].seq
             => u = v
      /\ InHand(t) /\ t \in 1 .. MaxSend
  BY <1>0, HandEmptied
<1>2. handled' = Append(handled, t) /\ UNCHANGED <<rcvq, lost, made>>
  BY DEF WorkerProcess
<1> HIDE DEF t
<1>3. handled \in Seq(1 .. MaxSend)
  BY DEF TypeOK
<1>4. /\ Len(handled') = Len(handled) + 1 /\ Len(handled) \in Nat
      /\ \A k \in 1 .. Len(handled) : handled'[k] = handled[k]
      /\ handled'[Len(handled) + 1] = t
  BY <1>1, <1>2, <1>3, AppendElements
<1>5. ~InQueue(t) /\ ~Done(t) /\ t \notin lost
  BY <1>1 DEF Places, Apart
<1>6. \A s : Done(s)' <=> Done(s) \/ s = t
  BY <1>4 DEF Done
<1>7. \A s : InQueue(s)' <=> InQueue(s)
  BY <1>2 DEF InQueue
<1>8. Distinct'
  <2>1. \A j, k \in 1 .. Len(handled') : handled'[j] = handled'[k] => j = k
    <3> SUFFICES ASSUME NEW j \in 1 .. Len(handled'),
                        NEW k \in 1 .. Len(handled'),
                        handled'[j] = handled'[k]
                 PROVE  j = k
      OBVIOUS
    <3>1. CASE j \in 1 .. Len(handled) /\ k \in 1 .. Len(handled)
      BY <1>4, <3>1 DEF Places, Distinct
    <3>2. \A i \in 1 .. Len(handled) : handled'[i] # t
      BY <1>4, <1>5 DEF Done
    <3>3. CASE j = Len(handled) + 1 \/ k = Len(handled) + 1
      BY <1>4, <3>2, <3>3
    <3> QED
      BY <1>4, <3>1, <3>3
  <2> QED
    BY <1>1, <1>2, <2>1 DEF Places, Distinct
<1>9. Apart'
  BY <1>1, <1>2, <1>5, <1>6, <1>7 DEF Places, Apart
<1>10. Placed'
  BY <1>1, <1>2, <1>6, <1>7 DEF Places, Placed
<1> QED
  BY <1>8, <1>9, <1>10 DEF Places

\* A packet that died with its worker is lost; one that was copied and is
\* still in the queue is not.
LEMMA CrashPlaces ==
  ASSUME TypeOK, Hands, Places, NEW w \in Workers, WorkerCrash(w)
  PROVE  Places'
<1> DEFINE t == mine[w].seq
<1>0. /\ ~HasPacket(w)'
      /\ \A v \in Workers \ {w} : (HasPacket(v)' <=> HasPacket(v))
                                  /\ mine'[v] = mine[v]
      /\ UNCHANGED <<rcvq, handled, made>>
  BY DEF HasPacket, WorkerCrash, Goto, TypeOK
<1>1. CASE ~HasPacket(w)
  <2>1. lost' = lost
    BY <1>1 DEF WorkerCrash
  <2> QED
    BY <1>0, <1>1, <2>1, PlacesStay
<1>2. CASE HasPacket(w)
  <2>1. lost' = lost \union {t}
    BY <1>2 DEF WorkerCrash
  <2>2. /\ \A s : InHand(s)' <=> InHand(s) /\ s # t
        /\ \A u, v \in Workers :
             HasPacket(u)' /\ HasPacket(v)' /\ mine'[u].seq = mine'[v].seq
               => u = v
        /\ InHand(t) /\ t \in 1 .. MaxSend
    BY <1>0, <1>2, HandEmptied
  <2> HIDE DEF t
  <2>3. \A s : (InQueue(s)' <=> InQueue(s)) /\ (Done(s)' <=> Done(s))
    BY <1>0 DEF InQueue, Done
  <2>4. Distinct'
    BY <1>0, <2>2 DEF Places, Distinct
  <2>5. Apart'
    BY <2>1, <2>2, <2>3 DEF Places, Apart
  <2>6. Placed'
    BY <1>0, <2>1, <2>2, <2>3 DEF Places, Placed
  <2> QED
    BY <2>4, <2>5, <2>6 DEF Places
<1> QED
  BY <1>1, <1>2

LEMMA PlacesStep ==
  ASSUME TypeOK, Hands, Places, [Next]_vars
  PROVE  Places'
<1>1. CASE UNCHANGED <<rcvq, wpc, mine, handled, lost, made>>
  BY <1>1, PlacesStay DEF HasPacket
<1>2. ASSUME NEW i \in Ids, Receive(i) PROVE Places'
  <2>1. CASE ~(Len(rcvq) < RcvLen)
    BY <1>1, <1>2, <2>1 DEF Receive
  <2>2. CASE Len(rcvq) < RcvLen
    <3> DEFINE r == [seq |-> made + 1, id |-> i, client |-> conn[i],
                     life |-> life]
    <3>1. r \in Requests /\ r.seq = made + 1
      BY <1>2, <2>2, Params DEF TypeOK, Receive, Requests
    <3>2. /\ rcvq' = Append(rcvq, r) /\ made < MaxSend /\ made' = made + 1
          /\ UNCHANGED <<wpc, mine, handled, lost>>
      BY <1>2, <2>2 DEF Receive
    <3> HIDE DEF r
    <3> QED
      BY <3>1, <3>2, ReceivePlaces
  <2> QED
    BY <2>1, <2>2
<1>3. ASSUME NEW w \in Workers,
             \/ MainRebootWorker(w) \/ WorkerCheck(w) \/ WorkerLock(w)
             \/ WorkerCopy(w) \/ WorkerUnlock(w)
      PROVE  Places'
  <2>1. \A v \in Workers \ {w} : wpc'[v] = wpc[v] /\ mine'[v] = mine[v]
    BY <1>3
    DEF MainRebootWorker, WorkerCheck, WorkerLock, WorkerCopy, WorkerUnlock,
        Goto, TypeOK
  <2>2. HasPacket(w)' <=> HasPacket(w)
    BY <1>3
    DEF MainRebootWorker, WorkerCheck, WorkerLock, WorkerCopy, WorkerUnlock,
        Goto, TypeOK, HasPacket, Hands
  <2>3. HasPacket(w) => mine'[w] = mine[w]
    BY <1>3
    DEF MainRebootWorker, WorkerCheck, WorkerLock, WorkerCopy, WorkerUnlock,
        HasPacket
  <2>4. UNCHANGED <<rcvq, handled, lost, made>>
    BY <1>3
    DEF MainRebootWorker, WorkerCheck, WorkerLock, WorkerCopy, WorkerUnlock
  <2>5. /\ \A v \in Workers : HasPacket(v)' <=> HasPacket(v)
        /\ \A v \in Workers : HasPacket(v) => mine'[v] = mine[v]
    BY <2>1, <2>2, <2>3 DEF HasPacket
  <2> QED
    BY <2>4, <2>5, PlacesStay
<1> QED
  BY <1>1, <1>2, <1>3, MovePlaces, ProcessPlaces, CrashPlaces
  DEF Next, Main, WorkerStep, Accept, NetPop, NetCrash, MainRebootNet, HangUp

-----------------------------------------------------------------------------
(* The theorems *)

LEMMA InvStep == Inv /\ [Next]_vars => Inv'
<1> SUFFICES ASSUME Inv, [Next]_vars PROVE Inv'
  OBVIOUS
<1> USE DEF Inv
<1>1. TypeOK'
  BY TypeStep
<1>2. Connections'
  BY ConnectionsStep
<1>3. Hands'
  BY HandsStep
<1>4. AllOwned'
  BY AllOwnedStep
<1>5. Places'
  BY PlacesStep
<1>6. OwnInOneLife'
  BY OwnStep
<1> QED
  BY <1>1, <1>2, <1>3, <1>4, <1>5, <1>6

\* A set of which one element is known, and no two, has one.
LEMMA OneElement ==
  ASSUME NEW S, NEW x \in S, \A y \in S : y = x
  PROVE  Cardinality(S) = 1
<1>1. S = {x}
  OBVIOUS
<1> QED
  BY <1>1, FS_Singleton

\* Where a packet is, the counts of InOnePlace find it once.
LEMMA PlacesCount == TypeOK /\ Places => InOnePlace
<1> SUFFICES ASSUME TypeOK, Places, NEW s \in 1 .. made
             PROVE    Cardinality({i \in DOMAIN rcvq : rcvq[i].seq = s})
                    + Cardinality({w \in Workers :
                                     HasPacket(w) /\ mine[w].seq = s})
                    + Cardinality({i \in DOMAIN handled : handled[i] = s})
                    + Cardinality({s} \intersect lost) = 1
  BY DEF InOnePlace
<1> DEFINE Q == {i \in DOMAIN rcvq : rcvq[i].seq = s}
           H == {w \in Workers : HasPacket(w) /\ mine[w].seq = s}
           D == {i \in DOMAIN handled : handled[i] = s}
           L == {s} \intersect lost
<1>1. DOMAIN rcvq = 1 .. Len(rcvq) /\ DOMAIN handled = 1 .. Len(handled)
  BY LenProperties DEF TypeOK
<1>2. s \in 1 .. MaxSend /\ s <= made
  BY Params DEF TypeOK
<1>3. InQueue(s) \/ InHand(s) \/ Done(s) \/ s \in lost
  BY <1>2 DEF Places, Placed
<1>4. /\ (~InQueue(s) => Q = {}) /\ (~InHand(s) => H = {})
      /\ (~Done(s) => D = {}) /\ (s \notin lost => L = {})
  BY <1>1 DEF InQueue, InHand, Done
<1>5. InQueue(s) => Cardinality(Q) = 1
  <2> SUFFICES ASSUME InQueue(s) PROVE Cardinality(Q) = 1
    OBVIOUS
  <2>1. PICK k \in 1 .. Len(rcvq) : rcvq[k].seq = s
    BY DEF InQueue
  <2>2. k \in Q /\ \A j \in Q : j = k
    BY <1>1, <2>1 DEF Places, Distinct
  <2> HIDE DEF Q
  <2> QED
    BY <2>2, OneElement
<1>6. InHand(s) => Cardinality(H) = 1
  <2> SUFFICES ASSUME InHand(s) PROVE Cardinality(H) = 1
    OBVIOUS
  <2>1. PICK w \in Workers : HasPacket(w) /\ mine[w].seq = s
    BY DEF InHand
  <2>2. w \in H /\ \A v \in H : v = w
    BY <2>1 DEF Places, Distinct
  <2> HIDE DEF H
  <2> QED
    BY <2>2, OneElement
<1>7. Done(s) => Cardinality(D) = 1
  <2> SUFFICES ASSUME Done(s) PROVE Cardinality(D) = 1
    OBVIOUS
  <2>1. PICK k \in 1 .. Len(handled) : handled[k] = s
    BY DEF Done
  <2>2. k \in D /\ \A j \in D : j = k
    BY <1>1, <2>1 DEF Places, Distinct
  <2> HIDE DEF D
  <2> QED
    BY <2>2, OneElement
<1>8. s \in lost => Cardinality(L) = 1
  <2> SUFFICES ASSUME s \in lost PROVE Cardinality(L) = 1
    OBVIOUS
  <2>1. s \in L /\ \A j \in L : j = s
    OBVIOUS
  <2> HIDE DEF L
  <2> QED
    BY <2>1, OneElement
<1>9. /\ InQueue(s) => ~InHand(s) /\ ~Done(s) /\ s \notin lost
      /\ InHand(s) => ~Done(s) /\ s \notin lost
      /\ Done(s) => s \notin lost
  BY <1>2 DEF Places, Apart
<1> HIDE DEF Q, H, D, L
<1>10. Cardinality({}) = 0
  BY FS_EmptySet
<1>11. Cardinality(Q) + Cardinality(H) + Cardinality(D) + Cardinality(L) = 1
  BY <1>3, <1>4, <1>5, <1>6, <1>7, <1>8, <1>9, <1>10
<1> QED
  BY <1>11 DEF Q, H, D, L

\* The inductive invariant: types, connections, the lock and the hands, the
\* owners and the places.
THEOREM PlainInvariant == Spec => []Inv
BY InitInv, InvStep, PTL DEF Spec

\* The queues keep to their limits, and each packet that came in is in one
\* place, whoever is killed where and whoever is restarted.
THEOREM AccountedHolds == Spec => []Accounted
<1>1. Inv => Accounted
  BY PlacesCount DEF Inv, Accounted
<1> QED
  BY <1>1, PlainInvariant, PTL

\* What the net process does in one life for a request of that life, it does
\* to the client that sent it: ids are not given twice in a life.
THEOREM OwnInOneLifeHolds == Spec => []OwnInOneLife
<1>1. Inv => OwnInOneLife
  BY DEF Inv
<1> QED
  BY <1>1, PlainInvariant, PTL
=============================================================================
