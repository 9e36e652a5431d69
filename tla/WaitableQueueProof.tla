-------------------------- MODULE WaitableQueueProof --------------------------
(***************************************************************************)
(* The wrappers of the ring queue, for any number of consumers and         *)
(* producers, any queue and any pipe.                                      *)
(***************************************************************************)
EXTENDS WaitableQueue, SequenceTheorems, TLAPS

\* c is not asleep and not about to fall asleep: it knows of the packets
Aware(c) ==
  /\ pc[c] # "select"
  /\ pc[c] = "peeking" => some[c] /\ ~raced[c]

\* For each state of the queue with a packet, somebody sees to it.
Attended ==
  queue # <<>> =>
    \/ pipe > 0
    \/ \E p \in Producers : Writing(p)
    \/ \E c \in Consumers : Aware(c)

\* producers and consumers have their own parts of the program
Roles ==
  /\ \A p \in Producers : pc[p] \in {"idle", "push", "write", "unlock"}
  /\ \A c \in Consumers : pc[c] \in {"idle", "peek", "peeking", "select",
                                     "read", "lock", "copy", "move", "unlock"}

\* a peek that finds a packet without a race finds one that is there
SeenIsThere ==
  \A c \in Consumers :
    pc[c] = "peeking" /\ some[c] /\ ~raced[c] => queue # <<>>

\* between sem_wait and sem_post
Inside(p) == pc[p] \in {"push", "write", "unlock", "copy", "move"}

\* one process at a time, and a producer there has a packet left to push
Exclusive ==
  /\ \A p \in Procs : Inside(p) => mutex
  /\ \A p, q \in Procs : Inside(p) /\ Inside(q) => p = q
  /\ \A p \in Producers : pc[p] = "push" => made < MaxPush

Inv == TypeOK /\ Roles /\ Exclusive /\ SeenIsThere

USE DEF popVars, callVars

-----------------------------------------------------------------------------
\* A push with room keeps the types of queue and counter.
LEMMA PushTypes ==
  ASSUME NEW p, TypeOK, Push(p), Len(queue) < QueueLen, made < MaxPush
  PROVE  /\ made' \in 0 .. MaxPush
         /\ queue' \in Seq(Packets) /\ Len(queue') <= QueueLen
         /\ queue' # <<>>
<1>1. queue \in Seq(Packets) /\ made \in 0 .. MaxPush
  BY DEF TypeOK
<1>2. MaxPush \in Nat /\ QueueLen \in Nat
  BY WaitableAssumption
<1>3. made' = made + 1 /\ queue' = Append(queue, made + 1)
  BY DEF Push
<1>4. made + 1 \in Packets /\ made' \in 0 .. MaxPush
  BY <1>1, <1>2, <1>3 DEF Packets
<1> QED
  BY <1>1, <1>2, <1>3, <1>4

\* After a write there is a byte in the pipe, and not too many.
LEMMA WriteTypes ==
  ASSUME NEW p, TypeOK, Write(p)
  PROVE  pipe' \in 0 .. PipeLen /\ pipe' > 0
<1>1. pipe \in 0 .. PipeLen
  BY DEF TypeOK
<1>2. PipeLen \in Nat \ {0}
  BY WaitableAssumption
<1>3. pipe' = IF pipe < PipeLen THEN pipe + 1 ELSE pipe
  BY DEF Write
<1> QED
  BY <1>1, <1>2, <1>3

\* A read takes no more bytes than there are.
LEMMA ReadTypes == ASSUME NEW c, TypeOK, Read(c) PROVE pipe' \in 0 .. PipeLen
<1>1. pipe \in 0 .. PipeLen
  BY DEF TypeOK
<1>2. PipeLen \in Nat /\ ReadLen \in Nat \ {0}
  BY WaitableAssumption
<1>3. pipe' = IF pipe <= ReadLen THEN 0 ELSE pipe - ReadLen
  BY DEF Read
<1> QED
  BY <1>1, <1>2, <1>3

\* The head of a queue with a packet is a packet.
LEMMA HeadIsPacket ==
  ASSUME TypeOK, queue # <<>> PROVE Head(queue) \in Packets
<1>1. queue \in Seq(Packets)
  BY DEF TypeOK
<1> QED
  BY <1>1

\* Interrupted calls are counted up to their bound.
LEMMA SignalTypes ==
  ASSUME NEW c, TypeOK, LockFails(c)
  PROVE  signals' \in 0 .. MaxSignal
<1>1. signals \in 0 .. MaxSignal
  BY DEF TypeOK
<1>2. MaxSignal \in Nat
  BY WaitableAssumption
<1>3. signals' = signals + 1 /\ signals < MaxSignal
  BY DEF LockFails
<1> QED
  BY <1>1, <1>2, <1>3

\* A removal from a queue with a packet keeps its type and that of the history.
LEMMA MoveTypes ==
  ASSUME NEW c \in Consumers, TypeOK, Move(c), queue # <<>>
  PROVE  /\ queue' \in Seq(Packets) /\ Len(queue') <= QueueLen
         /\ popped' \in Seq(Packets \union {NULL})
         /\ raced' \in [Consumers -> BOOLEAN]
<1>1. queue \in Seq(Packets) /\ Len(queue) <= QueueLen
  BY DEF TypeOK
<1>2. popped \in Seq(Packets \union {NULL}) /\ buf[c] \in Packets \union {NULL}
  BY DEF TypeOK
<1>3. /\ queue' = Tail(queue)
      /\ popped' = Append(popped, buf[c])
      /\ raced' = [d \in Consumers |->
                    pc[d] = "peeking"]
  BY DEF Move
<1>4. QueueLen \in Nat
  BY WaitableAssumption
<1>5. queue' \in Seq(Packets) /\ Len(queue') <= QueueLen
  <2>1. Tail(queue) \in Seq(Packets) /\ Len(Tail(queue)) = Len(queue) - 1
    BY <1>1, HeadTailProperties
  <2>2. Len(queue) \in Nat
    BY <1>1, LenProperties
  <2>3. Len(Tail(queue)) <= QueueLen
    BY <1>1, <1>4, <2>1, <2>2
  <2> QED
    BY <1>3, <2>1, <2>3, Zenon
<1>6. popped' \in Seq(Packets \union {NULL})
  <2>1. Append(popped, buf[c]) \in Seq(Packets \union {NULL})
    BY <1>2, AppendProperties
  <2> QED
    BY <1>3, <2>1, Zenon
<1>7. \A d \in Consumers : (pc[d] = "peeking") \in BOOLEAN
  OBVIOUS
<1>8. raced' \in [Consumers -> BOOLEAN]
  BY <1>3, <1>7, Zenon
<1> QED
  BY <1>5, <1>6, <1>8

-----------------------------------------------------------------------------
\* Init establishes the invariant.
LEMMA InitInv == Init => Inv
<1> SUFFICES ASSUME Init PROVE Inv
  OBVIOUS
<1> USE WaitableAssumption DEF Init
<1>1. queue \in Seq(Packets) /\ Len(queue) <= QueueLen
  OBVIOUS
<1>2. made \in 0 .. MaxPush /\ pipe \in 0 .. PipeLen /\ signals \in 0 .. MaxSignal
  OBVIOUS
<1>3. Roles /\ Exclusive
  BY DEF Roles, Exclusive, Inside, Procs
<1>4. popped \in Seq(Packets \union {NULL})
  OBVIOUS
<1>5. SeenIsThere
  BY DEF SeenIsThere, Procs
<1> QED
  BY <1>1, <1>2, <1>3, <1>4, <1>5 DEF TypeOK, Inv

\* Every step of a producer keeps the invariant.
LEMMA ProducerInv ==
  ASSUME Inv, NEW p \in Producers, PushCall(p) \/ ProducerStep(p)
  PROVE  Inv'
<1>a. TypeOK
  BY DEF Inv
<1> USE WaitableAssumption DEF Inv, TypeOK, Roles, SeenIsThere, Procs, Moves, Goto
<1>1. CASE PushCall(p)
  <2>1. TypeOK' /\ Roles' /\ SeenIsThere'
    BY <1>1 DEF PushCall, Lock
  <2>2. Exclusive'
    BY <1>1 DEF PushCall, Lock, Exclusive, Inside
  <2> QED
    BY <2>1, <2>2
<1>2. CASE Push(p)
  <2>1. CASE Len(queue) < QueueLen
    <3>1. made < MaxPush
      BY <1>2 DEF Push, Exclusive
    <3>4. /\ made' \in 0 .. MaxPush
          /\ queue' \in Seq(Packets) /\ Len(queue') <= QueueLen
          /\ queue' # <<>>
      BY <1>a, <1>2, <2>1, <3>1, PushTypes
    <3>5. TypeOK'
      BY <1>2, <2>1, <3>4 DEF Push
    <3>6. Roles' /\ SeenIsThere'
      BY <1>2, <2>1, <3>4 DEF Push
    <3>7. Exclusive'
      BY <1>2, <2>1 DEF Push, Exclusive, Inside
    <3> QED
      BY <3>5, <3>6, <3>7
  <2>2. CASE ~(Len(queue) < QueueLen)
    <3>1. TypeOK' /\ Roles' /\ SeenIsThere'
      BY <1>2, <2>2 DEF Push
    <3>2. Exclusive'
      BY <1>2, <2>2 DEF Push, Exclusive, Inside
    <3> QED
      BY <3>1, <3>2
  <2> QED
    BY <2>1, <2>2
<1>3. CASE Unlock(p)
  <2>1. TypeOK' /\ Roles' /\ SeenIsThere'
    BY <1>3 DEF Unlock
  <2>2. Exclusive'
    BY <1>3 DEF Unlock, Exclusive, Inside
  <2> QED
    BY <2>1, <2>2
<1>4. CASE Write(p)
  <2>1. pipe' \in 0 .. PipeLen
    BY <1>a, <1>4, WriteTypes
  <2>2. TypeOK' /\ Roles' /\ SeenIsThere'
    BY <1>4, <2>1 DEF Write
  <2>3. Exclusive'
    BY <1>4 DEF Write, Exclusive, Inside
  <2> QED
    BY <2>2, <2>3
<1> QED
  BY <1>1, <1>2, <1>3, <1>4 DEF ProducerStep

\* Every step of a consumer keeps the invariant.
LEMMA ConsumerInv ==
  ASSUME Inv, NEW c \in Consumers,
         \/ \E w \in BOOLEAN : PopCall(c, w)
         \/ ConsumerStep(c) \/ SelectReturns(c) \/ LockFails(c)
  PROVE  Inv'
<1>a. TypeOK
  BY DEF Inv
<1> USE WaitableAssumption DEF Inv, TypeOK, Roles, SeenIsThere, Procs, Moves, Goto
<1>1. ASSUME NEW w \in BOOLEAN, PopCall(c, w) PROVE Inv'
  <2>1. TypeOK' /\ Roles' /\ SeenIsThere'
    BY <1>1 DEF PopCall
  <2>2. Exclusive'
    BY <1>1 DEF PopCall, Exclusive, Inside
  <2> QED
    BY <2>1, <2>2
<1>2. CASE PeekBegin(c)
  <2>1. TypeOK' /\ Roles' /\ SeenIsThere'
    BY <1>2 DEF PeekBegin
  <2>2. Exclusive'
    BY <1>2 DEF PeekBegin, Exclusive, Inside
  <2> QED
    BY <2>1, <2>2
<1>3. CASE PeekSome(c)
  BY <1>3 DEF PeekSome, Exclusive, Inside
<1>4. CASE PeekNone(c)
  BY <1>4 DEF PeekNone, Exclusive, Inside
<1>6. CASE Select(c) \/ SelectReturns(c)
  <2>1. TypeOK' /\ Roles' /\ SeenIsThere'
    BY <1>6 DEF Select, SelectReturns
  <2>2. Exclusive'
    BY <1>6 DEF Select, SelectReturns, Exclusive, Inside
  <2> QED
    BY <2>1, <2>2
<1>7. CASE Read(c)
  <2>1. pipe' \in 0 .. PipeLen
    BY <1>a, <1>7, ReadTypes
  <2> QED
    BY <1>7, <2>1 DEF Read, Exclusive, Inside
<1>8. CASE PopLock(c)
  BY <1>8 DEF PopLock, Lock, Exclusive, Inside
<1>9. CASE LockFails(c)
  <2>1. signals' \in 0 .. MaxSignal
    BY <1>a, <1>9, SignalTypes
  <2>2. TypeOK' /\ Roles' /\ SeenIsThere'
    BY <1>9, <2>1 DEF LockFails
  <2>3. Exclusive'
    BY <1>9 DEF LockFails, Exclusive, Inside
  <2> QED
    BY <2>2, <2>3
<1>10. CASE Copy(c)
  <2>1. buf' \in [Consumers -> Packets \union {NULL}]
    <3>1. queue # <<>> => Head(queue) \in Packets
      BY <1>a, HeadIsPacket
    <3> QED
      BY <1>10, <3>1 DEF Copy
  <2>2. TypeOK' /\ Roles' /\ SeenIsThere'
    BY <1>10, <2>1 DEF Copy
  <2>3. Exclusive'
    BY <1>10 DEF Copy, Exclusive, Inside
  <2> QED
    BY <2>2, <2>3
<1>11. CASE Move(c)
  <2>1. CASE queue = <<>>
    BY <1>11, <2>1 DEF Move, Exclusive, Inside
  <2>2. CASE queue # <<>>
    <3>1. /\ queue' \in Seq(Packets) /\ Len(queue') <= QueueLen
          /\ popped' \in Seq(Packets \union {NULL})
          /\ raced' \in [Consumers -> BOOLEAN]
      BY <1>a, <1>11, <2>2, MoveTypes
    <3>4. TypeOK' /\ Roles'
      BY <1>11, <2>2, <3>1 DEF Move
    <3>5. SeenIsThere'
      BY <1>11, <2>2 DEF Move
    <3>6. Exclusive'
      BY <1>11, <2>2 DEF Move, Exclusive, Inside
    <3> QED
      BY <3>4, <3>5, <3>6
  <2> QED
    BY <2>1, <2>2
<1>12. CASE Unlock(c)
  BY <1>12 DEF Unlock, Exclusive, Inside
<1> QED
  BY <1>1, <1>2, <1>3, <1>4, <1>6, <1>7, <1>8, <1>9, <1>10, <1>11, <1>12
     DEF ConsumerStep

\* Every step keeps the invariant.
LEMMA NextInv == ASSUME Inv, [Next]_vars PROVE Inv'
<1>1. CASE UNCHANGED vars
  BY <1>1 DEF vars, Inv, TypeOK, Roles, SeenIsThere, Exclusive, Inside
<1> QED
  BY <1>1, ProducerInv, ConsumerInv DEF Next

\* The state of queue, pipe and callers keeps its types, with the queue never
\* over its limit, whatever the calls do at the same time.
THEOREM TypeCorrect == Spec => []TypeOK
<1>1. Spec => []Inv
  BY InitInv, NextInv, PTL DEF Spec
<1>2. Inv => TypeOK
  BY DEF Inv
<1> QED
  BY <1>1, <1>2, PTL

-----------------------------------------------------------------------------
\* Every step leaves somebody to see to a packet in the queue.
LEMMA AttendedStep == ASSUME Inv, Attended, [Next]_vars PROVE Attended'
<1>a. TypeOK
  BY DEF Inv
<1> USE WaitableAssumption DEF Inv, TypeOK, Roles, Attended, Aware, Writing,
        Procs, Moves, Goto
<1>1. CASE UNCHANGED vars
  BY <1>1 DEF vars
<1>2. ASSUME NEW p \in Producers, PushCall(p) PROVE Attended'
  BY <1>2 DEF PushCall, Lock
<1>3. ASSUME NEW p \in Producers, Push(p) PROVE Attended'
  <2>1. CASE Len(queue) < QueueLen
    BY <1>3, <2>1 DEF Push
  <2>2. CASE ~(Len(queue) < QueueLen)
    BY <1>3, <2>2 DEF Push
  <2> QED
    BY <2>1, <2>2
<1>4. ASSUME NEW p \in Producers,
             Unlock(p)
      PROVE  Attended'
  BY <1>4 DEF Unlock
<1>5. ASSUME NEW p \in Producers,
             Write(p)
      PROVE  Attended'
  <2>1. pipe' > 0
    BY <1>a, <1>5, WriteTypes
  <2> QED
    BY <2>1
<1>6. ASSUME NEW c \in Consumers, NEW w \in BOOLEAN, PopCall(c, w)
      PROVE  Attended'
  BY <1>6 DEF PopCall
<1>7. ASSUME NEW c \in Consumers, PeekBegin(c)
      PROVE  Attended'
  BY <1>7 DEF PeekBegin
<1>9. ASSUME NEW c \in Consumers, PeekSome(c) PROVE Attended'
  BY <1>9 DEF PeekSome
<1>10. ASSUME NEW c \in Consumers, PeekNone(c) PROVE Attended'
  BY <1>10 DEF PeekNone, Found
<1>12. ASSUME NEW c \in Consumers, Select(c) \/ SelectReturns(c)
       PROVE  Attended'
  BY <1>12 DEF Select, SelectReturns
<1>13. ASSUME NEW c \in Consumers, Read(c) PROVE Attended'
  <2>1. Aware(c)'
    BY <1>13 DEF Read
  <2> QED
    BY <2>1
<1>14. ASSUME NEW c \in Consumers, PopLock(c) \/ LockFails(c)
       PROVE  Attended'
  BY <1>14 DEF PopLock, Lock, LockFails
<1>15. ASSUME NEW c \in Consumers, Copy(c) PROVE Attended'
  BY <1>15 DEF Copy
<1>16. ASSUME NEW c \in Consumers, Move(c) PROVE Attended'
  <2>1. Aware(c)'
    BY <1>16 DEF Move
  <2> QED
    BY <2>1
<1>17. ASSUME NEW c \in Consumers, Unlock(c) PROVE Attended'
  BY <1>17 DEF Unlock
<1> QED
  BY <1>1, <1>2, <1>3, <1>4, <1>5, <1>6, <1>7, <1>9, <1>10,
     <1>12, <1>13, <1>14, <1>15, <1>16, <1>17
     DEF Next, ProducerStep, ConsumerStep

\* No number of consumers sleeps over a packet with no byte in the pipe and
\* none on its way: c_waitable_queue loses no wake-up as long as one of those
\* who have read bytes comes back for another pop.
THEOREM NotAllAsleepHolds == Spec => []NotAllAsleep
<1>1. Spec => []Inv
  BY InitInv, NextInv, PTL DEF Spec
<1>2. Init => Attended
  BY DEF Init, Attended
<1>3. Attended => NotAllAsleep
  BY DEF Attended, NotAllAsleep, Aware
<1> QED
  BY <1>1, <1>2, <1>3, AttendedStep, PTL DEF Spec

-----------------------------------------------------------------------------
\* who is about to remove a packet has a copy of the one at the head
HeadInHand ==
  \A c \in Consumers :
    pc[c] = "move" => queue # <<>> /\ buf[c] = Head(queue)

\* The head may go from the second of two sequences to the end of the first.
LEMMA HeadMoves ==
  ASSUME NEW S, NEW s \in Seq(S), NEW t \in Seq(S), t # <<>>
  PROVE  Append(s, Head(t)) \o Tail(t) = s \o t
<1>1. t = <<Head(t)>> \o Tail(t) /\ Head(t) \in S /\ Tail(t) \in Seq(S)
  BY HeadTailProperties
<1>2. Append(s, Head(t)) = s \o <<Head(t)>>
  BY <1>1, AppendIsConcat
<1>3. <<Head(t)>> \in Seq(S)
  BY <1>1
<1>4. (s \o <<Head(t)>>) \o Tail(t) = s \o (<<Head(t)>> \o Tail(t))
  BY <1>1, <1>3, ConcatAssociative
<1> QED
  BY <1>1, <1>2, <1>4

\* An element may be put at the end before or after two sequences are joined.
LEMMA AppendAfter ==
  ASSUME NEW S, NEW s \in Seq(S), NEW t \in Seq(S), NEW e \in S
  PROVE  s \o Append(t, e) = Append(s \o t, e)
<1>1. Append(t, e) = t \o <<e>> /\ <<e>> \in Seq(S)
  BY AppendIsConcat
<1>2. (s \o t) \o <<e>> = s \o (t \o <<e>>)
  BY <1>1, ConcatAssociative
<1>3. Append(s \o t, e) = (s \o t) \o <<e>>
  BY AppendIsConcat, ConcatProperties
<1> QED
  BY <1>1, <1>2, <1>3

\* The number that follows may be put at the end.
LEMMA NumberFollows ==
  ASSUME NEW S, NEW n \in Nat, [i \in 1 .. n |-> i] \in Seq(S), n + 1 \in S
  PROVE  Append([i \in 1 .. n |-> i], n + 1) = [i \in 1 .. n + 1 |-> i]
  OBVIOUS

\* A step keeps the packet in hand the one at the head: copy and removal are
\* under one semaphore.
LEMMA HeadInHandStep ==
  ASSUME Inv, HeadInHand, [Next]_vars
  PROVE  HeadInHand'
<1>a. TypeOK
  BY DEF Inv
<1> USE WaitableAssumption DEF Inv, TypeOK, Roles, HeadInHand, Procs, Moves,
        Goto, Exclusive, Inside
<1>1. CASE UNCHANGED vars
  BY <1>1 DEF vars
<1>2. ASSUME NEW p \in Producers, Push(p) PROVE HeadInHand'
  <2>1. \A c \in Consumers : pc'[c] # "move"
    BY <1>2 DEF Push
  <2> QED
    BY <2>1
<1>3. ASSUME NEW p \in Producers,
             \/ PushCall(p)
             \/ Unlock(p) \/ Write(p)
      PROVE  HeadInHand'
  BY <1>3 DEF PushCall, Lock, Unlock, Write
<1>4. ASSUME NEW c \in Consumers,
             \/ \E w \in BOOLEAN : PopCall(c, w)
             \/ PeekBegin(c) \/ PeekSome(c) \/ PeekNone(c)
      PROVE  HeadInHand'
  BY <1>4 DEF PopCall, PeekBegin, PeekSome, PeekNone
<1>5. ASSUME NEW c \in Consumers,
             \/ Select(c) \/ SelectReturns(c) \/ Read(c) \/ PopLock(c)
             \/ LockFails(c) \/ Unlock(c)
      PROVE  HeadInHand'
  BY <1>5 DEF Select, SelectReturns, Read, PopLock, Lock, LockFails, Unlock
<1>6. ASSUME NEW c \in Consumers, Copy(c) PROVE HeadInHand'
  BY <1>6 DEF Copy
<1>7. ASSUME NEW c \in Consumers, Move(c) PROVE HeadInHand'
  <2>1. \A d \in Consumers : pc'[d] # "move"
    BY <1>7 DEF Move
  <2> QED
    BY <2>1
<1> QED
  BY <1>1, <1>2, <1>3, <1>4, <1>5, <1>6, <1>7
     DEF Next, ProducerStep, ConsumerStep

\* A step pops or pushes one packet, in order, or none.
LEMMA EachOnceStep ==
  ASSUME Inv, HeadInHand, EachOnce, [Next]_vars
  PROVE  EachOnce'
<1> DEFINE S == Packets \union {NULL}
<1>1. /\ queue \in Seq(S) /\ queue \in Seq(Packets) /\ popped \in Seq(S)
      /\ made \in 0 .. MaxPush
  BY SeqMonotonic DEF Inv, TypeOK
<1>2. MaxPush \in Nat
  BY WaitableAssumption
<1>3. CASE UNCHANGED <<queue, made, popped>>
  BY <1>3 DEF EachOnce
<1>4. ASSUME NEW p \in Producers, Push(p) PROVE EachOnce'
  <2>1. made < MaxPush
    BY <1>4 DEF Push, Inv, Exclusive
  <2>2. made \in Nat /\ made + 1 \in S
    BY <1>1, <1>2, <2>1 DEF Packets
  <2>3. popped \o Append(queue, made + 1) = [i \in 1 .. made + 1 |-> i]
    <3> HIDE DEF S
    <3>1. popped \o Append(queue, made + 1) = Append(popped \o queue, made + 1)
      BY <1>1, <2>2, AppendAfter
    <3>2. popped \o queue \in Seq(S)
      BY <1>1, ConcatProperties
    <3>3. popped \o queue = [i \in 1 .. made |-> i]
      BY DEF EachOnce
    <3>4. [i \in 1 .. made |-> i] \in Seq(S)
      BY <3>2, <3>3, Zenon
    <3>5. Append([i \in 1 .. made |-> i], made + 1) = [i \in 1 .. made + 1 |-> i]
      BY <2>2, <3>4, NumberFollows
    <3> QED
      BY <3>1, <3>3, <3>5, Zenon
  <2>4. /\ popped' = popped
        /\ \/ queue' = Append(queue, made + 1) /\ made' = made + 1
           \/ UNCHANGED <<queue, made>>
    BY <1>4 DEF Push
  <2> QED
    BY <2>3, <2>4 DEF EachOnce
<1>5. ASSUME NEW c \in Consumers, Move(c) PROVE EachOnce'
  <2>1. queue # <<>> /\ buf[c] = Head(queue)
    BY <1>5 DEF Move, Moves, HeadInHand
  <2>2. /\ queue' = Tail(queue) /\ popped' = Append(popped, Head(queue))
        /\ made' = made
    BY <1>5, <2>1 DEF Move
  <2>3. Append(popped, Head(queue)) \o Tail(queue) = popped \o queue
    BY <1>1, <2>1, HeadMoves
  <2> QED
    BY <2>2, <2>3 DEF EachOnce
<1>6. ASSUME NEW p \in Producers,
             \/ PushCall(p)
             \/ Unlock(p) \/ Write(p)
      PROVE  UNCHANGED <<queue, made, popped>>
  BY <1>6 DEF PushCall, Lock, Unlock, Write
<1>7. ASSUME NEW c \in Consumers,
             \/ \E w \in BOOLEAN : PopCall(c, w)
             \/ PeekBegin(c) \/ PeekSome(c) \/ PeekNone(c)
             \/ Select(c) \/ SelectReturns(c) \/ Read(c) \/ PopLock(c)
             \/ LockFails(c) \/ Unlock(c) \/ Copy(c)
      PROVE  UNCHANGED <<queue, made, popped>>
  BY <1>7 DEF PopCall, PeekBegin, PeekSome, PeekNone, Select,
     SelectReturns, Read, PopLock, Lock, LockFails, Unlock, Copy
<1>8. CASE UNCHANGED vars
  BY <1>3, <1>8 DEF vars
<1> QED
  BY <1>3, <1>4, <1>5, <1>6, <1>7, <1>8 DEF Next, ProducerStep, ConsumerStep

\* With c_multipopable_queue around c_waitable_queue every packet is popped
\* once and in the order of the pushes, for any number of consumers and
\* producers, although the peek before the semaphore may find anything.
THEOREM EachOnceHolds == Spec => []EachOnce
<1>1. Spec => []Inv
  BY InitInv, NextInv, PTL DEF Spec
<1>2. Init => HeadInHand /\ EachOnce
  <2>1. ASSUME Init PROVE HeadInHand
    BY <2>1 DEF Init, HeadInHand, Procs
  <2>2. ASSUME Init PROVE EachOnce
    BY <2>2 DEF Init, EachOnce
  <2> QED
    BY <2>1, <2>2
<1>3. Inv /\ HeadInHand /\ EachOnce /\ [Next]_vars => HeadInHand' /\ EachOnce'
  BY HeadInHandStep, EachOnceStep
<1> QED
  BY <1>1, <1>2, <1>3, PTL DEF Spec
=============================================================================
