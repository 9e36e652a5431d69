---------------------------- MODULE WaitableQueue ----------------------------
(***************************************************************************)
(* The two wrappers of the ring queue library around a queue of packets:   *)
(* c_waitable_queue, which lets a consumer sleep in select() on a pipe     *)
(* that every push writes a byte to, and c_multipopable_queue, which lets  *)
(* several processes pop under a semaphore.  The multi-pop queue is the    *)
(* outer one.                                                              *)
(*                                                                         *)
(* pop_data_dummy of the queue inside is called without the semaphore.  It *)
(* reads the index of the producers first and that of the consumers later; *)
(* a pop in between makes nonsense of what it finds.  Packets have one     *)
(* length, and the buffer of a consumer holds them.                        *)
(***************************************************************************)
EXTENDS Integers, Sequences

CONSTANTS
  Consumers, Producers,
  MaxPush,      \* bound: packets pushed
  MaxSignal,    \* bound: signals that interrupt sem_wait
  QueueLen,     \* packets the queue holds
  PipeLen,      \* bytes the pipe holds
  ReadLen       \* bytes one read() takes, the size of temp_buffer

ASSUME WaitableAssumption ==
  /\ Consumers \intersect Producers = {}
  /\ MaxPush \in Nat /\ MaxSignal \in Nat /\ QueueLen \in Nat
  /\ PipeLen \in Nat \ {0} /\ ReadLen \in Nat \ {0}

NULL == 0
Procs == Consumers \union Producers
Packets == 1 .. MaxPush

VARIABLES
  queue,        \* the packets, which are numbered as they are pushed
  made,         \* how many packets there have been
  pipe,         \* bytes in it
  mutex,        \* m_p_mutex: somebody has it
  pc,
  wait,         \* does this pop have a timeout other than 0
  some,         \* has the peek under way seen data
  raced,        \* has a pop come between
  buf,          \* p_recv_buffer of each consumer
  popped,       \* history: the packets pops have returned
  signals

callVars == <<wait, some, raced, buf, popped>>
popVars == <<callVars, signals>>
vars == <<queue, made, pipe, mutex, pc, popVars>>

Init ==
  /\ queue = <<>>
  /\ made = 0
  /\ pipe = 0
  /\ mutex = FALSE
  /\ pc = [p \in Procs |-> "idle"]
  /\ wait = [c \in Consumers |-> FALSE]
  /\ some = [c \in Consumers |-> FALSE]
  /\ raced = [c \in Consumers |-> FALSE]
  /\ buf = [c \in Consumers |-> NULL]
  /\ popped = <<>>
  /\ signals = 0

Goto(p, l) == pc' = [pc EXCEPT ![p] = l]
Moves(p, from, to) == pc[p] = from /\ Goto(p, to)

-----------------------------------------------------------------------------
(* The semaphore, for consumers and producers *)

\* variant: sem_wait is not called
LockNot(p, from, to) ==
  /\ Moves(p, from, to)
  /\ UNCHANGED <<queue, made, pipe, mutex, popVars>>

Lock(p, from, to) ==
  /\ ~mutex
  /\ mutex' = TRUE
  /\ Moves(p, from, to)
  /\ UNCHANGED <<queue, made, pipe, popVars>>

\* a signal comes while sem_wait waits: the call returns -1
LockFails(c) ==
  /\ mutex
  /\ signals < MaxSignal
  /\ signals' = signals + 1
  /\ Moves(c, "lock", "idle")
  /\ UNCHANGED <<queue, made, pipe, mutex, callVars>>

Unlock(p) ==
  /\ mutex' = FALSE
  /\ Moves(p, "unlock", "idle")
  /\ UNCHANGED <<queue, made, pipe, popVars>>

-----------------------------------------------------------------------------
(* push_data *)

PushCall(p) == made < MaxPush /\ Lock(p, "idle", "push")

\* variant: no byte is written
PushNoWrite(p) ==
  /\ pc[p] = "push"
  /\ IF Len(queue) < QueueLen
     THEN queue' = Append(queue, made + 1) /\ made' = made + 1
     ELSE UNCHANGED <<queue, made>>
  /\ Goto(p, "unlock")
  /\ UNCHANGED <<pipe, mutex, popVars>>

\* the push inside; without room nothing is written to the pipe either
Push(p) ==
  /\ pc[p] = "push"
  /\ IF Len(queue) < QueueLen
     THEN /\ queue' = Append(queue, made + 1)
          /\ made' = made + 1
          /\ Goto(p, "write")
     ELSE Goto(p, "unlock") /\ UNCHANGED <<queue, made>>
  /\ UNCHANGED <<pipe, mutex, popVars>>

\* a byte that a full pipe refuses is not missed
Write(p) ==
  /\ Moves(p, "write", "unlock")
  /\ pipe' = IF pipe < PipeLen THEN pipe + 1 ELSE pipe
  /\ UNCHANGED <<queue, made, mutex, popVars>>

ProducerStep(p) == Push(p) \/ Write(p) \/ Unlock(p)

Writing(p) == pc[p] = "write"

-----------------------------------------------------------------------------
(* pop_data *)

PopCall(c, w) ==
  /\ Moves(c, "idle", "peek")
  /\ wait' = [wait EXCEPT ![c] = w]
  /\ UNCHANGED <<queue, made, pipe, mutex, some, raced, buf, popped,
                 signals>>

PeekBegin(c) ==
  /\ Moves(c, "peek", "peeking")
  /\ some' = [some EXCEPT ![c] = queue # <<>>]
  /\ raced' = [raced EXCEPT ![c] = FALSE]
  /\ UNCHANGED <<queue, made, pipe, mutex, wait, buf, popped, signals>>

\* what the peek finds
Found(c) == IF raced[c] THEN BOOLEAN ELSE {some[c]}

PeekSome(c) ==
  /\ pc[c] = "peeking" /\ TRUE \in Found(c)
  /\ Goto(c, "lock")
  /\ UNCHANGED <<queue, made, pipe, mutex, popVars>>

\* without a timeout pop returns 0
PeekNone(c) ==
  /\ pc[c] = "peeking" /\ FALSE \in Found(c)
  /\ Goto(c, IF wait[c] THEN "select" ELSE "idle")
  /\ UNCHANGED <<queue, made, pipe, mutex, popVars>>

Select(c) ==
  /\ pipe > 0
  /\ Moves(c, "select", "read")
  /\ UNCHANGED <<queue, made, pipe, mutex, popVars>>

\* the time is over, or a signal has come
SelectReturns(c) ==
  /\ Moves(c, "select", "idle")
  /\ UNCHANGED <<queue, made, pipe, mutex, popVars>>

\* variant: after the read, select is called again
ReadAndSleep(c) ==
  /\ Moves(c, "read", "select")
  /\ pipe' = IF pipe <= ReadLen THEN 0 ELSE pipe - ReadLen
  /\ UNCHANGED <<queue, made, mutex, popVars>>

\* another consumer may have been first; the pipe does not block
Read(c) ==
  /\ Moves(c, "read", "peek")
  /\ pipe' = IF pipe <= ReadLen THEN 0 ELSE pipe - ReadLen
  /\ UNCHANGED <<queue, made, mutex, popVars>>

\* c_waitable_queue, inside: pop_data_dummy, under the semaphore
Copy(c) ==
  /\ pc[c] = "copy"
  /\ IF queue = <<>> THEN Goto(c, "unlock") /\ UNCHANGED buf
     ELSE Goto(c, "move") /\ buf' = [buf EXCEPT ![c] = Head(queue)]
  /\ UNCHANGED <<queue, made, pipe, mutex, wait, some, raced, popped,
                 signals>>

\* pop_data of the queue inside, without a buffer
Move(c) ==
  /\ Moves(c, "move", "unlock")
  /\ IF queue = <<>> THEN UNCHANGED <<queue, popped, raced>>
     ELSE /\ queue' = Tail(queue)
          /\ popped' = Append(popped, buf[c])
          /\ raced' = [d \in Consumers |-> pc[d] = "peeking"]
  /\ UNCHANGED <<made, pipe, mutex, wait, some, buf, signals>>

PopLock(c) == Lock(c, "lock", "copy")

ConsumerStep(c) ==
  \/ PeekBegin(c) \/ PeekSome(c) \/ PeekNone(c)
  \/ Select(c) \/ Read(c)
  \/ PopLock(c) \/ Copy(c) \/ Move(c) \/ Unlock(c)

Next ==
  \/ \E p \in Producers : PushCall(p) \/ ProducerStep(p)
  \/ \E c \in Consumers :
       \/ \E w \in BOOLEAN : PopCall(c, w)
       \/ ConsumerStep(c) \/ SelectReturns(c) \/ LockFails(c)

Spec == Init /\ [][Next]_vars

(***************************************************************************)
(* A call that has been made goes on; nobody is obliged to make one.  Who  *)
(* waits for the semaphore gets it when it is free again and again.        *)
(***************************************************************************)
LiveSpec ==
  /\ Spec
  /\ \A p \in Producers : WF_vars(ProducerStep(p))
  /\ \A c \in Consumers : WF_vars(ConsumerStep(c)) /\ SF_vars(PopLock(c))

\* and consumers come back, in a loop, with a timeout
LoopSpec == LiveSpec /\ \A c \in Consumers : WF_vars(PopCall(c, TRUE))

-----------------------------------------------------------------------------
TypeOK ==
  /\ queue \in Seq(Packets) /\ Len(queue) <= QueueLen
  /\ made \in 0 .. MaxPush
  /\ pipe \in 0 .. PipeLen
  /\ mutex \in BOOLEAN
  /\ pc \in [Procs -> {"idle", "push", "write", "unlock", "peek", "peeking",
                       "select", "read", "lock", "copy", "move"}]
  /\ wait \in [Consumers -> BOOLEAN]
  /\ some \in [Consumers -> BOOLEAN]
  /\ raced \in [Consumers -> BOOLEAN]
  /\ buf \in [Consumers -> Packets \union {NULL}]
  /\ popped \in Seq(Packets \union {NULL})
  /\ signals \in 0 .. MaxSignal

(***************************************************************************)
(* Each packet is popped once, by one consumer, in the order of the pushes *)
(* (i_ring_queue.h says of create_multipopable_queue_instance that it lets *)
(* several processes read).                                                *)
(***************************************************************************)
EachOnce == popped \o queue = [i \in 1 .. made |-> i]

(***************************************************************************)
(* Not all consumers sleep while there is a packet, unless a byte is there *)
(* or on its way to wake one of them, although a consumer reads the bytes  *)
(* meant for others with its own, and a full pipe refuses bytes.           *)
(***************************************************************************)
NotAllAsleep ==
  queue # <<>> /\ (\A c \in Consumers : pc[c] = "select") =>
    pipe > 0 \/ \E p \in Producers : Writing(p)

(***************************************************************************)
(* Every packet is popped, by consumers that come back for more.           *)
(***************************************************************************)
EveryPacketPopped == \A i \in Packets : made >= i ~> Len(popped) >= i

(***************************************************************************)
(* i_ring_queue.h says of a timeout of -1: "wait without limit until there *)
(* is data".  A consumer that sleeps does not go on when there is.         *)
(***************************************************************************)
DataWakes ==
  \A c \in Consumers :
    pc[c] = "select" /\ queue # <<>> ~> pc[c] # "select" \/ queue = <<>>
=============================================================================
